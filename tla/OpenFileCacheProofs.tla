------------------------ MODULE OpenFileCacheProofs ------------------------
(***************************************************************************)
(* Proofs about the open-file cache for every number of slots and paths:   *)
(* each descriptor has one owner, the count is right, a path has one       *)
(* entry, and the entry that is evicted is the least recently used one.    *)
(***************************************************************************)
EXTENDS OpenFileCache, SequenceFacts, FiniteSetTheorems, TLAPS

ValidSlots == {i \in Slots : slots[i].valid}

\* The first three parts of DescriptorsOwned: slots and descriptors agree.
OwnedOnce ==
    /\ \A i \in Slots : slots[i].valid <=> slots[i].fd # NoFd
    /\ \A i, j \in Slots : i # j /\ slots[i].valid /\ slots[j].valid =>
           slots[i].fd # slots[j].fd
    /\ openFds = {slots[i].fd : i \in ValidSlots}

\* The last part: the count, as long as no dup has failed.
CountRight == dupFails = 0 => count = Cardinality(ValidSlots)

\* Only a store names an entry, and it uses what is kept of a path.
NamesStored == \A i \in ValidSlots : slots[i].name \in Names

\* A path between its lookup and its open has no entry: the lookup found none, or
\* dropped the only one.
WantedIsAbsent ==
    \A p \in want : Cacheable(p) /\ Exact(p) => \A i \in ValidSlots : slots[i].name # p

\* Nothing is looked up or stored once the caches are closed.
EndedIsQuiet == ended => want = {} /\ ValidSlots = {}

\* The inductive invariant.
CacheInv ==
    /\ TypeOK
    /\ OwnedOnce
    /\ CountRight
    /\ NamesStored
    /\ OneEntryPerPath
    /\ WantedIsAbsent
    /\ EndedIsQuiet

(***************************************************************************)
(* Searches.                                                               *)
(***************************************************************************)

\* A lookup that has matches finds one of them.
LEMMA FoundMatches ==
    ASSUME NEW p, Matches(p) # {}
    PROVE  /\ Found(p) \in Slots
           /\ slots[Found(p)].valid
           /\ slots[Found(p)].name = p
<1>1. Matches(p) \in SUBSET Nat
  BY CacheAssumption DEF Matches, Slots
<1>2. Found(p) \in Matches(p)
  BY <1>1, MinOfNat DEF Found
<1> QED
  BY <1>2 DEF Matches

\* The store finds a slot: one that is free or holds the name, or if there is none
\* one that was used no later than any other.
LEMMA VictimChosen ==
    ASSUME TypeOK, NEW p, MaxSlots > 0
    PROVE  /\ Victim(p) \in Slots
           /\ \/ ~slots[Victim(p)].valid
              \/ slots[Victim(p)].name = p
              \/ \A j \in Slots : /\ slots[j].valid
                                  /\ slots[Victim(p)].last_used <= slots[j].last_used
<1>1. CASE StopsAt(p) # {}
  <2>1. StopsAt(p) \in SUBSET Nat
    BY CacheAssumption DEF StopsAt, Slots
  <2>2. Victim(p) \in StopsAt(p)
    BY <1>1, <2>1, MinOfNat DEF Victim
  <2> QED
    BY <2>2 DEF StopsAt
<1>2. CASE StopsAt(p) = {}
  <2> DEFINE uses == {slots[i].last_used : i \in Slots}
             oldest == {i \in Slots : \A j \in Slots : slots[i].last_used <= slots[j].last_used}
  <2>1. uses \in SUBSET Nat
    <3>1. \A i \in Slots : slots[i].last_used \in 0..MaxTick
      BY DEF TypeOK, SlotRecord
    <3>2. \A i \in Slots : slots[i].last_used \in Nat
      BY <3>1, CacheAssumption
    <3> QED
      BY <3>2
  <2>2. uses # {}
    <3>1. 1 \in Slots
      BY CacheAssumption DEF Slots
    <3> QED
      BY <3>1
  <2>3. Min(uses) \in uses /\ \A y \in uses : Min(uses) <= y
    BY <2>1, <2>2, MinOfNat
  <2>4. PICK i \in Slots : slots[i].last_used = Min(uses)
    BY <2>3
  <2>5. i \in oldest
    BY <2>3, <2>4
  <2>6. oldest \in SUBSET Nat
    BY CacheAssumption DEF Slots
  <2>7. Min(oldest) \in oldest
    BY <2>5, <2>6, MinOfNat
  <2>8. Victim(p) = Min(oldest)
    BY <1>2 DEF Victim
  <2> QED
    BY <1>2, <2>7, <2>8 DEF StopsAt
<1> QED
  BY <1>1, <1>2

\* The valid slots are finitely many, and there are at most MaxSlots of them.
LEMMA ValidFinite ==
    /\ IsFiniteSet(ValidSlots)
    /\ Cardinality(ValidSlots) \in Nat
    /\ Cardinality(ValidSlots) <= MaxSlots
    /\ ValidSlots # Slots => Cardinality(ValidSlots) < MaxSlots
<1>1. IsFiniteSet(Slots) /\ Cardinality(Slots) = MaxSlots
  BY CacheAssumption, FS_Interval DEF Slots
<1>2. ValidSlots \in SUBSET Slots
  BY DEF ValidSlots
<1>3. /\ IsFiniteSet(ValidSlots)
      /\ Cardinality(ValidSlots) <= Cardinality(Slots)
      /\ Cardinality(Slots) = Cardinality(ValidSlots) => Slots = ValidSlots
  BY <1>1, <1>2, FS_Subset
<1>4. Cardinality(ValidSlots) \in Nat
  BY <1>3, FS_CardinalityType
<1> QED
  BY <1>1, <1>3, <1>4, CacheAssumption

\* There is a descriptor left for dup: the cache holds fewer than MaxSlots + 1.
LEMMA FreshFdIsFree ==
    ASSUME OwnedOnce, NEW used, used \subseteq openFds
    PROVE  FreshFd(used) \in Nat /\ FreshFd(used) \notin used
<1> DEFINE free == {n \in 0..MaxSlots : n \notin used}
           fds == [i \in ValidSlots |-> slots[i].fd]
<1>1. free # {}
  <2> SUFFICES ASSUME free = {} PROVE FALSE
    OBVIOUS
  <2>1. 0..MaxSlots \subseteq openFds
    OBVIOUS
  <2>2. fds \in Surjection(ValidSlots, openFds)
    BY DEF OwnedOnce, Surjection
  <2>3. IsFiniteSet(openFds) /\ Cardinality(openFds) <= Cardinality(ValidSlots)
    BY <2>2, ValidFinite, FS_Surjection
  <2>4. /\ IsFiniteSet(0..MaxSlots)
        /\ Cardinality(0..MaxSlots) = MaxSlots + 1
    <3>1. 0 \in Int /\ MaxSlots \in Int /\ ~(0 > MaxSlots) /\ MaxSlots - 0 + 1 = MaxSlots + 1
      BY CacheAssumption
    <3> QED
      BY <3>1, FS_Interval
  <2>5. Cardinality(0..MaxSlots) <= Cardinality(openFds)
    BY <2>1, <2>3, FS_Subset
  <2>6. Cardinality(openFds) \in Nat
    BY <2>3, FS_CardinalityType
  <2> QED
    BY <2>3, <2>4, <2>5, <2>6, ValidFinite, CacheAssumption
<1>2. free \in SUBSET Nat
  BY CacheAssumption
<1>3. Min(free) \in free
  BY <1>1, <1>2, MinOfNat
<1>4. FreshFd(used) = Min(free)
  BY DEF FreshFd
<1> QED
  BY <1>2, <1>3, <1>4

(***************************************************************************)
(* Steps on the table.                                                     *)
(***************************************************************************)

\* An entry is dropped and its descriptor closed.
LEMMA DropsEntry ==
    ASSUME CacheInv, NEW v \in Slots, slots[v].valid,
           slots' = [slots EXCEPT ![v] = EmptySlot],
           openFds' = openFds \ {slots[v].fd}
    PROVE  /\ OwnedOnce'
           /\ ValidSlots' = ValidSlots \ {v}
           /\ \A i \in ValidSlots' : slots'[i] = slots[i]
           /\ Cardinality(ValidSlots') = Cardinality(ValidSlots) - 1
           /\ Cardinality(ValidSlots) > 0
<1>1. \A i \in Slots : slots'[i] = IF i = v THEN EmptySlot ELSE slots[i]
  BY DEF CacheInv, TypeOK
<1>0. EmptySlot.valid = FALSE /\ EmptySlot.fd = NoFd
  BY DEF EmptySlot
<1>2. ValidSlots' = ValidSlots \ {v} /\ v \in ValidSlots
  BY <1>0, <1>1 DEF ValidSlots
<1>3. OwnedOnce'
  <2>1. \A i \in Slots : slots'[i].valid <=> slots'[i].fd # NoFd
    BY <1>0, <1>1 DEF CacheInv, OwnedOnce
  <2>2. \A i, j \in Slots : i # j /\ slots'[i].valid /\ slots'[j].valid =>
            slots'[i].fd # slots'[j].fd
    BY <1>0, <1>1 DEF CacheInv, OwnedOnce
  <2>3. openFds' = {slots'[i].fd : i \in ValidSlots'}
    BY <1>1, <1>2 DEF CacheInv, OwnedOnce, ValidSlots
  <2> QED
    BY <2>1, <2>2, <2>3 DEF OwnedOnce
<1>4. Cardinality(ValidSlots \ {v}) = Cardinality(ValidSlots) - 1
  BY <1>2, ValidFinite, FS_RemoveElement
<1>5. Cardinality(ValidSlots) # 0
  BY <1>2, ValidFinite, FS_EmptySet
<1>6. \A i \in ValidSlots' : slots'[i] = slots[i]
  BY <1>1, <1>2 DEF ValidSlots
<1>7. Cardinality(ValidSlots) > 0
  BY <1>5, ValidFinite
<1> QED
  BY <1>2, <1>3, <1>4, <1>6, <1>7

\* A slot, free or not, is filled with a new entry and a descriptor of its own.
LEMMA StoresEntry ==
    ASSUME CacheInv, NEW v \in Slots, NEW e, NEW fd \in Nat,
           e.valid, e.fd = fd, fd \notin openFds \ {slots[v].fd},
           slots' = [slots EXCEPT ![v] = e],
           openFds' = (openFds \ {slots[v].fd}) \cup {fd}
    PROVE  /\ OwnedOnce'
           /\ ValidSlots' = ValidSlots \cup {v}
           /\ \A i \in Slots \ {v} : slots'[i] = slots[i]
           /\ slots'[v] = e
           /\ Cardinality(ValidSlots') =
                IF slots[v].valid THEN Cardinality(ValidSlots) ELSE Cardinality(ValidSlots) + 1
           /\ ~slots[v].valid => Cardinality(ValidSlots) < MaxSlots
<1>1. \A i \in Slots : slots'[i] = IF i = v THEN e ELSE slots[i]
  BY DEF CacheInv, TypeOK
<1>2. ValidSlots' = ValidSlots \cup {v}
  BY <1>1 DEF ValidSlots
<1>3. \A i \in Slots \ {v} : slots[i].valid => slots[i].fd \in openFds \ {slots[v].fd}
  BY DEF CacheInv, OwnedOnce, ValidSlots, NoFd
<1>4. OwnedOnce'
  <2>1. \A i \in Slots : slots'[i].valid <=> slots'[i].fd # NoFd
    BY <1>1 DEF CacheInv, OwnedOnce, NoFd
  <2>2. \A i, j \in Slots : i # j /\ slots'[i].valid /\ slots'[j].valid =>
            slots'[i].fd # slots'[j].fd
    BY <1>1, <1>3 DEF CacheInv, OwnedOnce
  <2>3. openFds' = {slots'[i].fd : i \in ValidSlots'}
    <3>1. ASSUME NEW n \in openFds' PROVE \E i \in ValidSlots' : n = slots'[i].fd
      <4>1. CASE n = fd
        BY <1>1, <1>2, <4>1
      <4>2. CASE n \in openFds /\ n # slots[v].fd
        <5>1. PICK i \in ValidSlots : n = slots[i].fd
          BY <4>2 DEF CacheInv, OwnedOnce
        <5> QED
          BY <1>1, <1>2, <4>2, <5>1 DEF ValidSlots
      <4> QED
        BY <3>1, <4>1, <4>2
    <3>2. ASSUME NEW i \in ValidSlots' PROVE slots'[i].fd \in openFds'
      BY <1>1, <1>2, <1>3, <3>2 DEF ValidSlots
    <3> QED
      BY <3>1, <3>2
  <2> QED
    BY <2>1, <2>2, <2>3 DEF OwnedOnce
<1>5. /\ v \in ValidSlots <=> slots[v].valid
      /\ ~slots[v].valid => ValidSlots # Slots
  BY DEF ValidSlots
<1>6. Cardinality(ValidSlots \cup {v}) =
         IF v \in ValidSlots THEN Cardinality(ValidSlots) ELSE Cardinality(ValidSlots) + 1
  BY ValidFinite, FS_AddElement
<1> QED
  BY <1>1, <1>2, <1>4, <1>5, <1>6, ValidFinite

\* Steps that leave the table, its count and the lookup in progress alone.
LEMMA TableUntouched ==
    ASSUME CacheInv, TypeOK', UNCHANGED <<slots, openFds, count, want, dupFails, ended>>
    PROVE  CacheInv'
<1>1. ValidSlots' = ValidSlots
  BY DEF ValidSlots
<1>2. OwnedOnce' /\ CountRight' /\ NamesStored' /\ OneEntryPerPath' /\ WantedIsAbsent'
         /\ EndedIsQuiet'
  BY <1>1 DEF CacheInv, OwnedOnce, CountRight, NamesStored, OneEntryPerPath,
              WantedIsAbsent, EndedIsQuiet
<1> QED
  BY <1>2 DEF CacheInv

\* A set of at most one path.
LEMMA SingleWant ==
    /\ Cardinality({}) <= 1
    /\ \A p : Cardinality({p}) <= 1
BY FS_EmptySet, FS_Singleton

(***************************************************************************)
(* One lemma per operation.                                                *)
(***************************************************************************)

\* Nothing is open or wanted at the start.
LEMMA InitCache == Init => CacheInv
<1> SUFFICES ASSUME Init PROVE CacheInv
  OBVIOUS
<1>1. /\ slots = [i \in Slots |-> EmptySlot] /\ openFds = {} /\ count = 0
      /\ want = {} /\ dupFails = 0 /\ ended = FALSE
  BY DEF Init
<1>2. /\ EmptySlot.valid = FALSE /\ EmptySlot.fd = NoFd
      /\ \A i \in Slots : slots[i] = EmptySlot
  BY <1>1 DEF EmptySlot
<1>3. ValidSlots = {}
  BY <1>2 DEF ValidSlots
<1>4. TypeOK
  <2>1. EmptySlot \in SlotRecord
    BY CacheAssumption DEF EmptySlot, SlotRecord
  <2>2. slots \in [Slots -> SlotRecord]
    BY <1>1, <2>1
  <2>3. /\ file \in [Paths -> [kind : {"none", "reg", "dir"}, stamp : 0..MaxStamp]]
        /\ stamps \in 0..MaxStamp /\ tick \in 0..MaxTick
    BY CacheAssumption DEF Init
  <2>4. /\ openFds \subseteq Nat /\ count \in 0..MaxSlots /\ dupFails \in 0..MaxDupFails
        /\ want \subseteq Paths /\ Cardinality(want) <= 1 /\ ended \in BOOLEAN
    <3>1. 0 \in 0..MaxSlots /\ 0 \in 0..MaxDupFails
      BY CacheAssumption
    <3> QED
      BY <1>1, <3>1, SingleWant
  <2> QED
    BY <2>2, <2>3, <2>4 DEF TypeOK
<1>5. OwnedOnce
  BY <1>1, <1>2, <1>3 DEF OwnedOnce
<1>6. CountRight /\ NamesStored /\ WantedIsAbsent /\ EndedIsQuiet
  BY <1>1, <1>3, FS_EmptySet DEF CountRight, NamesStored, WantedIsAbsent, EndedIsQuiet
<1>7. OneEntryPerPath
  BY <1>2 DEF OneEntryPerPath
<1> QED
  BY <1>4, <1>5, <1>6, <1>7 DEF CacheInv

\* Other processes touch the files only.
LEMMA FilesChange ==
    ASSUME CacheInv, NEW p \in Paths,
           (\E k \in {"reg", "dir"} : WriteFile(p, k)) \/ RemoveFile(p)
    PROVE  CacheInv'
<1>1. TypeOK'
  <2>1. /\ file' \in [Paths -> [kind : {"none", "reg", "dir"}, stamp : 0..MaxStamp]]
        /\ stamps' \in 0..MaxStamp
    <3>1. /\ file \in [Paths -> [kind : {"none", "reg", "dir"}, stamp : 0..MaxStamp]]
          /\ stamps \in 0..MaxStamp
      BY DEF CacheInv, TypeOK
    <3>2. CASE RemoveFile(p)
      BY <3>1, <3>2, CacheAssumption DEF RemoveFile
    <3>3. CASE \E k \in {"reg", "dir"} : WriteFile(p, k)
      BY <3>1, <3>3, CacheAssumption DEF WriteFile
    <3> QED
      BY <3>2, <3>3
  <2> QED
    BY <2>1 DEF CacheInv, TypeOK, WriteFile, RemoveFile
<1> QED
  BY <1>1, TableUntouched DEF WriteFile, RemoveFile

\* A lookup that finds nothing: the path has no entry until it is opened.
LEMMA MissKeeps ==
    ASSUME CacheInv, NEW p \in Paths, LookupMiss(p)
    PROVE  CacheInv'
<1>1. /\ UNCHANGED <<file, stamps, slots, openFds, count, tick, dupFails, ended>>
      /\ want' = {p} /\ ~ended
  BY DEF LookupMiss
<1>2. ValidSlots' = ValidSlots
  BY <1>1 DEF ValidSlots
<1>3. TypeOK'
  BY <1>1, SingleWant DEF CacheInv, TypeOK
<1>4. WantedIsAbsent'
  <2> SUFFICES ASSUME Cacheable(p), NEW i \in ValidSlots, slots[i].name = p PROVE FALSE
    BY <1>1, <1>2 DEF WantedIsAbsent, Cacheable, Exact
  <2>1. Matches(p) = {}
    BY DEF LookupMiss
  <2>2. i \in Slots /\ slots[i].valid /\ slots[i].fd >= 0
    <3>1. i \in Slots /\ slots[i].valid /\ slots[i].fd # NoFd
      BY DEF CacheInv, OwnedOnce, ValidSlots
    <3>2. slots[i].fd \in Nat \cup {NoFd}
      BY <3>1 DEF CacheInv, TypeOK, SlotRecord
    <3> QED
      BY <3>1, <3>2
  <2> QED
    BY <2>1, <2>2 DEF Matches
<1>5. OwnedOnce' /\ CountRight' /\ NamesStored' /\ OneEntryPerPath' /\ EndedIsQuiet'
  BY <1>1, <1>2 DEF CacheInv, OwnedOnce, CountRight, NamesStored, OneEntryPerPath, EndedIsQuiet
<1> QED
  BY <1>3, <1>4, <1>5 DEF CacheInv

\* A hit only moves the clock of the entry.
LEMMA HitKeeps ==
    ASSUME CacheInv, NEW p \in Paths, LookupHit(p)
    PROVE  CacheInv'
<1> DEFINE v == Found(p)
<1>1. /\ UNCHANGED <<file, stamps, openFds, count, want, dupFails, ended>>
      /\ tick < MaxTick /\ tick' = tick + 1
      /\ slots' = [slots EXCEPT ![v].last_used = tick + 1]
  BY DEF LookupHit
<1>2. v \in Slots
  BY FoundMatches DEF LookupHit
<1> HIDE DEF v
<1>3. TypeOK'
  <2>1. tick + 1 \in 0..MaxTick
    <3>1. tick \in 0..MaxTick
      BY DEF CacheInv, TypeOK
    <3> QED
      BY <1>1, <3>1, CacheAssumption
  <2>2. slots' \in [Slots -> SlotRecord]
    <3>1. slots \in [Slots -> SlotRecord]
      BY DEF CacheInv, TypeOK
    <3>2. [slots[v] EXCEPT !.last_used = tick + 1] \in SlotRecord
      BY <1>2, <2>1, <3>1 DEF SlotRecord
    <3> QED
      BY <1>1, <1>2, <3>1, <3>2
  <2> QED
    BY <1>1, <2>1, <2>2 DEF CacheInv, TypeOK
<1>4. \A i \in Slots : /\ slots'[i].valid = slots[i].valid
                        /\ slots'[i].fd = slots[i].fd
                        /\ slots'[i].name = slots[i].name
  BY <1>1, <1>2 DEF CacheInv, TypeOK, SlotRecord
<1>5. ValidSlots' = ValidSlots /\ ValidSlots \subseteq Slots
  BY <1>4 DEF ValidSlots
<1>6. OwnedOnce'
  <2>1. openFds' = {slots'[i].fd : i \in ValidSlots'}
    BY <1>1, <1>4, <1>5 DEF CacheInv, OwnedOnce
  <2> QED
    BY <1>4, <2>1 DEF CacheInv, OwnedOnce
<1>7. CountRight' /\ NamesStored' /\ WantedIsAbsent' /\ EndedIsQuiet'
  BY <1>1, <1>4, <1>5
     DEF CacheInv, CountRight, NamesStored, WantedIsAbsent, EndedIsQuiet, Cacheable, Exact
<1>8. OneEntryPerPath'
  BY <1>4 DEF CacheInv, OneEntryPerPath
<1> QED
  BY <1>3, <1>6, <1>7, <1>8 DEF CacheInv

\* A stale entry is dropped, and with it the only one of an exact path.
LEMMA StaleKeeps ==
    ASSUME CacheInv, NEW p \in Paths, LookupStale(p)
    PROVE  CacheInv'
<1> DEFINE v == Found(p)
<1>1. /\ UNCHANGED <<file, stamps, tick, dupFails, ended>>
      /\ want' = {p} /\ ~ended
      /\ slots' = [slots EXCEPT ![v] = EmptySlot]
      /\ openFds' = openFds \ {slots[v].fd}
      /\ count' = Decrement(count)
  BY DEF LookupStale
<1>2. v \in Slots /\ slots[v].valid /\ slots[v].name = p
  BY FoundMatches DEF LookupStale
<1> HIDE DEF v
<1>3. /\ OwnedOnce'
      /\ ValidSlots' = ValidSlots \ {v}
      /\ \A i \in ValidSlots' : slots'[i] = slots[i]
      /\ Cardinality(ValidSlots') = Cardinality(ValidSlots) - 1
      /\ Cardinality(ValidSlots) > 0
  BY <1>1, <1>2, DropsEntry
<1>4. count \in 0..MaxSlots
  BY DEF CacheInv, TypeOK
<1>5. TypeOK'
  <2>1. EmptySlot \in SlotRecord
    BY CacheAssumption DEF EmptySlot, SlotRecord
  <2>2. slots' \in [Slots -> SlotRecord]
    BY <1>1, <2>1 DEF CacheInv, TypeOK
  <2>3. count' \in 0..MaxSlots
    BY <1>1, <1>4, CacheAssumption DEF Decrement
  <2> QED
    BY <1>1, <2>2, <2>3, SingleWant DEF CacheInv, TypeOK
<1>6. CountRight'
  BY <1>1, <1>3, <1>4, ValidFinite DEF CacheInv, CountRight, Decrement
<1>7. NamesStored'
  BY <1>3 DEF CacheInv, NamesStored
<1>8. OneEntryPerPath'
  <2>1. \A i \in Slots : slots'[i].valid => i \in Slots /\ slots[i].valid /\ slots'[i] = slots[i]
    BY <1>3 DEF ValidSlots
  <2> QED
    BY <2>1 DEF CacheInv, OneEntryPerPath
<1>9. WantedIsAbsent'
  <2> SUFFICES ASSUME Exact(p), NEW i \in ValidSlots', slots'[i].name = p PROVE FALSE
    BY <1>1 DEF WantedIsAbsent, Cacheable, Exact
  <2>1. i \in Slots /\ slots[i].valid /\ slots[i].name = p /\ i # v
    BY <1>3 DEF ValidSlots
  <2> QED
    BY <1>2, <2>1 DEF CacheInv, OneEntryPerPath
<1>10. EndedIsQuiet'
  BY <1>1 DEF EndedIsQuiet
<1> QED
  BY <1>3, <1>5, <1>6, <1>7, <1>8, <1>9, <1>10 DEF CacheInv

\* The path is opened and nothing is kept.
LEMMA UncachedKeeps ==
    ASSUME CacheInv, NEW p \in Paths, OpenUncached(p)
    PROVE  CacheInv'
<1>1. /\ UNCHANGED <<file, stamps, slots, openFds, count, tick, dupFails, ended>>
      /\ want' = {}
  BY DEF OpenUncached
<1>2. ValidSlots' = ValidSlots
  BY <1>1 DEF ValidSlots
<1>3. TypeOK'
  BY <1>1, SingleWant DEF CacheInv, TypeOK
<1>4. OwnedOnce' /\ CountRight' /\ NamesStored' /\ OneEntryPerPath' /\ WantedIsAbsent'
         /\ EndedIsQuiet'
  BY <1>1, <1>2 DEF CacheInv, OwnedOnce, CountRight, NamesStored, OneEntryPerPath,
                    WantedIsAbsent, EndedIsQuiet
<1> QED
  BY <1>3, <1>4 DEF CacheInv

\* The store: the descriptor is new to the cache, the slot was free or its old
\* descriptor has been closed, and no other slot has the name of an exact path.
LEMMA StoreKeeps ==
    ASSUME CacheInv, NEW p \in Paths, OpenAndStore(p)
    PROVE  CacheInv'
<1> DEFINE v  == Victim(p)
           fd == FreshFd(openFds \ {slots[v].fd})
           e  == [valid |-> TRUE, fd |-> fd, name |-> NameOf[p],
                  stamp |-> file[p].stamp, last_used |-> tick + 1]
<1>1. /\ UNCHANGED <<file, stamps, dupFails, ended>>
      /\ want = {p} /\ want' = {} /\ Cacheable(p)
      /\ tick < MaxTick /\ tick' = tick + 1
      /\ slots' = [slots EXCEPT ![v] = e]
      /\ openFds' = (openFds \ {slots[v].fd}) \cup {fd}
      /\ count' = CountAfterStore(slots[v].valid)
  BY DEF OpenAndStore
<1>2. v \in Slots
  BY <1>1, VictimChosen DEF Cacheable, CacheInv
<1>3. fd \in Nat /\ fd \notin openFds \ {slots[v].fd}
  BY FreshFdIsFree DEF CacheInv
<1>4. e.valid /\ e.fd = fd /\ e.name = NameOf[p] /\ e.valid = TRUE
  OBVIOUS
<1>5. NameOf[p] \in Names
  BY DEF Names
<1>6. e \in SlotRecord
  <2>1. file[p].stamp \in 0..MaxStamp /\ tick \in 0..MaxTick
    BY DEF CacheInv, TypeOK
  <2>2. tick + 1 \in 0..MaxTick
    BY <1>1, <2>1, CacheAssumption
  <2> QED
    BY <1>3, <1>5, <2>1, <2>2 DEF SlotRecord
<1> HIDE DEF v, fd, e
<1>7. /\ OwnedOnce'
      /\ ValidSlots' = ValidSlots \cup {v}
      /\ \A i \in Slots \ {v} : slots'[i] = slots[i]
      /\ slots'[v] = e
      /\ Cardinality(ValidSlots') =
           IF slots[v].valid THEN Cardinality(ValidSlots) ELSE Cardinality(ValidSlots) + 1
      /\ ~slots[v].valid => Cardinality(ValidSlots) < MaxSlots
  BY <1>1, <1>2, <1>3, <1>4, StoresEntry
<1>8. count \in 0..MaxSlots
  BY DEF CacheInv, TypeOK
<1>9. TypeOK'
  <2>1. slots' \in [Slots -> SlotRecord]
    BY <1>1, <1>6 DEF CacheInv, TypeOK
  <2>2. count' \in 0..MaxSlots
    BY <1>1, <1>8, CacheAssumption DEF CountAfterStore
  <2>3. tick' \in 0..MaxTick
    <3>1. tick \in 0..MaxTick
      BY DEF CacheInv, TypeOK
    <3> QED
      BY <1>1, <3>1, CacheAssumption
  <2>4. openFds' \subseteq Nat
    BY <1>1, <1>3 DEF CacheInv, TypeOK
  <2> QED
    BY <1>1, <2>1, <2>2, <2>3, <2>4, SingleWant DEF CacheInv, TypeOK
<1>10. CountRight'
  BY <1>1, <1>7, <1>8, ValidFinite DEF CacheInv, CountRight, CountAfterStore
<1>11. NamesStored'
  BY <1>4, <1>5, <1>7 DEF CacheInv, NamesStored, ValidSlots
<1>12. OneEntryPerPath'
  <2> SUFFICES ASSUME NEW q \in Paths, Exact(q), NEW i \in Slots, NEW j \in Slots,
                      slots'[i].valid, slots'[j].valid, slots'[i].name = q, slots'[j].name = q
               PROVE  i = j
    BY DEF OneEntryPerPath, Exact
  <2>1. CASE NameOf[p] = q
    <3>1. q = p
      BY <2>1 DEF Exact
    <3>2. \A k \in ValidSlots : slots[k].name # p
      BY <1>1, <3>1 DEF CacheInv, WantedIsAbsent
    <3> QED
      BY <1>7, <3>1, <3>2 DEF ValidSlots
  <2>2. CASE NameOf[p] # q
    <3>1. i # v /\ j # v
      BY <1>4, <1>7, <2>2
    <3> QED
      BY <1>7, <3>1 DEF CacheInv, OneEntryPerPath
  <2> QED
    BY <2>1, <2>2
<1>13. WantedIsAbsent' /\ EndedIsQuiet'
  BY <1>1 DEF CacheInv, WantedIsAbsent, EndedIsQuiet
<1> QED
  BY <1>7, <1>9, <1>10, <1>11, <1>12, <1>13 DEF CacheInv

\* dup fails: the slot that was to be reused is empty, whatever the count says.
LEMMA FailedStoreKeeps ==
    ASSUME CacheInv, NEW p \in Paths, StoreFails(p)
    PROVE  CacheInv'
<1> DEFINE v == Victim(p)
<1>1. /\ UNCHANGED <<file, stamps, count, tick, ended>>
      /\ want = {p} /\ want' = {} /\ Cacheable(p)
      /\ dupFails < MaxDupFails /\ dupFails' = dupFails + 1
      /\ IF slots[v].valid
         THEN slots' = [slots EXCEPT ![v] = EmptySlot] /\ openFds' = openFds \ {slots[v].fd}
         ELSE UNCHANGED <<slots, openFds>>
  BY DEF StoreFails
<1>2. v \in Slots
  BY <1>1, VictimChosen DEF Cacheable, CacheInv
<1> HIDE DEF v
<1>3. dupFails' \in 0..MaxDupFails /\ dupFails' # 0
  <2>1. dupFails \in 0..MaxDupFails
    BY DEF CacheInv, TypeOK
  <2> QED
    BY <1>1, <2>1, CacheAssumption
<1>4. WantedIsAbsent' /\ CountRight'
  BY <1>1, <1>3 DEF WantedIsAbsent, CountRight
<1>5. CASE slots[v].valid
  <2>1. /\ OwnedOnce'
        /\ ValidSlots' = ValidSlots \ {v}
        /\ \A i \in ValidSlots' : slots'[i] = slots[i]
    BY <1>1, <1>2, <1>5, DropsEntry
  <2>2. EmptySlot \in SlotRecord
    BY CacheAssumption DEF EmptySlot, SlotRecord
  <2>3. slots' \in [Slots -> SlotRecord] /\ openFds' \subseteq Nat
    BY <1>1, <1>5, <2>2 DEF CacheInv, TypeOK
  <2>4. TypeOK'
    BY <1>1, <1>3, <2>3, SingleWant DEF CacheInv, TypeOK
  <2>5. NamesStored' /\ EndedIsQuiet'
    BY <1>1, <2>1 DEF CacheInv, NamesStored, EndedIsQuiet
  <2>6. OneEntryPerPath'
    <3>1. \A i \in Slots : slots'[i].valid => slots[i].valid /\ slots'[i] = slots[i]
      BY <2>1 DEF ValidSlots
    <3> QED
      BY <3>1 DEF CacheInv, OneEntryPerPath
  <2> QED
    BY <1>4, <2>1, <2>4, <2>5, <2>6 DEF CacheInv
<1>6. CASE ~slots[v].valid
  <2>1. slots' = slots /\ openFds' = openFds
    BY <1>1, <1>6
  <2>2. ValidSlots' = ValidSlots
    BY <2>1 DEF ValidSlots
  <2>3. TypeOK'
    BY <1>1, <1>3, <2>1, SingleWant DEF CacheInv, TypeOK
  <2>4. OwnedOnce' /\ NamesStored' /\ OneEntryPerPath' /\ EndedIsQuiet'
    BY <1>1, <2>1, <2>2 DEF CacheInv, OwnedOnce, NamesStored, OneEntryPerPath, EndedIsQuiet
  <2> QED
    BY <1>4, <2>3, <2>4 DEF CacheInv
<1> QED
  BY <1>5, <1>6

\* The caches are closed: every descriptor was in some slot.
LEMMA CloseKeeps ==
    ASSUME CacheInv, CloseSiteCaches
    PROVE  CacheInv'
<1>1. /\ UNCHANGED <<file, stamps, tick, want, dupFails>>
      /\ want = {} /\ ended' = TRUE /\ count' = 0
      /\ slots' = [i \in Slots |-> [slots[i] EXCEPT !.valid = FALSE, !.fd = NoFd]]
      /\ openFds' = openFds \ {slots[i].fd : i \in Slots}
  BY DEF CloseSiteCaches
<1>2. \A i \in Slots : slots[i] \in SlotRecord
  BY DEF CacheInv, TypeOK
<1>3. \A i \in Slots : slots'[i].valid = FALSE /\ slots'[i].fd = NoFd
  BY <1>1, <1>2 DEF SlotRecord
<1>4. ValidSlots' = {}
  BY <1>3 DEF ValidSlots
<1>5. openFds' = {}
  BY <1>1 DEF CacheInv, OwnedOnce, ValidSlots
<1>6. TypeOK'
  <2>1. \A i \in Slots : [slots[i] EXCEPT !.valid = FALSE, !.fd = NoFd] \in SlotRecord
    BY <1>2 DEF SlotRecord
  <2>2. slots' \in [Slots -> SlotRecord]
    BY <1>1, <2>1
  <2>3. 0 \in 0..MaxSlots
    BY CacheAssumption
  <2> QED
    BY <1>1, <1>5, <2>2, <2>3 DEF CacheInv, TypeOK
<1>7. OwnedOnce'
  BY <1>3, <1>4, <1>5 DEF OwnedOnce
<1>8. CountRight' /\ NamesStored' /\ WantedIsAbsent' /\ EndedIsQuiet'
  BY <1>1, <1>4, FS_EmptySet DEF CountRight, NamesStored, WantedIsAbsent, EndedIsQuiet
<1>9. OneEntryPerPath'
  BY <1>3 DEF OneEntryPerPath
<1> QED
  BY <1>6, <1>7, <1>8, <1>9 DEF CacheInv

\* Every step of the cache and of the file system keeps the invariant.
LEMMA NextCache == CacheInv /\ [Next]_vars => CacheInv'
<1> SUFFICES ASSUME CacheInv, [Next]_vars PROVE CacheInv'
  OBVIOUS
<1>1. CASE UNCHANGED vars
  <2>1. TypeOK'
    BY <1>1 DEF vars, CacheInv, TypeOK
  <2> QED
    BY <1>1, <2>1, TableUntouched DEF vars
<1>2. ASSUME NEW p \in Paths,
             \/ \E k \in {"reg", "dir"} : WriteFile(p, k)
             \/ RemoveFile(p)
             \/ LookupMiss(p) \/ LookupHit(p) \/ LookupStale(p)
             \/ OpenUncached(p) \/ OpenAndStore(p) \/ StoreFails(p)
      PROVE  CacheInv'
  BY <1>2, FilesChange, MissKeeps, HitKeeps, StaleKeeps, UncachedKeeps, StoreKeeps,
     FailedStoreKeeps
<1>3. CASE CloseSiteCaches
  BY <1>3, CloseKeeps
<1> QED
  BY <1>1, <1>2, <1>3 DEF Next

\* The inductive invariant holds throughout.
LEMMA SpecCache == Spec => []CacheInv
BY InitCache, NextCache, PTL DEF Spec

(***************************************************************************)
(* The results.                                                            *)
(***************************************************************************)

\* However many slots and paths there are, and whatever is evicted, replaced on disk
\* or fails: every descriptor the cache holds belongs to exactly one entry, none is
\* left once the caches are closed, and open_file_cache_count is right as long as no
\* dup has failed.
THEOREM EachDescriptorOwned == Spec => []DescriptorsOwned
<1>1. CacheInv => DescriptorsOwned
  <2> SUFFICES ASSUME CacheInv PROVE DescriptorsOwned
    OBVIOUS
  <2>1. openFds = {slots[i].fd : i \in {j \in Slots : slots[j].valid}}
    BY DEF CacheInv, OwnedOnce, ValidSlots
  <2>2. ended => openFds = {}
    BY DEF CacheInv, OwnedOnce, EndedIsQuiet
  <2>3. dupFails = 0 => count = Cardinality({i \in Slots : slots[i].valid})
    BY DEF CacheInv, CountRight, ValidSlots
  <2> QED
    BY <2>1, <2>2, <2>3 DEF CacheInv, OwnedOnce, DescriptorsOwned
<1> QED
  BY <1>1, SpecCache, PTL

\* A path that is stored uncut never has two entries, although the store takes the
\* first free slot without looking for the name in the slots behind it.
THEOREM PathsStoredOnce == Spec => []OneEntryPerPath
<1>1. CacheInv => OneEntryPerPath
  BY DEF CacheInv
<1> QED
  BY <1>1, SpecCache, PTL

\* Only a store into a full table gives up an entry for one of another name.
LEMMA EvictionIsLru ==
    ASSUME CacheInv, [Next]_vars, NEW i \in Slots, Evicts(i)
    PROVE  \A j \in Slots : slots[j].valid /\ slots[i].last_used <= slots[j].last_used
<1>0. /\ slots \in [Slots -> SlotRecord] /\ slots' \in [Slots -> SlotRecord]
      /\ TypeOK
  BY NextCache DEF CacheInv, TypeOK
<1>1. slots'[i].valid /\ slots[i].valid /\ slots'[i].name # slots[i].name
  BY DEF Evicts
<1>2. EmptySlot.valid = FALSE
  BY DEF EmptySlot
<1>3. slots' # slots
  BY <1>1
<1>4. ASSUME NEW p \in Paths, OpenAndStore(p)
      PROVE  \A j \in Slots : slots[j].valid /\ slots[i].last_used <= slots[j].last_used
  <2> DEFINE v == Victim(p)
  <2> DEFINE e == [valid |-> TRUE, fd |-> FreshFd(openFds \ {slots[v].fd}), name |-> NameOf[p],
                   stamp |-> file[p].stamp, last_used |-> tick + 1]
  <2>1. slots' = [slots EXCEPT ![v] = e] /\ e.name = NameOf[p]
    BY <1>4 DEF OpenAndStore
  <2> HIDE DEF e
  <2>2. v = i /\ slots'[v] = e
    BY <1>0, <1>1, <2>1
  <2>3. slots[v].name # p
    <3> SUFFICES ASSUME slots[v].name = p PROVE FALSE
      OBVIOUS
    <3>1. p \in Names
      BY <1>1, <2>2 DEF CacheInv, NamesStored, ValidSlots
    <3>2. NameOf[p] = p
      BY <3>1, CacheAssumption DEF Names
    <3> QED
      BY <1>1, <2>1, <2>2, <3>2
  <2>4. MaxSlots > 0
    BY <1>4 DEF OpenAndStore, Cacheable
  <2> QED
    BY <1>0, <1>1, <2>2, <2>3, <2>4, VictimChosen
<1>5. ASSUME NEW p \in Paths, LookupHit(p) PROVE FALSE
  <2>1. Found(p) \in Slots /\ slots' = [slots EXCEPT ![Found(p)].last_used = tick + 1]
    BY <1>5, FoundMatches DEF LookupHit
  <2>2. slots'[i].name = slots[i].name
    BY <1>0, <2>1 DEF SlotRecord
  <2> QED
    BY <1>1, <2>2
<1>6. ASSUME NEW p \in Paths, LookupStale(p) \/ StoreFails(p) PROVE FALSE
  <2>1. PICK v : slots' = [slots EXCEPT ![v] = EmptySlot]
    BY <1>3, <1>6 DEF LookupStale, StoreFails
  <2> QED
    BY <1>0, <1>1, <1>2, <2>1
<1>7. CASE CloseSiteCaches
  <2>1. slots'[i].valid = FALSE
    BY <1>0, <1>7, ZenonT(60) DEF CloseSiteCaches, SlotRecord
  <2> QED
    BY <1>1, <2>1
<1> QED
  BY <1>3, <1>4, <1>5, <1>6, <1>7
     DEF Next, vars, WriteFile, RemoveFile, LookupMiss, OpenUncached

\* An entry is given up for another name only when the table is full, and then it is
\* one that no other entry was used before (static_open_cache_store).
THEOREM EvictionSparesTheRecent == Spec => EvictsLeastRecent
<1>1. CacheInv /\ [Next]_vars =>
        [\A i \in Slots : Evicts(i) =>
           \A j \in Slots : slots[j].valid /\ slots[i].last_used <= slots[j].last_used]_vars
  BY EvictionIsLru
<1> QED
  BY <1>1, SpecCache, PTL DEF Spec, EvictsLeastRecent
=============================================================================
