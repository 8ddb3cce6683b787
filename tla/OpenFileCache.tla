--------------------------- MODULE OpenFileCache ---------------------------
(***************************************************************************)
(* The open-file cache of a site (src/src/server.c): the slots, the        *)
(* descriptors they own, the use clock and the entry count, driven by      *)
(* open_static_path while other processes change the files.                *)
(*                                                                         *)
(* (st_size, st_mtime, st_ino) is one stamp.  A path of 512 bytes or more  *)
(* is cut short when it is stored and compared in full when it is looked   *)
(* up: NameOf says what is kept of a path.                                 *)
(***************************************************************************)
EXTENDS Integers, FiniteSets, FiniteSetsExt

CONSTANTS
    Paths,       \* relative paths requests lead to
    NameOf,      \* what rpsiod_safe_copy keeps of each in relative_path
    Blocked,     \* paths static_cache_path_blocked keeps out of the cache
    MaxSlots,    \* open_file_cache_max, at most RPSIOD_OPEN_FILE_CACHE_MAX
    MaxStamp,    \* bound: versions of files ever written
    MaxTick,     \* bound: uses counted by open_file_cache_tick
    MaxDupFails  \* bound: calls of dup that fail

ASSUME CacheAssumption ==
    /\ NameOf \in [Paths -> STRING]
    /\ Paths \subseteq STRING
    /\ \A p, q \in Paths : NameOf[p] = q => NameOf[q] = q   \* what is kept is short enough
    /\ MaxSlots \in Nat
    /\ MaxStamp \in Nat
    /\ MaxTick \in Nat
    /\ MaxDupFails \in Nat

Slots == 1..MaxSlots

NoFd == -1

VARIABLES
    file,      \* what is at each path: kind "none", "reg", "dir", and its stamp
    stamps,    \* stamps given out so far
    slots,     \* open_file_cache
    openFds,   \* descriptors the process holds for the cache
    count,     \* open_file_cache_count
    tick,      \* open_file_cache_tick
    want,      \* the path between its failed lookup and its open, if any
    dupFails,
    ended      \* the server has returned and its caches are closed

vars == <<file, stamps, slots, openFds, count, tick, want, dupFails, ended>>

EmptySlot == [valid |-> FALSE, fd |-> NoFd, name |-> "", stamp |-> 0, last_used |-> 0]

Init ==
    /\ file = [p \in Paths |-> [kind |-> "none", stamp |-> 0]]
    /\ stamps = 0
    /\ slots = [i \in Slots |-> EmptySlot]
    /\ openFds = {}
    /\ count = 0
    /\ tick = 0
    /\ want = {}
    /\ dupFails = 0
    /\ ended = FALSE
----------------------------------------------------------------------------
\* Another process replaces, creates or removes what is at a path.
WriteFile(p, kind) ==
    /\ stamps < MaxStamp
    /\ stamps' = stamps + 1
    /\ file' = [file EXCEPT ![p] = [kind |-> kind, stamp |-> stamps + 1]]
    /\ UNCHANGED <<slots, openFds, count, tick, want, dupFails, ended>>

RemoveFile(p) ==
    /\ file[p].kind # "none"
    /\ file' = [file EXCEPT ![p] = [kind |-> "none", stamp |-> 0]]
    /\ UNCHANGED <<stamps, slots, openFds, count, tick, want, dupFails, ended>>
----------------------------------------------------------------------------
Cacheable(p) == MaxSlots > 0 /\ p \notin Blocked

\* The entry a lookup finds: the first valid one of that name.
Matches(p) == {i \in Slots : slots[i].valid /\ slots[i].fd >= 0 /\ slots[i].name = p}

Found(p) == Min(Matches(p))

\* The file as it is now is the one the entry was made for.
Current(p, i) == file[p].kind = "reg" /\ file[p].stamp = slots[i].stamp

\* static_open_cache_lookup, no entry: the caller opens the path itself.
LookupMiss(p) ==
    /\ want = {} /\ ~ended
    /\ ~Cacheable(p) \/ Matches(p) = {}
    /\ want' = {p}
    /\ UNCHANGED <<file, stamps, slots, openFds, count, tick, dupFails, ended>>

\* An entry for the file as it now is: the descriptor just opened goes to the
\* caller and the entry's clock is advanced.
LookupHit(p) ==
    /\ want = {} /\ ~ended
    /\ Cacheable(p)
    /\ Matches(p) # {}
    /\ Current(p, Found(p))
    /\ tick < MaxTick
    /\ tick' = tick + 1
    /\ slots' = [slots EXCEPT ![Found(p)].last_used = tick + 1]
    /\ UNCHANGED <<file, stamps, openFds, count, want, dupFails, ended>>

Decrement(n) == IF n > 0 THEN n - 1 ELSE 0

\* Mutant: the entry is dropped and its descriptor stays open.
LookupStale_leaks(p) ==
    /\ want = {} /\ ~ended
    /\ Cacheable(p)
    /\ Matches(p) # {}
    /\ ~Current(p, Found(p))
    /\ slots' = [slots EXCEPT ![Found(p)] = EmptySlot]
    /\ count' = Decrement(count)
    /\ want' = {p}
    /\ UNCHANGED <<file, stamps, openFds, tick, dupFails, ended>>

\* Mutant: a stale entry is left for the store to replace.
LookupStale_kept(p) ==
    /\ want = {} /\ ~ended
    /\ Cacheable(p)
    /\ Matches(p) # {}
    /\ ~Current(p, Found(p))
    /\ want' = {p}
    /\ UNCHANGED <<file, stamps, slots, openFds, count, tick, dupFails, ended>>

\* An entry for another file, or for none: static_open_cache_invalidate_entry,
\* and the caller goes on as if there had been no entry.
LookupStale(p) ==
    /\ want = {} /\ ~ended
    /\ Cacheable(p)
    /\ Matches(p) # {}
    /\ ~Current(p, Found(p))
    /\ slots' = [slots EXCEPT ![Found(p)] = EmptySlot]
    /\ openFds' = openFds \ {slots[Found(p)].fd}
    /\ count' = Decrement(count)
    /\ want' = {p}
    /\ UNCHANGED <<file, stamps, tick, dupFails, ended>>

\* The slots at which the store's scan stops: the same name, or nothing valid.
StopsAt(p) == {i \in Slots : ~slots[i].valid \/ slots[i].name = p}

\* Mutant: the most recently used entry is replaced.
Victim_newest(p) ==
    IF StopsAt(p) # {}
    THEN Min(StopsAt(p))
    ELSE CHOOSE i \in Slots : \A j \in Slots : slots[j].last_used <= slots[i].last_used

\* The slot static_open_cache_store takes: where the scan stops, otherwise the
\* first of the least recently used.
Victim(p) ==
    IF StopsAt(p) # {}
    THEN Min(StopsAt(p))
    ELSE Min({i \in Slots : \A j \in Slots : slots[i].last_used <= slots[j].last_used})

\* The lowest descriptor that is free, as dup returns it.
FreshFd(used) == Min({n \in 0..MaxSlots : n \notin used})

\* open_static_path after a failed lookup finds nothing to keep: the path
\* cannot be opened, is no regular file or may not be cached.
OpenUncached(p) ==
    /\ want = {p}
    /\ want' = {}
    /\ ~Cacheable(p) \/ file[p].kind # "reg"
    /\ UNCHANGED <<file, stamps, slots, openFds, count, tick, dupFails, ended>>

\* The count once a slot is filled: replacing an entry leaves it.
CountAfterStore(wasValid) ==
    IF ~wasValid /\ count < MaxSlots THEN count + 1 ELSE count

\* open_static_path opens the path and static_open_cache_store keeps a copy of
\* the descriptor.
OpenAndStore(p) ==
    /\ want = {p}
    /\ want' = {}
    /\ Cacheable(p)
    /\ file[p].kind = "reg"
    /\ tick < MaxTick
    /\ tick' = tick + 1
    /\ LET v     == Victim(p)
           freed == openFds \ {slots[v].fd}
           fd    == FreshFd(freed)
       IN  /\ slots' = [slots EXCEPT ![v] =
                          [valid |-> TRUE, fd |-> fd, name |-> NameOf[p],
                           stamp |-> file[p].stamp, last_used |-> tick + 1]]
           /\ openFds' = freed \cup {fd}
           /\ count' = CountAfterStore(slots[v].valid)
    /\ UNCHANGED <<file, stamps, dupFails, ended>>

\* The same, but dup fails once the slot has been emptied: the count stays.
StoreFails(p) ==
    /\ want = {p}
    /\ want' = {}
    /\ Cacheable(p)
    /\ file[p].kind = "reg"
    /\ dupFails < MaxDupFails
    /\ dupFails' = dupFails + 1
    /\ LET v == Victim(p) IN
         IF slots[v].valid
         THEN /\ slots' = [slots EXCEPT ![v] = EmptySlot]
              /\ openFds' = openFds \ {slots[v].fd}
         ELSE UNCHANGED <<slots, openFds>>
    /\ UNCHANGED <<file, stamps, count, tick, ended>>

\* rpsiod_config_close_site_caches, when rpsiod_server_run has returned.
CloseSiteCaches ==
    /\ want = {} /\ ~ended
    /\ ended' = TRUE
    /\ slots' = [i \in Slots |-> [slots[i] EXCEPT !.valid = FALSE, !.fd = NoFd]]
    /\ openFds' = openFds \ {slots[i].fd : i \in Slots}
    /\ count' = 0
    /\ UNCHANGED <<file, stamps, tick, want, dupFails>>
----------------------------------------------------------------------------
Next ==
    \/ \E p \in Paths :
         \/ \E k \in {"reg", "dir"} : WriteFile(p, k)
         \/ RemoveFile(p)
         \/ LookupMiss(p) \/ LookupHit(p) \/ LookupStale(p)
         \/ OpenUncached(p) \/ OpenAndStore(p) \/ StoreFails(p)
    \/ CloseSiteCaches

Spec == Init /\ [][Next]_vars
----------------------------------------------------------------------------
(* Properties. *)

Names == {NameOf[p] : p \in Paths}

SlotRecord == [valid : BOOLEAN, fd : Nat \cup {NoFd}, name : Names \cup {""},
               stamp : 0..MaxStamp, last_used : 0..MaxTick]

\* Type correctness of the cache's state.
TypeOK ==
    /\ file \in [Paths -> [kind : {"none", "reg", "dir"}, stamp : 0..MaxStamp]]
    /\ stamps \in 0..MaxStamp
    /\ slots \in [Slots -> SlotRecord]
    /\ openFds \subseteq Nat
    /\ count \in 0..MaxSlots
    /\ tick \in 0..MaxTick
    /\ want \subseteq Paths
    /\ Cardinality(want) <= 1
    /\ dupFails \in 0..MaxDupFails
    /\ ended \in BOOLEAN

\* The cache owns exactly the descriptors its valid entries hold, each once:
\* whatever is evicted, invalidated, changed on disk or fails, none leaks and
\* none is closed twice, and none is left once the caches are closed.  As long as no
\* dup has failed, open_file_cache_count is their number.
DescriptorsOwned ==
    /\ \A i \in Slots : slots[i].valid <=> slots[i].fd # NoFd
    /\ \A i, j \in Slots : i # j /\ slots[i].valid /\ slots[j].valid =>
           slots[i].fd # slots[j].fd
    /\ openFds = {slots[i].fd : i \in {j \in Slots : slots[j].valid}}
    /\ ended => openFds = {}
    /\ dupFails = 0 => count = Cardinality({i \in Slots : slots[i].valid})

\* A path that is stored uncut and that no longer path is cut to.
Exact(p) == \A q \in Paths : NameOf[q] = p => q = p

\* Such a path has at most one entry, although the store stops its scan at the
\* first free slot: the lookup before it has already dropped any other entry.
OneEntryPerPath ==
    \A p \in Paths : Exact(p) =>
        \A i, j \in Slots :
            (slots[i].valid /\ slots[j].valid /\ slots[i].name = p /\ slots[j].name = p) => i = j

\* Whether slot i loses a valid entry to an entry of another name.
Evicts(i) ==
    /\ slots[i].valid
    /\ slots'[i].valid
    /\ slots'[i].name # slots[i].name

\* An entry is given up for another name only when the table is full, and then
\* it is one that no other entry was used before.
EvictsLeastRecent ==
    [][\A i \in Slots : Evicts(i) =>
         \A j \in Slots : slots[j].valid /\ slots[i].last_used <= slots[j].last_used]_vars
=============================================================================
