----------------------------- MODULE InputCache -----------------------------
(***************************************************************************)
(* The bounded input cache (rollout_manager/input_cache.py), the harness   *)
(* children that acquire inputs from it (adapters/input_reuse.py) and the  *)
(* parent that registers and retires each child (adapters/harnesses.py).   *)
(*                                                                         *)
(* Every request is served by a thread of its own under one lock; acquire  *)
(* gives the lock up while the key it wants is being generated.  A child   *)
(* can be killed at any moment, so requests and replies of a dead child    *)
(* are still in flight, and a child that was killed may linger with its    *)
(* mappings: mapped[c] is what the process really maps.                    *)
(***************************************************************************)
EXTENDS Naturals, Sequences, FiniteSets

CONSTANTS
    Consumers,    \* tokens, one for each child process
    Keys,         \* cache identities
    Reserve,      \* key -> bytes its generator may need
    Capacity,     \* tier -> bytes
    MaxEntries,
    CopyLimit,    \* consumer_copy_limit_bytes
    MaxLeases     \* bound on the leases handed out

ASSUME CacheAssumption ==
    /\ IsFiniteSet(Keys)
    /\ Reserve \in [Keys -> Nat] /\ Capacity \in [{"ram", "disk"} -> Nat]
    /\ MaxEntries \in Nat \ {0} /\ CopyLimit \in Nat /\ MaxLeases \in Nat

VARIABLES
    entries,   \* the OrderedDict: key -> entry ...
    order,     \* ... and its keys, least recently used first
    cacheLeases, \* registered consumer -> its leases; DOMAIN cacheLeases = consumers
    issued,    \* number of leases handed out
    call,      \* consumer -> the request its handler thread has
    child,     \* consumer -> state of the process
    making,    \* consumer -> key it generates
    mapped     \* consumer -> leases whose storage the process maps

cacheVars == <<entries, order, cacheLeases, issued, call, child, making, mapped>>

NoKey == "none"
NoCall == [op |-> "none"]

CacheInit ==
    /\ entries = <<>> /\ order = <<>> /\ cacheLeases = <<>> /\ issued = 0
    /\ call = [c \in Consumers |-> NoCall]
    /\ child = [c \in Consumers |-> "new"]
    /\ making = [c \in Consumers |-> NoKey]
    /\ mapped = [c \in Consumers |-> {}]

-----------------------------------------------------------------------------
Present(k) == k \in DOMAIN entries
Without(es, ks) == [k \in DOMAIN es \ ks |-> es[k]]

\* Bytes are counted one by one: bytes of the entries of a tier.
Storage(es, tier) == UNION {{k} \X (1..es[k].bytes) : k \in {x \in DOMAIN es : es[x].tier = tier}}
UsedBy(es, tier) == Cardinality(Storage(es, tier))

Fits(es, tier, size) ==
    UsedBy(es, tier) + size <= Capacity[tier] /\ Cardinality(DOMAIN es) < MaxEntries

Evictable(e, tier) == e.tier = tier /\ e.state = "ready" /\ e.leases = {}

\* Of the n oldest keys, those whose entries can go.
Oldest(es, tier, n) == {k \in {order[i] : i \in 1..n} \cap DOMAIN es : Evictable(es[k], tier)}

\* _space: evicts ready, unleased entries of the tier, oldest first, until the
\* reservation fits; what it evicted stays evicted when it does not.
Space(es, tier, size) ==
    LET after(n) == Without(es, Oldest(es, tier, n))
        enough(n) == n = Len(order) \/ Fits(after(n), tier, size)
    IN  IF size > Capacity[tier] THEN es
        ELSE after(CHOOSE n \in 0..Len(order) : enough(n) /\ \A m \in 0..n : enough(m) => m = n)

\* The order of the keys that are left.
Ordered(es) == SelectSeq(order, LAMBDA k : k \in DOMAIN es)

\* Bytes the leases of a consumer stand for: its private copies.
Copies(c) == UNION {{l} \X (1..entries[l.key].bytes) : l \in cacheLeases[c]}
Private(c) == Cardinality(Copies(c))

Free(c) == call' = [call EXCEPT ![c] = NoCall]
Replied(c, state) ==      \* a dead child reads no reply
    child' = [child EXCEPT ![c] = IF @ = "calling" THEN state ELSE @]
Alive(c) == child[c] = "calling"
-----------------------------------------------------------------------------
(* The child: one thread, one request at a time (InputReuse.get_inputs).    *)

\* HarnessRunner.evaluate registers the consumer and launches the child.
Begin(c) ==
    /\ child[c] = "new"
    /\ cacheLeases' = [d \in DOMAIN cacheLeases \cup {c} |-> IF d = c THEN {} ELSE cacheLeases[d]]
    /\ child' = [child EXCEPT ![c] = "idle"]
    /\ UNCHANGED <<entries, order, issued, call, making, mapped>>

Sends(c, request) ==
    /\ child' = [child EXCEPT ![c] = "calling"]
    /\ call' = [call EXCEPT ![c] = request]

Asks(c, k) ==
    /\ child[c] = "idle"
    /\ Sends(c, [op |-> "acquire", key |-> k])
    /\ UNCHANGED <<entries, order, cacheLeases, issued, making, mapped>>

\* The storage is written; the child publishes it with its real size.
Publishes(c, k, size) ==
    /\ child[c] = "making" /\ making[c] = k
    /\ Sends(c, [op |-> "publish", key |-> k, size |-> size])
    /\ UNCHANGED <<entries, order, cacheLeases, issued, making, mapped>>

\* The generator or the publication failed: abort, and the child will exit.
Aborts(c) ==
    /\ child[c] = "making"
    /\ Sends(c, [op |-> "abort", key |-> making[c]])
    /\ UNCHANGED <<entries, order, cacheLeases, issued, making, mapped>>

\* The finalizer of a mapping: nothing can read it any more, and the lease is released.
\* At interpreter exit it runs just before the unmapping instead of just after it.
Unmaps(c, l) ==
    /\ child[c] = "idle" /\ l \in mapped[c]
    /\ mapped' = [mapped EXCEPT ![c] = @ \ {l}]
    /\ Sends(c, [op |-> "release", lease |-> l])
    /\ UNCHANGED <<entries, order, cacheLeases, issued, making>>

\* The child exits, or run_process kills it: its request may still be served.
Killed(c) ==
    /\ child[c] \in {"idle", "calling", "making"}
    /\ child' = [child EXCEPT ![c] = "killed"]
    /\ making' = [making EXCEPT ![c] = NoKey]
    /\ UNCHANGED <<entries, order, cacheLeases, issued, call, mapped>>

\* The process group and its GPU contexts are really gone.  External.
Gone(c) ==
    /\ child[c] = "killed"
    /\ child' = [child EXCEPT ![c] = "gone"]
    /\ mapped' = [mapped EXCEPT ![c] = {}]
    /\ UNCHANGED <<entries, order, cacheLeases, issued, call, making>>
-----------------------------------------------------------------------------
(* The cache: one action for each critical section of a handler thread.    *)

Registered(c) == c \in DOMAIN cacheLeases

\* dispatch refuses a retired consumer; so does acquire when it wakes up.
Refuses(c) ==
    /\ call[c] # NoCall /\ ~Registered(c)
    /\ Free(c) /\ Replied(c, "killed")     \* the child raises and exits
    /\ UNCHANGED <<entries, order, cacheLeases, issued, making, mapped>>

Wanted(c) == call[c].op = "acquire" /\ Registered(c)

\* While the key is being generated the thread waits; after 240 seconds it
\* answers "bypass" and the child generates for itself.
WaitTimesOut(c) ==
    /\ call[c].op = "acquire" /\ Wanted(c)
    /\ Present(call[c].key) /\ entries[call[c].key].state = "generating"
    /\ Free(c) /\ Replied(c, "idle")
    /\ UNCHANGED <<entries, order, cacheLeases, issued, making, mapped>>

WithinBudget(c, bytes) == Private(c) + bytes <= CopyLimit

Hit(c) ==
    /\ call[c].op = "acquire" /\ Wanted(c) /\ issued < MaxLeases
    /\ Present(call[c].key) /\ entries[call[c].key].state = "ready"
    /\ LET k == call[c].key
           l == [id |-> issued + 1, key |-> k]
       IN /\ WithinBudget(c, entries[k].bytes)
          /\ cacheLeases' = [cacheLeases EXCEPT ![c] = @ \cup {l}]
          /\ entries' = [entries EXCEPT ![k].leases = @ \cup {l.id}]
          /\ order' = Append(SelectSeq(order, LAMBDA x : x # k), k)
          /\ mapped' = [mapped EXCEPT ![c] = IF Alive(c) THEN @ \cup {l} ELSE @]
          /\ issued' = issued + 1
    /\ Free(c) /\ Replied(c, "idle")
    /\ UNCHANGED making

OverBudget(c) ==
    /\ call[c].op = "acquire" /\ Wanted(c)
    /\ Present(call[c].key) /\ entries[call[c].key].state = "ready"
    /\ ~WithinBudget(c, entries[call[c].key].bytes)
    /\ Free(c) /\ Replied(c, "idle")
    /\ UNCHANGED <<entries, order, cacheLeases, issued, making, mapped>>

\* What is left after the search for room: of RAM first, and of the disk only
\* when the reservation does not fit RAM.
AfterRam(size) == IF Capacity["ram"] > 0 THEN Space(entries, "ram", size) ELSE entries
AfterDisk(size) ==
    IF Capacity["disk"] > 0 THEN Space(AfterRam(size), "disk", size) ELSE AfterRam(size)

\* The storage is created and reserved in full, and the child generates it.
Make(c, k, es, tier) ==
    /\ entries' = [x \in DOMAIN es \cup {k} |->
                     IF x = k THEN [bytes |-> Reserve[k], tier |-> tier, state |-> "generating",
                                    producer |-> c, leases |-> {}]
                     ELSE es[x]]
    /\ order' = Append(Ordered(es), k)
    /\ making' = [making EXCEPT ![c] = IF Alive(c) THEN k ELSE @]
    /\ Replied(c, "making")

\* No room ("capacity_or_pinned_entries"), or the storage could not be created
\* and the child raises; what was evicted is gone.
NotMade(c, es, state) ==
    /\ entries' = es /\ order' = Ordered(es)
    /\ Replied(c, state) /\ UNCHANGED making

\* The first tier with capacity where the reservation fits, after evictions.
Miss(c) ==
    /\ call[c].op = "acquire" /\ Wanted(c)
    /\ ~Present(call[c].key)
    /\ LET k == call[c].key
           ram == AfterRam(Reserve[k])
           disk == AfterDisk(Reserve[k])
       IN \/ /\ Capacity["ram"] > 0 /\ Fits(ram, "ram", Reserve[k])
             /\ Make(c, k, ram, "ram") \/ NotMade(c, ram, "killed")
          \/ /\ ~(Capacity["ram"] > 0 /\ Fits(ram, "ram", Reserve[k]))
             /\ Capacity["disk"] > 0 /\ Fits(disk, "disk", Reserve[k])
             /\ Make(c, k, disk, "disk") \/ NotMade(c, disk, "killed")
          \/ /\ ~(Capacity["ram"] > 0 /\ Fits(ram, "ram", Reserve[k]))
             /\ ~(Capacity["disk"] > 0 /\ Fits(disk, "disk", Reserve[k]))
             /\ NotMade(c, disk, "idle")
    /\ Free(c)
    /\ UNCHANGED <<cacheLeases, issued, mapped>>

Owned(c, k) ==
    Present(k) /\ entries[k].state = "generating" /\ entries[k].producer = c

\* publish: the entry shrinks to its real size, is sealed and becomes ready;
\* refused, or when the storage cannot be sealed, it leads to an abort.
PublishEntry(c) ==
    /\ call[c].op = "publish" /\ Registered(c)
    /\ \/ /\ Owned(c, call[c].key) /\ call[c].size <= entries[call[c].key].bytes
          /\ entries' = [entries EXCEPT ![call[c].key] =
                           [@ EXCEPT !.state = "ready", !.bytes = call[c].size]]
          /\ making' = [making EXCEPT ![c] = NoKey]
          /\ Replied(c, "idle")
       \/ Replied(c, "making") /\ UNCHANGED <<entries, making>>
    /\ Free(c)
    /\ UNCHANGED <<order, cacheLeases, issued, mapped>>

Abort(c) ==
    /\ call[c].op = "abort" /\ Registered(c)
    /\ entries' = Without(entries, {k \in {call[c].key} : Owned(c, k)})
    /\ order' = Ordered(entries')
    /\ Free(c) /\ Replied(c, "killed")
    /\ making' = [making EXCEPT ![c] = NoKey]
    /\ UNCHANGED <<cacheLeases, issued, mapped>>

\* The entries after leases of a consumer were given up.
Released(ls) ==
    [k \in DOMAIN entries |-> [entries[k] EXCEPT !.leases = @ \ {l.id : l \in ls}]]

Release(c) ==
    /\ call[c].op = "release" /\ Registered(c)
    /\ cacheLeases' = [cacheLeases EXCEPT ![c] = @ \ {call[c].lease}]
    /\ entries' = Released(cacheLeases[c] \cap {call[c].lease})
    /\ Free(c) /\ Replied(c, "idle")
    /\ UNCHANGED <<order, issued, making, mapped>>

\* Mutant of MayEnd: the parent retires a consumer it only killed.
MayEndKilled(c) == child[c] \in {"killed", "gone"}

\* The parent retires a consumer once the process group is seen to have
\* stopped and its GPU contexts to be released, and not otherwise.
MayEnd(c) == child[c] = "gone"

\* Keys the consumer was generating.
Orphans(c) == {k \in Keys : Owned(c, k)}

End(c) ==
    /\ MayEnd(c) /\ Registered(c)
    /\ entries' = Without(Released(cacheLeases[c]), Orphans(c))
    /\ order' = Ordered(entries')
    /\ cacheLeases' = [d \in DOMAIN cacheLeases \ {c} |-> cacheLeases[d]]
    /\ UNCHANGED <<issued, call, child, making, mapped>>

\* clear(): only between runs.
Clear ==
    /\ DOMAIN cacheLeases = {} /\ order # <<>>
    /\ entries' = <<>> /\ order' = <<>>
    /\ UNCHANGED <<cacheLeases, issued, call, child, making, mapped>>
-----------------------------------------------------------------------------
CacheNext ==
    \/ \E c \in Consumers :
         \/ Begin(c) \/ Aborts(c) \/ Killed(c) \/ Gone(c)
         \/ \E k \in Keys : Asks(c, k)
         \/ \E k \in Keys : \E size \in 0..Reserve[k] : Publishes(c, k, size)
         \/ \E l \in mapped[c] : Unmaps(c, l)
         \/ Refuses(c) \/ WaitTimesOut(c) \/ Hit(c) \/ OverBudget(c) \/ Miss(c)
         \/ PublishEntry(c) \/ Abort(c) \/ Release(c) \/ End(c)
    \/ Clear

CacheSpec == CacheInit /\ [][CacheNext]_cacheVars
-----------------------------------------------------------------------------
\* Whatever a process still maps, killed or not, is a ready entry on which its
\* consumer holds a lease: "A disconnected child cannot silently free credits"
\* (input_cache.py:4), and no eviction takes storage in use.
MappingsLeased ==
    \A c \in Consumers : \A l \in mapped[c] :
        /\ Registered(c) /\ l \in cacheLeases[c]
        /\ Present(l.key)
        /\ l.id \in entries[l.key].leases /\ entries[l.key].state = "ready"

\* The storage of each tier, the number of entries and the private copies of
\* each consumer stay within their limits, and a key is being generated only
\* for a consumer that is registered, so that its retirement frees the key.
CacheBounded ==
    /\ \A tier \in {"ram", "disk"} : UsedBy(entries, tier) <= Capacity[tier]
    /\ Cardinality(DOMAIN entries) <= MaxEntries
    /\ \A c \in DOMAIN cacheLeases : Private(c) <= CopyLimit
    /\ \A k \in DOMAIN entries :
         entries[k].state = "generating" => Registered(entries[k].producer)

\* The cache frees no storage in use and keeps none it must free.
StorageSafe == MappingsLeased /\ CacheBounded
=============================================================================
