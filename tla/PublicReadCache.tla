--------------------------- MODULE PublicReadCache ---------------------------
(***************************************************************************)
(* The in-process cache in front of the public reads of the storefront     *)
(* (src/common/cache): getOrLoad shares one load among concurrent misses,  *)
(* store keeps the cache within its bounds, and clear, called by every     *)
(* writer once its transaction has committed, drops entries and in-flight  *)
(* loads.  Values are told apart by the version of the database they show. *)
(*                                                                         *)
(* JavaScript runs one callback at a time, so a step is what happens       *)
(* between two awaits.                                                     *)
(***************************************************************************)
EXTENDS Integers, SequencesExt

CONSTANTS
  Keys,         \* cache keys
  Loads,        \* bound: loads that can be running at once
  Requests,     \* requests of the storefront
  ByteSizes,    \* sizes a value may serialize to, overhead included
  MaxEntries,   \* MAX_ENTRIES
  MaxTotal,     \* MAX_TOTAL_BYTES
  MaxEntry,     \* MAX_ENTRY_BYTES
  MaxWrites,    \* bound: transactions that ever commit
  Nothing       \* no load, no value

Version == 0 .. MaxWrites
Entry == [key : Keys, version : Version, bytes : Nat, expired : BOOLEAN]
Load ==
  [key : Keys, generation : Version, at : {"started", "failed"}]
  \cup [key : Keys, generation : Version, at : {"loaded", "stored"}, version : Version]

ASSUME CacheAssumption ==
  /\ ByteSizes \subseteq Nat
  /\ MaxEntries \in Nat \ {0}
  /\ MaxTotal \in Nat
  /\ MaxEntry \in 0 .. MaxTotal
  /\ MaxWrites \in Nat
  /\ Nothing \notin Loads \cup Load

VARIABLES
  db,           \* version of the data: how many writes have committed
  clearing,     \* writers that have committed and not called clear() yet
  cleared,      \* db when clear() was last called (history)
  entries,      \* the Map of cached values, oldest first
  totalBytes,   \* totalBytes
  inFlight,     \* the load a miss for the key would join
  generation,
  load,         \* the promises of loader calls that are not settled
  reply         \* what each request is waiting for, or was answered

entryVars == <<entries, totalBytes>>
dbVars == <<db, clearing, cleared>>
cacheVars == <<db, clearing, cleared, entries, totalBytes, inFlight, generation, load, reply>>

Unasked == [at |-> "idle"]
Reply ==
  {Unasked}
  \cup [at : {"waiting"}, load : Loads, floor : Version]
  \cup [at : {"answered"}, version : Version, floor : Version]

\* (WithinBounds says what total is.)
CacheTypeOK ==
  /\ db \in Version /\ clearing \in Version /\ cleared \in Version
  /\ entries \in Seq(Entry)
  /\ inFlight \in [Keys -> Loads \cup {Nothing}]
  /\ generation \in Version
  /\ load \in [Loads -> Load \cup {Nothing}]
  /\ reply \in [Requests -> Reply]

CacheInit ==
  /\ db = 0 /\ clearing = 0 /\ cleared = 0
  /\ entries = <<>>
  /\ totalBytes = 0
  /\ inFlight = [k \in Keys |-> Nothing]
  /\ generation = 0
  /\ load = [l \in Loads |-> Nothing]
  /\ reply = [r \in Requests |-> Unasked]

-----------------------------------------------------------------------------
Bytes(es) == SumFunction([i \in DOMAIN es |-> es[i].bytes])

\* remove(key): the entries and the running total without it.
HasEntry(k) == \E i \in DOMAIN entries : entries[i].key = k
Index(k) == CHOOSE i \in DOMAIN entries : entries[i].key = k
Removed(k) == IF HasEntry(k) THEN RemoveAt(entries, Index(k)) ELSE entries
RemovedTotal(k) == IF HasEntry(k) THEN totalBytes - entries[Index(k)].bytes ELSE totalBytes

\* A value that a request may be answered with at once.
Fresh(k) == \E i \in DOMAIN entries : entries[i].key = k /\ ~entries[i].expired
AnswerWith(v) == [at |-> "answered", version |-> v, floor |-> cleared]
Await(l) == [at |-> "waiting", load |-> l, floor |-> cleared]

AskHit(r, k) ==
  /\ reply[r].at # "waiting"
  /\ Fresh(k)
  /\ reply' = [reply EXCEPT ![r] = AnswerWith(entries[Index(k)].version)]
  /\ UNCHANGED <<dbVars, entryVars, inFlight, generation, load>>

\* A miss joins the load that is in flight for the key ...
AskJoin(r, k) ==
  /\ reply[r].at # "waiting"
  /\ ~Fresh(k)
  /\ entries' = Removed(k)
  /\ totalBytes' = RemovedTotal(k)
  /\ inFlight[k] # Nothing
  /\ reply' = [reply EXCEPT ![r] = Await(inFlight[k])]
  /\ UNCHANGED <<dbVars, inFlight, generation, load>>

\* ... or starts one.
AskLoad(r, k, l) ==
  /\ reply[r].at # "waiting"
  /\ ~Fresh(k)
  /\ entries' = Removed(k)
  /\ totalBytes' = RemovedTotal(k)
  /\ inFlight[k] = Nothing
  /\ load[l] = Nothing
  /\ load' = [load EXCEPT ![l] =
                [key |-> k, generation |-> generation, at |-> "started"]]
  /\ inFlight' = [inFlight EXCEPT ![k] = l]
  /\ reply' = [reply EXCEPT ![r] = Await(l)]
  /\ UNCHANGED <<dbVars, generation>>

\* The loader's query sees the database as it is now, or throws.
Query(l) ==
  /\ load[l] # Nothing /\ load[l].at = "started"
  /\ load' = [load EXCEPT ![l] = [key |-> @.key, generation |-> @.generation,
                                  at |-> "loaded", version |-> db]]
  /\ UNCHANGED <<dbVars, entryVars, inFlight, generation, reply>>

Throw(l) ==
  /\ load[l] # Nothing /\ load[l].at = "started"
  /\ load' = [load EXCEPT ![l] = [@ EXCEPT !.at = "failed"]]
  /\ UNCHANGED <<dbVars, entryVars, inFlight, generation, reply>>

-----------------------------------------------------------------------------
\* Fault variant: one entry more than allowed stays.
Room_OffByOne(es, sum, bytes) ==
  Len(es) <= MaxEntries /\ sum + bytes <= MaxTotal

\* There is room for another entry of that size.
Room(es, sum, bytes) == Len(es) < MaxEntries /\ sum + bytes <= MaxTotal

\* store(): entries leave, oldest first, until there is room or none is left;
\* n of them have to.
Drop(es, n) == SubSeq(es, n + 1, Len(es))
DropTotal(es, sum, n) == sum - Bytes(SubSeq(es, 1, n))
Evicts(es, sum, bytes, n) ==
  LET roomy(m) == Room(Drop(es, m), DropTotal(es, sum, m), bytes)
  IN /\ n = Len(es) \/ roomy(n)
     /\ \A m \in 0 .. n - 1 : ~roomy(m)

Put(k, v, bytes) ==
  \E n \in 0 .. Len(Removed(k)) :
    /\ Evicts(Removed(k), RemovedTotal(k), bytes, n)
    /\ entries' = Append(Drop(Removed(k), n),
                         [key |-> k, version |-> v, bytes |-> bytes, expired |-> FALSE])
    /\ totalBytes' = DropTotal(Removed(k), RemovedTotal(k), n) + bytes

\* Fault variant: whatever was loaded is stored.
Storable_AnyGeneration(l, bytes) == bytes <= MaxEntry

\* A value is not stored if clear() was called since its load started, or if it
\* is too large (or cannot be serialized).
Storable(l, bytes) == load[l].generation = generation /\ bytes <= MaxEntry

Store(l, bytes) ==
  /\ load[l] # Nothing /\ load[l].at = "loaded"
  /\ load' = [load EXCEPT ![l] = [@ EXCEPT !.at = "stored"]]
  /\ \/ /\ Storable(l, bytes)
        /\ Put(load[l].key, load[l].version, bytes)
     \/ /\ ~Storable(l, bytes)
        /\ UNCHANGED entryVars
  /\ UNCHANGED <<dbVars, inFlight, generation, reply>>

\* The load's finally(): only its own registration is dropped.
LeftInFlight(l) == [inFlight EXCEPT ![load[l].key] = IF @ = l THEN Nothing ELSE @]

\* Fault variant: a load that failed is never settled.
Settle_OnlySuccess(l) ==
  /\ load[l] # Nothing /\ load[l].at = "stored"
  /\ inFlight' = LeftInFlight(l)
  /\ reply' = [r \in Requests |->
               IF reply[r].at = "waiting" /\ reply[r].load = l
               THEN [at |-> "answered", version |-> load[l].version, floor |-> reply[r].floor]
               ELSE reply[r]]
  /\ load' = [load EXCEPT ![l] = Nothing]
  /\ UNCHANGED <<dbVars, entryVars, generation>>

\* Everyone who awaits the load is answered, with its value or its error.
Settle(l) ==
  /\ load[l] # Nothing /\ load[l].at \in {"stored", "failed"}
  /\ inFlight' = LeftInFlight(l)
  /\ reply' = [r \in Requests |->
               IF reply[r].at = "waiting" /\ reply[r].load = l
               THEN IF load[l].at = "failed" THEN Unasked
                    ELSE [at |-> "answered", version |-> load[l].version,
                          floor |-> reply[r].floor]
               ELSE reply[r]]
  /\ load' = [load EXCEPT ![l] = Nothing]
  /\ UNCHANGED <<dbVars, entryVars, generation>>

\* The time to live of an entry runs out.
Expire(k) ==
  /\ Fresh(k)
  /\ entries' = [entries EXCEPT ![Index(k)].expired = TRUE]
  /\ UNCHANGED <<dbVars, totalBytes, inFlight, generation, load, reply>>

-----------------------------------------------------------------------------
\* A writer commits, and calls clear() afterwards.
Commit ==
  /\ db < MaxWrites
  /\ db' = db + 1
  /\ clearing' = clearing + 1
  /\ UNCHANGED <<cleared, entryVars, inFlight, generation, load, reply>>

\* Fault variant: a load in flight may still be joined.
Clear_KeepsInFlight ==
  /\ clearing > 0
  /\ clearing' = clearing - 1
  /\ cleared' = db
  /\ entries' = <<>>
  /\ totalBytes' = 0
  /\ generation' = generation + 1
  /\ UNCHANGED <<db, inFlight, load, reply>>

Clear ==
  /\ clearing > 0
  /\ clearing' = clearing - 1
  /\ cleared' = db
  /\ entries' = <<>>
  /\ totalBytes' = 0
  /\ inFlight' = [k \in Keys |-> Nothing]
  /\ generation' = generation + 1
  /\ UNCHANGED <<db, load, reply>>

LoadStep(l) == Query(l) \/ Throw(l) \/ Settle(l) \/ \E b \in ByteSizes : Store(l, b)

CacheNext ==
  \/ \E r \in Requests, k \in Keys :
       AskHit(r, k) \/ AskJoin(r, k) \/ \E l \in Loads : AskLoad(r, k, l)
  \/ \E l \in Loads : LoadStep(l)
  \/ \E k \in Keys : Expire(k)
  \/ Commit
  \/ Clear

\* The database answers every query or fails it, and the event loop runs every
\* callback that is due; nobody has to ask, to write or to clear.
CacheSpec == CacheInit /\ [][CacheNext]_cacheVars /\ \A l \in Loads : WF_cacheVars(LoadStep(l))

-----------------------------------------------------------------------------
\* "a query that started before a write can't put its pre-write result back in
\* afterwards": once clear() has been called, no entry shows an earlier version.
NothingStale == \A i \in DOMAIN entries : entries[i].version >= cleared

\* Whoever asks after a clear() never sees data from before it, not even by
\* joining a load that was already running.
AnswersAreFresh ==
  \A r \in Requests : reply[r].at = "answered" => reply[r].version >= reply[r].floor

\* "Concurrent misses for the same key share one loader call": since the last
\* clear() no two loads of one key run at once, and the one that runs is the one
\* a miss would join.
Current(l) == load[l] # Nothing /\ load[l].generation = generation
OneLoadPerKey ==
  /\ \A l \in Loads : Current(l) => inFlight[load[l].key] = l
  /\ \A k \in Keys :
       inFlight[k] # Nothing => Current(inFlight[k]) /\ load[inFlight[k]].key = k

\* The cache keeps to its bounds, and the running total, which eviction relies
\* on, is what the entries add up to.
WithinBounds ==
  /\ Len(entries) <= MaxEntries
  /\ totalBytes = Bytes(entries) /\ totalBytes <= MaxTotal
  /\ \A i, j \in DOMAIN entries : entries[i].key = entries[j].key => i = j

\* Every request is answered in the end, or gets the error of its load.
EveryoneIsAnswered ==
  \A r \in Requests : reply[r].at = "waiting" ~> reply[r].at # "waiting"
=============================================================================
