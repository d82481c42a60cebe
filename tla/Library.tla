------------------------------- MODULE Library -------------------------------
(***************************************************************************)
(* The library pages (internal/api/library.go): scans of the *arr, the     *)
(* cache that answers in their place for a while, and the tags users put   *)
(* on items, which are written to the *arr first and into the cache after. *)
(* Requests run side by side; each cache access is a step under its mutex. *)
(*                                                                         *)
(* One kind of *arr, one instance and one tag that is mapped to a profile; *)
(* of an item only whether it has the tag is kept.                         *)
(***************************************************************************)
EXTENDS Integers

CONSTANTS
    Key,       \* cache keys: the flat scan of a kind, and the deep one
    Item,      \* the items of the library
    Scanner,   \* requests for the library that run at the same time
    Tagger,    \* requests that add the tag
    TTL,       \* libraryCacheTTL
    NoItem,
    NoEntry,
    MaxTime    \* bound: how long the clock runs

VARIABLES
    now,       \* the clock
    tagged,    \* the items with the tag at the *arr
    since,     \* since[i]: when item i got it, 0 if it has not
    cache,     \* cache[k]: the scan under key k, or NoEntry
    scan,      \* scan[r]: the scan of request r, or NoEntry
    phase,     \* phase[r]: where request r is
    target     \* target[r]: the item a tagger has tagged at the *arr and not in the cache, or NoItem

scanVars == <<scan, phase>>
vars == <<now, tagged, since, cache, scanVars, target>>

\* A scan of the library: ScannedAt, the items shown with the tag, and whether
\* the *arr answered.
Scan == [key : Key, at : 0..MaxTime, items : SUBSET Item, ok : BOOLEAN]

TypeOK ==
    /\ now \in 0..MaxTime
    /\ tagged \subseteq Item /\ since \in [Item -> 0..MaxTime]
    /\ cache \in [Key -> Scan \cup {NoEntry}]
    /\ phase \in [Scanner -> {"idle", "fetch", "put"}]
    /\ scan \in [Scanner -> Scan \cup {NoEntry}]
    /\ target \in [Tagger -> Item \cup {NoItem}]

Init ==
    /\ now = 0 /\ tagged = {} /\ since = [i \in Item |-> 0]
    /\ cache = [k \in Key |-> NoEntry]
    /\ phase = [r \in Scanner |-> "idle"] /\ scan = [r \in Scanner |-> NoEntry]
    /\ target = [r \in Tagger |-> NoItem]

-----------------------------------------------------------------------------
(* libraryScan *)

\* libraryCache.get finds an entry that is not too old.
Hit(k) == cache[k] # NoEntry /\ now - cache[k].at <= TTL

\* The instances and mappings are read, and the time is taken, before the *arr
\* is asked; with refresh=true the cache is passed over.
StartScan(r, k) ==
    /\ phase[r] = "idle"
    /\ \E refresh \in BOOLEAN : refresh \/ ~Hit(k)
    /\ phase' = [phase EXCEPT ![r] = "fetch"]
    /\ scan' = [scan EXCEPT ![r] = [key |-> k, at |-> now, items |-> {}, ok |-> FALSE]]
    /\ UNCHANGED <<now, tagged, since, cache, target>>

\* The *arr lists its items with their tags, or an error is noted for it.
Fetch(r) ==
    /\ phase[r] = "fetch"
    /\ phase' = [phase EXCEPT ![r] = "put"]
    /\ \/ scan' = [scan EXCEPT ![r].items = tagged, ![r].ok = TRUE]
       \/ UNCHANGED scan
    /\ UNCHANGED <<now, tagged, since, cache, target>>

\* Mutant: the scan is dated when it ends.
WhenPut(r) == [scan[r] EXCEPT !.at = now]

AsScanned(r) == scan[r]

\* libraryCache.put: over whatever is there, be it newer.
Put(r) ==
    /\ phase[r] = "put"
    /\ phase' = [phase EXCEPT ![r] = "idle"]
    /\ cache' = [cache EXCEPT ![scan[r].key] = AsScanned(r)]
    /\ scan' = [scan EXCEPT ![r] = NoEntry]
    /\ UNCHANGED <<now, tagged, since, target>>

-----------------------------------------------------------------------------
(* libraryAddTag *)

\* The *arr has the tag from now on.
AddTag(r, i) ==
    /\ target[r] = NoItem
    /\ target' = [target EXCEPT ![r] = i]
    /\ tagged' = tagged \cup {i}
    /\ since' = IF i \in tagged THEN since ELSE [since EXCEPT ![i] = now]
    /\ UNCHANGED <<now, cache, scanVars>>

\* markTagged: every entry of the kind shows the item with its tag, if it lists it.
MarkTagged(r) ==
    /\ target[r] # NoItem
    /\ cache' = [k \in Key |->
                   IF cache[k] # NoEntry /\ cache[k].ok
                   THEN [cache[k] EXCEPT !.items = @ \cup {target[r]}]
                   ELSE cache[k]]
    /\ target' = [target EXCEPT ![r] = NoItem]
    /\ UNCHANGED <<now, tagged, since, scanVars>>

\* The *arr has stored the tag and its answer is lost: the cache is not told.
LoseAnswer(r) ==
    /\ target[r] # NoItem
    /\ target' = [target EXCEPT ![r] = NoItem]
    /\ UNCHANGED <<now, tagged, since, cache, scanVars>>

-----------------------------------------------------------------------------
(* The *arr and the clock *)

\* A user of the *arr takes the tag off an item.
RemoveTag(i) ==
    /\ i \in tagged
    /\ tagged' = tagged \ {i}
    /\ since' = [since EXCEPT ![i] = 0]
    /\ UNCHANGED <<now, cache, scanVars, target>>

Tick ==
    /\ now < MaxTime
    /\ now' = now + 1
    /\ UNCHANGED <<tagged, since, cache, scanVars, target>>

Restart ==
    /\ cache' = [k \in Key |-> NoEntry]
    /\ phase' = [r \in Scanner |-> "idle"] /\ scan' = [r \in Scanner |-> NoEntry]
    /\ target' = [r \in Tagger |-> NoItem]
    /\ UNCHANGED <<now, tagged, since>>

Next ==
    \/ \E r \in Scanner : (\E k \in Key : StartScan(r, k)) \/ Fetch(r) \/ Put(r)
    \/ \E r \in Tagger : (\E i \in Item : AddTag(r, i)) \/ MarkTagged(r) \/ LoseAnswer(r)
    \/ \E i \in Item : RemoveTag(i)
    \/ Tick \/ Restart

Spec == Init /\ [][Next]_vars

-----------------------------------------------------------------------------
(* Properties *)

\* Scans overtake each other and the tags that are written meanwhile, and an
\* older one may replace a newer one; even so an answer from the cache shows
\* every tag that was put on its item longer than TTL ago and has stayed
\* (libraryCache.get, put, markTagged).
AnswerIsRecent ==
    \A k \in Key : (Hit(k) /\ cache[k].ok) =>
        \A i \in tagged : now - since[i] > TTL => i \in cache[k].items

=============================================================================
