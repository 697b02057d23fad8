----------------------------- MODULE TierScript -----------------------------
(***************************************************************************)
(* Scripts that use the library without a cache manager: a request is cut, *)
(* some of its chunks are put into memory tiers by MemoryTier.store, and a *)
(* scheduler looks its chunks up there (basic_simulation.py,               *)
(* choose_recompute_vs_load.py, cake_bidirectional_schedule.py; two        *)
(* requests that share a cache id, as in global_cache_reuse.py).  These    *)
(* call chunk_request; the other functions are exported for such use.      *)
(***************************************************************************)
EXTENDS RequestCutters, Scheduler

CONSTANTS
  CutterSets,   \* functions that one script may use: "fixed", "split", "sized"
  SizeLists,    \* the lists of sizes that "sized" is called with
  MaxStores     \* bound on the number of stores

ASSUME SizesAssumption == SizeLists \subseteq Seq(Int)

VARIABLES
  cutters,      \* the functions this script uses
  made,         \* requests made so far
  request,      \* the last of them
  chunks,       \* its chunks
  stores,       \* stores so far
  owner,        \* request_id of the chunk stored under each key of each tier
  error         \* a store raised ValueError, which ends the script

scriptVars == <<tiers, cutters, made, request, chunks, stores, owner, error>>

ScriptInit ==
  /\ cutters \in CutterSets
  /\ tiers = [t \in Tiers |-> EmptyDict]
  /\ made = 0 /\ stores = 0
  /\ request = [id |-> 0, doc |-> 0, shared |-> 0, prompt |-> 0]
  /\ chunks = <<>>
  /\ owner = [t \in Tiers |-> [k \in {} |-> 0]]
  /\ error = FALSE

\* What cutting request r can return.
Cuts(r) ==
  { c \in { chunk_request(r) } : "fixed" \in cutters }
    \cup { c \in { chunk_request_with_prefix_split(r) } : "split" \in cutters }
    \cup { chunk_request_with_sizes(r, sizes) :
             sizes \in { l \in SizeLists : "sized" \in cutters /\ ~SizesRaise(r, l) } }

Cut ==
  /\ ~error
  /\ made < MaxRequests
  /\ request' \in RequestsOf(made)
  /\ chunks' \in Cuts(request')
  /\ made' = made + 1
  /\ UNCHANGED <<tiers, cutters, stores, owner, error>>

\* MemoryTier.store: an entry is overwritten whatever it covers, and still
\* counts when the capacity is checked.
Store(t, c) ==
  /\ ~error
  /\ stores < MaxStores
  /\ stores' = stores + 1
  /\ IF can_store(t, tiers[t], c)
     THEN /\ tiers' = [tiers EXCEPT ![t] = put(@, c)]
          /\ owner' = [owner EXCEPT ![t] =
               [k \in DOMAIN @ \cup {cache_key(c)} |->
                  IF k = cache_key(c) THEN request.id ELSE @[k]]]
          /\ UNCHANGED error
     ELSE error' = TRUE /\ UNCHANGED <<tiers, owner>>
  /\ UNCHANGED <<cutters, made, request, chunks>>

ScriptNext ==
  \/ Cut
  \/ \E t \in Tiers, i \in DOMAIN chunks : Store(t, chunks[i])

ScriptSpec == ScriptInit /\ [][ScriptNext]_scriptVars

-----------------------------------------------------------------------------
Tiles(cs, n) ==
  /\ \A i \in DOMAIN cs :
       /\ cs[i].idx = i - 1
       /\ cs[i].start = IF i = 1 THEN 0 ELSE cs[i - 1].end
       /\ cs[i].start < cs[i].end
  /\ cs # <<>> /\ cs[Len(cs)].end = n

Ranges(cs) == [i \in DOMAIN cs |-> extent(cs[i])]

\* The three functions agree where they should: each tiles the prompt, equal
\* sizes give the fixed grid, and so does a prefix split of a prompt that is
\* shared wholly or (ids apart) not at all ("When shared_prefix_tokens == 0
\* the entire prompt is private", "== prompt_tokens .. degenerate case").
CuttersAgree ==
  made > 0 =>
    LET equal    == [i \in 1 .. Chunks(request.prompt) |-> ChunkSize]
        grid     == chunk_request(request)
        split(n) == chunk_request_with_prefix_split([request EXCEPT !.shared = n])
    IN  /\ Tiles(grid, request.prompt)
        /\ Tiles(split(request.shared), request.prompt)
        /\ \A sizes \in SizeLists :
             SizesRaise(request, sizes)
               \/ Tiles(chunk_request_with_sizes(request, sizes), request.prompt)
        /\ chunk_request_with_sizes(request, equal) = grid
        /\ split(request.prompt) = grid
        /\ Ranges(split(0)) = Ranges(grid)

\* What the lookup returns covers the whole range of the chunk, its first
\* token included ("only return a hit if cached version fully covers the
\* needed token range", find_cached_chunk, which compares end tokens only).
HitsCoverRange ==
  \A i \in DOMAIN chunks :
    LET c == chunks[i]
        t == find_cached(c)
    IN  t # NoTier =>
          /\ tiers[t][cache_key(c)].start <= c.start
          /\ c.end <= tiers[t][cache_key(c)].end

\* Another request's chunk is a hit only inside the shared prefix
\* ("shared_prefix_tokens: Number of prompt tokens that may reuse cache",
\* models.py).  chunk_request does not read it.
OthersReusedInSharedPrefix ==
  \A i \in DOMAIN chunks :
    LET c == chunks[i]
        t == find_cached(c)
    IN  t # NoTier /\ owner[t][cache_key(c)] # request.id => c.end <= request.shared

\* A request that is cut by the prefix split keeps to its shared prefix,
\* also when others have put whole prompts, cut by chunk_request, under the
\* id of the document.
ReuseStaysInSharedPrefix ==
  chunks = chunk_request_with_prefix_split(request) => OthersReusedInSharedPrefix

=============================================================================
