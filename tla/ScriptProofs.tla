---------------------------- MODULE ScriptProofs ----------------------------
(***************************************************************************)
(* What TierScript promises of the lookup: on one grid of chunks a hit     *)
(* covers the chunk it answers, and the prefix split keeps other requests  *)
(* out of what a request does not share.                                   *)
(***************************************************************************)
EXTENDS TierScript, TierTheorems

\* This script does not use chunk_request_with_sizes, which leaves the grid.
OnGrid == "sized" \notin cutters

\* Where the chunks of request r lie: under its document, on the grid, or
\* under its private id.
Placed(r, c) ==
  \/ c.cid = r.doc /\ (OnGrid => c.start = c.idx * ChunkSize)
  \/ c.cid = NumDocuments + r.id

CutInv ==
  /\ made \in Nat /\ request.shared \in Nat /\ request.prompt \in Nat
  /\ chunks # <<>> => made > 0 /\ request.id = made - 1 /\ request.doc \in Documents
  /\ \A i \in DOMAIN chunks :
       /\ OnGrid => i \in Nat /\ chunks[i].idx = i - 1 /\ chunks[i].start \in Int
       /\ Placed(request, chunks[i])

\* An entry under a private id was stored by that request and, when this is
\* the last one, starts where the chunk of that index starts.
PrivateEntry(t, k, n) ==
  /\ k[1] = NumDocuments + n
  /\ owner[t][k] = n
  /\ OnGrid /\ n = made - 1 =>
       \E i \in DOMAIN chunks : k[2] = i - 1 /\ tiers[t][k].start = chunks[i].start

\* An entry under a document lies on the grid.
DocumentEntry(t, k) ==
  /\ k[1] \in Documents
  /\ OnGrid => tiers[t][k].start = k[2] * ChunkSize

EntryInv(t, k) ==
  DocumentEntry(t, k) \/ \E n \in 0 .. made - 1 : PrivateEntry(t, k, n)

ScriptInv ==
  /\ CutInv
  /\ DOMAIN tiers = Tiers /\ DOMAIN owner = Tiers
  /\ \A t \in Tiers :
       /\ DOMAIN owner[t] = DOMAIN tiers[t]
       /\ \A k \in DOMAIN tiers[t] : EntryInv(t, k)

-----------------------------------------------------------------------------
LEMMA ChunkCount ==
  ASSUME NEW n \in Int
  PROVE  Chunks(n) \in Int
<1>1. n + ChunkSize - 1 \in Int /\ ChunkSize \in Nat /\ ChunkSize > 0
  BY ChunkingAssumption
<1>2. (n + ChunkSize - 1) \div ChunkSize \in Int
  BY <1>1
<1> QED BY <1>2 DEF Chunks

\* The requests of the workload, as far as they matter here.
LEMMA RequestFields ==
  ASSUME NEW n \in Nat, NEW r \in RequestsOf(n)
  PROVE  /\ r.id = n /\ r.doc \in Documents
         /\ r.shared \in Nat /\ r.prompt \in Nat
<1>1. /\ r \in [id : {n}, doc : DocumentsFor(n), shared : 0 .. SharedMax,
                prompt : 0 .. SharedMax + PrivateMax]
  BY DEF RequestsOf
<1>2. SharedMax \in Nat /\ PrivateMax \in Nat
  BY WorkloadAssumption
<1>3. n % NumDocuments \in 0 .. NumDocuments - 1
  <2>1. NumDocuments \in Nat /\ NumDocuments > 0
    BY ChunkingAssumption
  <2> QED BY <2>1
<1>4. DocumentsFor(n) \subseteq Documents
  BY <1>3 DEF DocumentsFor, Documents
<1> QED BY <1>1, <1>2, <1>4

LEMMA GridCut ==
  ASSUME NEW r, r.prompt \in Nat, NEW i \in DOMAIN chunk_request(r)
  PROVE  LET c == chunk_request(r)[i]
         IN  /\ i \in Nat /\ c.idx = i - 1 /\ c.start \in Int
             /\ c.cid = r.doc /\ c.start = c.idx * ChunkSize
<1>1. Chunks(r.prompt) \in Int
  BY ChunkCount
<1>2. i \in 1 .. Chunks(r.prompt)
  BY DEF chunk_request
<1>3. i \in Nat /\ (i - 1) * ChunkSize \in Int
  BY <1>1, <1>2, ChunkingAssumption
<1> QED BY <1>2, <1>3 DEF chunk_request

LEMMA SplitCut ==
  ASSUME NEW r, r.prompt \in Nat, r.shared \in Nat,
         NEW i \in DOMAIN chunk_request_with_prefix_split(r)
  PROVE  LET c == chunk_request_with_prefix_split(r)[i]
         IN  /\ i \in Nat /\ c.idx = i - 1 /\ c.start \in Int
             /\ \/ c.cid = r.doc /\ c.start = c.idx * ChunkSize /\ c.end <= r.shared
                \/ c.cid = NumDocuments + r.id
<1> DEFINE n == Chunks(r.shared)
           last == n + Chunks(r.prompt - r.shared)
<1>1. n \in Int /\ last \in Int
  <2>1. r.shared \in Int /\ r.prompt - r.shared \in Int
    OBVIOUS
  <2>2. n \in Int /\ Chunks(r.prompt - r.shared) \in Int
    BY <2>1, ChunkCount
  <2> QED BY <2>2
<1>2. i \in 1 .. last
  BY DEF chunk_request_with_prefix_split
<1>3. i \in Nat \ {0} /\ ChunkSize \in Int
  BY <1>1, <1>2, ChunkingAssumption
<1>4. (i - 1) * ChunkSize \in Int /\ r.shared + (i - 1 - n) * ChunkSize \in Int
  BY <1>1, <1>3
<1>5. CASE i <= n
  <2>1. chunk_request_with_prefix_split(r)[i]
          = [cid |-> r.doc, idx |-> i - 1, start |-> (i - 1) * ChunkSize,
             end |-> MinOf(i * ChunkSize, r.shared)]
    BY <1>2, <1>5 DEF chunk_request_with_prefix_split
  <2>2. MinOf(i * ChunkSize, r.shared) <= r.shared
    <3>1. i * ChunkSize \in Int
      BY <1>3, ChunkingAssumption
    <3> QED BY <3>1 DEF MinOf
  <2> QED BY <1>3, <1>4, <2>1, <2>2
<1>6. CASE ~(i <= n)
  <2>1. chunk_request_with_prefix_split(r)[i]
          = [cid |-> NumDocuments + r.id, idx |-> i - 1,
             start |-> r.shared + (i - 1 - n) * ChunkSize,
             end |-> MinOf(r.shared + (i - n) * ChunkSize, r.prompt)]
    BY <1>2, <1>6 DEF chunk_request_with_prefix_split
  <2> QED BY <1>3, <1>4, <2>1
<1> QED BY <1>5, <1>6

LEMMA SizedCut ==
  ASSUME NEW r, NEW sizes, NEW i \in DOMAIN chunk_request_with_sizes(r, sizes)
  PROVE  chunk_request_with_sizes(r, sizes)[i].cid = r.doc
  BY DEF chunk_request_with_sizes

\* So whatever a request is cut by, its chunks are where CutInv has them.
LEMMA CutsPlaced ==
  ASSUME NEW n \in Nat, NEW r \in RequestsOf(n), NEW c \in Cuts(r), NEW i \in DOMAIN c
  PROVE  (OnGrid => i \in Nat /\ c[i].idx = i - 1 /\ c[i].start \in Int) /\ Placed(r, c[i])
<1>1. r.shared \in Nat /\ r.prompt \in Nat
  BY RequestFields
<1>2. CASE c = chunk_request(r) /\ "fixed" \in cutters
  <2>1. /\ i \in Nat /\ c[i].idx = i - 1 /\ c[i].start \in Int
        /\ c[i].cid = r.doc /\ c[i].start = c[i].idx * ChunkSize
    BY <1>1, <1>2, GridCut
  <2> QED BY <2>1 DEF Placed
<1>3. CASE c = chunk_request_with_prefix_split(r)
  <2>1. /\ i \in Nat /\ c[i].idx = i - 1 /\ c[i].start \in Int
        /\ \/ c[i].cid = r.doc /\ c[i].start = c[i].idx * ChunkSize /\ c[i].end <= r.shared
           \/ c[i].cid = NumDocuments + r.id
    BY <1>1, <1>3, SplitCut
  <2> QED BY <2>1 DEF Placed
<1>4. CASE /\ "sized" \in cutters
           /\ \E sizes \in SizeLists : c = chunk_request_with_sizes(r, sizes)
  <2>1. c[i].cid = r.doc
    BY <1>4, SizedCut
  <2>2. ~OnGrid
    BY <1>4 DEF OnGrid
  <2> QED BY <2>1, <2>2 DEF Placed
<1> QED BY <1>2, <1>3, <1>4 DEF Cuts

-----------------------------------------------------------------------------
LEMMA ScriptInitially == ScriptInit => ScriptInv
  BY DEF ScriptInit, ScriptInv, CutInv, EmptyDict

\* A new request has a private id that no entry is stored under.
LEMMA CutKeeps ==
  ASSUME ScriptInv, Cut
  PROVE  ScriptInv'
<1>1. made' = made + 1 /\ UNCHANGED <<tiers, cutters, owner>>
  BY DEF Cut
<1>2. CutInv'
  <2>1. made \in Nat /\ request' \in RequestsOf(made) /\ chunks' \in Cuts(request')
    BY DEF Cut, ScriptInv, CutInv
  <2>2. /\ request'.id = made /\ request'.doc \in Documents
        /\ request'.shared \in Nat /\ request'.prompt \in Nat
    BY <2>1, RequestFields
  <2>3. ASSUME NEW i \in DOMAIN chunks'
        PROVE  /\ OnGrid => /\ i \in Nat /\ chunks'[i].idx = i - 1
                            /\ chunks'[i].start \in Int
               /\ Placed(request', chunks'[i])
    BY <2>1, <2>3, CutsPlaced
  <2>4. made' \in Nat /\ made' > 0 /\ request'.id = made' - 1
    BY <1>1, <2>1, <2>2
  <2> QED BY <1>1, <2>2, <2>3, <2>4 DEF CutInv, OnGrid, Placed
<1>3. ASSUME NEW t \in Tiers, NEW k \in DOMAIN tiers[t], EntryInv(t, k)
      PROVE  EntryInv(t, k)'
  <2>1. CASE DocumentEntry(t, k)
    BY <1>1, <2>1 DEF EntryInv, DocumentEntry, OnGrid
  <2>2. CASE \E n \in 0 .. made - 1 : PrivateEntry(t, k, n)
    <3>1. PICK n \in 0 .. made - 1 : PrivateEntry(t, k, n)
      BY <2>2
    <3>2. made \in Nat
      BY DEF ScriptInv, CutInv
    <3>3. n \in 0 .. made' - 1 /\ n # made' - 1
      BY <1>1, <3>1, <3>2
    <3>4. PrivateEntry(t, k, n)'
      BY <1>1, <3>1, <3>3 DEF PrivateEntry
    <3> QED BY <3>3, <3>4 DEF EntryInv
  <2> QED BY <1>3, <2>1, <2>2 DEF EntryInv
<1> QED BY <1>1, <1>2, <1>3 DEF ScriptInv

\* What a store puts under a key is what CutInv says of the chunk.
LEMMA StoreKeeps ==
  ASSUME ScriptInv, NEW u \in Tiers, NEW j \in DOMAIN chunks, Store(u, chunks[j])
  PROVE  ScriptInv'
<1> DEFINE c == chunks[j]
           key == cache_key(c)
<1>1. UNCHANGED <<cutters, made, request, chunks>>
  BY DEF Store
<1>2. CutInv'
  BY <1>1 DEF ScriptInv, CutInv, Placed, OnGrid
<1>3. CASE UNCHANGED <<tiers, owner>>
  BY <1>1, <1>2, <1>3 DEF ScriptInv, EntryInv, DocumentEntry, PrivateEntry, OnGrid
<1>4. CASE /\ tiers' = [tiers EXCEPT ![u] = put(@, c)]
           /\ owner' = [owner EXCEPT ![u] =
                [k \in DOMAIN @ \cup {key} |-> IF k = key THEN request.id ELSE @[k]]]
  <2>1. DOMAIN tiers = Tiers /\ DOMAIN owner = Tiers
    BY DEF ScriptInv
  <2>2. DOMAIN tiers' = Tiers /\ DOMAIN owner' = Tiers
    BY <1>4, <2>1
  <2>3. /\ tiers'[u] = put(tiers[u], c)
        /\ owner'[u] = [k \in DOMAIN owner[u] \cup {key} |->
                          IF k = key THEN request.id ELSE owner[u][k]]
        /\ \A t \in Tiers \ {u} : tiers'[t] = tiers[t] /\ owner'[t] = owner[t]
    BY <1>4, <2>1
  <2>4. /\ DOMAIN tiers'[u] = DOMAIN tiers[u] \cup {key}
        /\ tiers'[u][key].start = c.start
        /\ \A k \in DOMAIN tiers[u] \ {key} : tiers'[u][k] = tiers[u][k]
    BY <2>3 DEF put, extent
  <2>5. /\ DOMAIN owner'[u] = DOMAIN tiers'[u]
        /\ owner'[u][key] = request.id
        /\ \A k \in DOMAIN tiers[u] \ {key} : owner'[u][k] = owner[u][k]
    BY <2>3, <2>4 DEF ScriptInv
  <2>6. ASSUME NEW k, k = key
        PROVE  EntryInv(u, k)'
    <3>1. k[1] = c.cid /\ k[2] = c.idx
      BY <2>6 DEF cache_key
    <3>2. /\ made \in Nat /\ made > 0 /\ request.id = made - 1 /\ request.doc \in Documents
          /\ OnGrid => j \in Nat /\ c.idx = j - 1
          /\ Placed(request, c)
      BY DEF ScriptInv, CutInv
    <3>3. CASE c.cid = request.doc /\ (OnGrid => c.start = c.idx * ChunkSize)
      BY <1>1, <2>4, <2>6, <3>1, <3>2, <3>3 DEF EntryInv, DocumentEntry, OnGrid
    <3>4. CASE c.cid = NumDocuments + request.id
      <4>1. PrivateEntry(u, k, request.id)'
        BY <1>1, <2>4, <2>5, <2>6, <3>1, <3>2, <3>4 DEF PrivateEntry, OnGrid
      <4>2. request.id \in 0 .. made - 1
        BY <3>2
      <4> QED BY <1>1, <4>1, <4>2 DEF EntryInv
    <3> QED BY <3>2, <3>3, <3>4 DEF Placed
  <2>7. ASSUME NEW t \in Tiers, NEW k \in DOMAIN tiers[t],
               tiers'[t][k] = tiers[t][k], owner'[t][k] = owner[t][k]
        PROVE  EntryInv(t, k)'
    <3>1. CASE DocumentEntry(t, k)
      BY <1>1, <2>7, <3>1 DEF EntryInv, DocumentEntry, OnGrid
    <3>2. ASSUME NEW n \in 0 .. made - 1, PrivateEntry(t, k, n)
          PROVE  EntryInv(t, k)'
      <4>1. PrivateEntry(t, k, n)'
        BY <1>1, <2>7, <3>2 DEF PrivateEntry, OnGrid
      <4> QED BY <1>1, <4>1 DEF EntryInv
    <3>3. EntryInv(t, k)
      BY DEF ScriptInv
    <3> QED BY <3>1, <3>2, <3>3 DEF EntryInv
  <2>8. ASSUME NEW t \in Tiers, NEW k \in DOMAIN tiers'[t]
        PROVE  EntryInv(t, k)'
    <3>1. CASE t = u /\ k = key
      BY <2>6, <3>1
    <3>2. CASE t = u /\ k # key
      BY <2>4, <2>5, <2>7, <2>8, <3>2
    <3>3. CASE t # u
      BY <2>3, <2>7, <2>8, <3>3
    <3> QED BY <3>1, <3>2, <3>3
  <2>9. ASSUME NEW t \in Tiers PROVE DOMAIN owner'[t] = DOMAIN tiers'[t]
    BY <2>3, <2>5 DEF ScriptInv
  <2> QED BY <1>2, <2>2, <2>8, <2>9 DEF ScriptInv
<1> QED BY <1>3, <1>4 DEF Store

THEOREM ScriptInvariant == ScriptSpec => []ScriptInv
<1>1. ScriptInv /\ [ScriptNext]_scriptVars => ScriptInv'
  <2>1. CASE UNCHANGED scriptVars
    BY <2>1 DEF scriptVars, ScriptInv, CutInv, Placed, EntryInv, DocumentEntry,
         PrivateEntry, OnGrid
  <2> QED BY <2>1, CutKeeps, StoreKeeps DEF ScriptNext
<1> QED BY <1>1, ScriptInitially, PTL DEF ScriptSpec

-----------------------------------------------------------------------------
\* An entry that answers a lookup lies under the document, on the grid, or was
\* stored by the last request itself from the chunk of the same index.
LEMMA HitFacts ==
  ASSUME ScriptInv, NEW i \in DOMAIN chunks, find_cached(chunks[i]) # NoTier
  PROVE  LET c == chunks[i]
             t == find_cached(c)
             key == cache_key(c)
         IN  /\ t \in Tiers /\ key \in DOMAIN tiers[t]
             /\ c.end <= tiers[t][key].end
             /\ OnGrid => tiers[t][key].start = c.start
             /\ c.cid \in Documents \/ owner[t][key] = request.id
<1> DEFINE c == chunks[i]
           t == find_cached(c)
           key == cache_key(c)
<1> SUFFICES /\ t \in Tiers /\ key \in DOMAIN tiers[t]
             /\ c.end <= tiers[t][key].end
             /\ OnGrid => tiers[t][key].start = c.start
             /\ c.cid \in Documents \/ owner[t][key] = request.id
  OBVIOUS
<1>1. t \in Hits(c)
  BY DEF find_cached
<1>2. t \in Tiers /\ key \in DOMAIN tiers[t] /\ c.end <= coverage(tiers[t], key)
  <2> HIDE DEF t
  <2> QED BY <1>1 DEF Hits, FirstHolder, Present, Covers
<1>3. EntryInv(t, key)
  <2> HIDE DEF t
  <2> QED BY <1>2 DEF ScriptInv
<1>4. /\ made \in Nat /\ request.id = made - 1 /\ request.doc \in Documents
      /\ \A j \in DOMAIN chunks : OnGrid => j \in Nat /\ chunks[j].idx = j - 1
      /\ request.id \in Nat /\ Placed(request, c)
  BY DEF ScriptInv, CutInv
<1>5. key[1] = c.cid /\ key[2] = c.idx
  BY DEF cache_key
<1>6. c.cid = NumDocuments + request.id => c.cid \notin Documents
  <2> SUFFICES ASSUME c.cid = NumDocuments + request.id PROVE c.cid \notin Documents
    OBVIOUS
  <2>1. NumDocuments \in Nat /\ request.id \in Nat
    BY <1>4, ChunkingAssumption
  <2>2. NumDocuments + request.id \notin 0 .. NumDocuments - 1
    BY <2>1
  <2> QED BY <2>2 DEF Documents
<1>7. c.end <= tiers[t][key].end
  BY <1>2 DEF coverage
<1>8. CASE DocumentEntry(t, key)
  <2>1. c.cid = request.doc /\ (OnGrid => c.start = c.idx * ChunkSize)
    BY <1>4, <1>5, <1>6, <1>8 DEF DocumentEntry, Placed
  <2>2. c.cid \in Documents
    BY <1>5, <1>8 DEF DocumentEntry
  <2>3. OnGrid => tiers[t][key].start = c.start
    BY <1>5, <1>8, <2>1 DEF DocumentEntry
  <2> QED BY <1>2, <1>7, <2>2, <2>3
<1>9. CASE \E n \in 0 .. made - 1 : PrivateEntry(t, key, n)
  <2> HIDE DEF t
  <2>1. PICK n \in 0 .. made - 1 : PrivateEntry(t, key, n)
    BY <1>9
  <2>2. c.cid = NumDocuments + n
    BY <1>5, <2>1 DEF PrivateEntry
  <2>3. c.cid # request.doc
    <3>1. NumDocuments + n \notin 0 .. NumDocuments - 1
      BY <1>4, ChunkingAssumption
    <3> QED BY <1>4, <2>2, <3>1 DEF Documents
  <2>4. n = request.id /\ n = made - 1
    <3>1. NumDocuments \in Nat /\ c.cid = NumDocuments + request.id
      BY <1>4, <2>3, ChunkingAssumption DEF Placed
    <3> QED BY <1>4, <2>2, <3>1
  <2>5. OnGrid => tiers[t][key].start = c.start
    <3> SUFFICES ASSUME OnGrid PROVE tiers[t][key].start = c.start
      OBVIOUS
    <3>1. PICK j \in DOMAIN chunks :
            key[2] = j - 1 /\ tiers[t][key].start = chunks[j].start
      BY <2>1, <2>4 DEF PrivateEntry
    <3>2. i = j
      <4>1. i \in Nat /\ j \in Nat /\ i - 1 = j - 1
        BY <1>4, <1>5, <3>1
      <4> QED BY <4>1
    <3> QED BY <3>1, <3>2
  <2>6. owner[t][key] = request.id
    BY <2>1, <2>4 DEF PrivateEntry
  <2> QED BY <1>2, <1>7, <2>5, <2>6
<1> QED BY <1>3, <1>8, <1>9 DEF EntryInv

\* As long as all chunks lie on the grid, what find_cached_chunk returns
\* covers the whole range of the chunk, although it compares the ends only.
THEOREM HitsCover == ScriptSpec => [](OnGrid => HitsCoverRange)
<1>1. ScriptInv => (OnGrid => HitsCoverRange)
  <2> SUFFICES ASSUME ScriptInv, OnGrid, NEW i \in DOMAIN chunks,
                      find_cached(chunks[i]) # NoTier
               PROVE  LET c == chunks[i]
                          t == find_cached(c)
                      IN  /\ tiers[t][cache_key(c)].start <= c.start
                          /\ c.end <= tiers[t][cache_key(c)].end
    BY DEF HitsCoverRange
  <2> DEFINE c == chunks[i]
             t == find_cached(c)
  <2>1. tiers[t][cache_key(c)].start = c.start
    BY HitFacts
  <2>2. c.end <= tiers[t][cache_key(c)].end
    BY HitFacts
  <2>3. c.start \in Int
    BY DEF ScriptInv, CutInv
  <2> QED BY <2>1, <2>2, <2>3
<1> QED BY <1>1, ScriptInvariant, PTL

\* A request that is cut by the prefix split reuses what others have stored
\* only within its shared prefix, whatever functions have cut the others: its
\* document chunks end there, and no other request has its private id.
THEOREM ReuseIsShared == ScriptSpec => []ReuseStaysInSharedPrefix
<1>1. ASSUME ScriptInv PROVE ReuseStaysInSharedPrefix
  <2> SUFFICES ASSUME chunks = chunk_request_with_prefix_split(request),
                      NEW i \in DOMAIN chunks,
                      find_cached(chunks[i]) # NoTier
               PROVE  LET c == chunks[i]
                          t == find_cached(c)
                      IN  owner[t][cache_key(c)] # request.id => c.end <= request.shared
    BY DEF ReuseStaysInSharedPrefix, OthersReusedInSharedPrefix
  <2> DEFINE c == chunks[i]
             t == find_cached(c)
  <2>1. /\ request.shared \in Nat /\ request.prompt \in Nat
        /\ request.id \in Nat /\ request.doc \in Documents
    BY <1>1 DEF ScriptInv, CutInv
  <2>2. (c.cid = request.doc /\ c.end <= request.shared) \/ c.cid = NumDocuments + request.id
    BY <2>1, SplitCut
  <2>3. c.cid \in Documents \/ owner[t][cache_key(c)] = request.id
    BY <1>1, HitFacts
  <2>4. NumDocuments + request.id \notin Documents
    BY <2>1, ChunkingAssumption DEF Documents
  <2> QED BY <2>2, <2>3, <2>4
<1> QED BY <1>1, ScriptInvariant, PTL

-----------------------------------------------------------------------------
(* The three cutters on one request.                                       *)

\* The grid has a chunk for every multiple of ChunkSize below n.
LEMMA ChunksFacts ==
  ASSUME NEW n \in Nat
  PROVE  /\ Chunks(n) \in Nat /\ ChunkSize \in Nat \ {0}
         /\ \A i \in Nat : i * ChunkSize < n <=> i < Chunks(n)
         /\ \A i \in Nat : i * ChunkSize \in Nat /\ (i + 1) * ChunkSize = i * ChunkSize + ChunkSize
<1>1. ChunkSize \in Nat \ {0}
  BY ChunkingAssumption
<1>2. /\ Chunks(n) \in Nat
      /\ \A i \in Nat : i * ChunkSize < n <=> i < Chunks(n)
  BY <1>1, CeilingFacts DEF Chunks
<1>3. ASSUME NEW i \in Nat
      PROVE  i * ChunkSize \in Nat /\ (i + 1) * ChunkSize = i * ChunkSize + ChunkSize
  BY <1>1
<1> QED BY <1>1, <1>2, <1>3

\* One grid over the tokens from a to b: where its chunks lie.
LEMMA GridRange ==
  ASSUME NEW a \in Nat, NEW b \in Nat, a <= b, NEW i \in 1 .. Chunks(b - a)
  PROVE  /\ a + (i - 1) * ChunkSize < MinOf(a + i * ChunkSize, b)
         /\ i < Chunks(b - a) => MinOf(a + i * ChunkSize, b) = a + i * ChunkSize
         /\ i = Chunks(b - a) => MinOf(a + i * ChunkSize, b) = b
<1>1. b - a \in Nat
  OBVIOUS
<1>2. /\ Chunks(b - a) \in Nat /\ ChunkSize \in Nat \ {0}
      /\ \A j \in Nat : j * ChunkSize < b - a <=> j < Chunks(b - a)
      /\ \A j \in Nat : j * ChunkSize \in Nat /\ (j + 1) * ChunkSize = j * ChunkSize + ChunkSize
  BY <1>1, ChunksFacts
<1>3. i \in Nat /\ i - 1 \in Nat /\ i - 1 < Chunks(b - a) /\ i <= Chunks(b - a)
  BY <1>2
<1>4. (i - 1) * ChunkSize \in Nat /\ i * ChunkSize = (i - 1) * ChunkSize + ChunkSize
  <2>1. (i - 1) + 1 = i
    BY <1>3
  <2> QED BY <1>2, <1>3, <2>1
<1>5. (i - 1) * ChunkSize < b - a
  BY <1>2, <1>3
<1>6. i * ChunkSize < b - a <=> i < Chunks(b - a)
  BY <1>2, <1>3
<1> HIDE DEF Chunks
<1>7. /\ a + (i - 1) * ChunkSize < a + i * ChunkSize
      /\ a + (i - 1) * ChunkSize < b
      /\ i < Chunks(b - a) => a + i * ChunkSize < b
      /\ i = Chunks(b - a) => a + i * ChunkSize >= b
      /\ a + i * ChunkSize \in Nat
  BY <1>2, <1>3, <1>4, <1>5, <1>6
<1> QED BY <1>7 DEF MinOf

\* A sequence of chunks tiles the prompt if each begins where the one before
\* it ends.
LEMMA GridTiles ==
  ASSUME NEW r, r.prompt \in Nat, r.prompt > 0
  PROVE  Tiles(chunk_request(r), r.prompt)
<1> DEFINE n == Chunks(r.prompt)
           cs == chunk_request(r)
<1>1. n \in Nat /\ n > 0
  <2>1. n \in Nat /\ (0 * ChunkSize < r.prompt <=> 0 < n) /\ ChunkSize \in Nat
    BY ChunksFacts
  <2> QED BY <2>1
<1>2. \A i \in 1 .. n :
        /\ (i - 1) * ChunkSize < MinOf(i * ChunkSize, r.prompt)
        /\ i < n => MinOf(i * ChunkSize, r.prompt) = i * ChunkSize
        /\ i = n => MinOf(i * ChunkSize, r.prompt) = r.prompt
  <2> SUFFICES ASSUME NEW i \in 1 .. n
               PROVE  /\ (i - 1) * ChunkSize < MinOf(i * ChunkSize, r.prompt)
                      /\ i < n => MinOf(i * ChunkSize, r.prompt) = i * ChunkSize
                      /\ i = n => MinOf(i * ChunkSize, r.prompt) = r.prompt
    OBVIOUS
  <2>1. r.prompt - 0 = r.prompt /\ i \in Nat /\ i - 1 \in Nat
    BY <1>1
  <2>2. (i - 1) * ChunkSize \in Nat /\ i * ChunkSize \in Nat
    BY <2>1, ChunksFacts
  <2>3. /\ 0 + (i - 1) * ChunkSize = (i - 1) * ChunkSize
        /\ 0 + i * ChunkSize = i * ChunkSize
    BY <2>2
  <2>4. /\ 0 + (i - 1) * ChunkSize < MinOf(0 + i * ChunkSize, r.prompt)
        /\ i < n => MinOf(0 + i * ChunkSize, r.prompt) = 0 + i * ChunkSize
        /\ i = n => MinOf(0 + i * ChunkSize, r.prompt) = r.prompt
    BY <2>1, GridRange
  <2> QED BY <2>3, <2>4
<1> HIDE DEF n
<1>3. /\ DOMAIN cs = 1 .. n /\ Len(cs) = n /\ cs # <<>>
      /\ \A i \in 1 .. n : cs[i] = [cid |-> r.doc, idx |-> i - 1, start |-> (i - 1) * ChunkSize,
                                    end |-> MinOf(i * ChunkSize, r.prompt)]
  BY <1>1 DEF chunk_request, n
<1> HIDE DEF cs
<1>4. ASSUME NEW i \in 1 .. n
      PROVE  /\ cs[i].idx = i - 1 /\ cs[i].start < cs[i].end
             /\ cs[i].start = IF i = 1 THEN 0 ELSE cs[i - 1].end
  <2>1. /\ cs[i].idx = i - 1 /\ cs[i].start = (i - 1) * ChunkSize
        /\ cs[i].end = MinOf(i * ChunkSize, r.prompt)
    BY <1>3
  <2>2. cs[i].start < cs[i].end
    BY <1>2, <2>1
  <2>3. CASE i = 1
    BY <2>1, <2>2, <2>3, ChunkingAssumption
  <2>4. CASE i # 1
    <3>1. i - 1 \in 1 .. n /\ i - 1 < n
      BY <1>1, <2>4
    <3>2. cs[i - 1].end = (i - 1) * ChunkSize
      BY <1>2, <1>3, <3>1
    <3> QED BY <2>1, <2>2, <2>4, <3>2
  <2> QED BY <2>3, <2>4
<1>5. cs[n].end = r.prompt
  BY <1>1, <1>2, <1>3
<1> QED BY <1>3, <1>4, <1>5 DEF Tiles, cs

\* The prefix split: the two grids, one after the other.
LEMMA SplitTiles ==
  ASSUME NEW r, r.prompt \in Nat, r.prompt > 0, r.shared \in Nat, r.shared <= r.prompt
  PROVE  Tiles(chunk_request_with_prefix_split(r), r.prompt)
<1> DEFINE n == Chunks(r.shared)
           m == Chunks(r.prompt - r.shared)
           cs == chunk_request_with_prefix_split(r)
           Start(i) == IF i <= n THEN (i - 1) * ChunkSize
                       ELSE r.shared + (i - 1 - n) * ChunkSize
           End(i) == IF i <= n THEN MinOf(i * ChunkSize, r.shared)
                     ELSE MinOf(r.shared + (i - n) * ChunkSize, r.prompt)
<1>1. /\ n \in Nat /\ m \in Nat /\ r.prompt - r.shared \in Nat /\ ChunkSize \in Nat
      /\ r.shared = 0 <=> n = 0
      /\ r.shared = r.prompt <=> m = 0
  <2>1. r.prompt - r.shared \in Nat
    OBVIOUS
  <2>2. /\ n \in Nat /\ m \in Nat /\ ChunkSize \in Nat
        /\ 0 * ChunkSize < r.shared <=> 0 < n
        /\ 0 * ChunkSize < r.prompt - r.shared <=> 0 < m
    BY <2>1, ChunksFacts
  <2> QED BY <2>1, <2>2
<1>2. ASSUME NEW i \in 1 .. n
      PROVE  /\ (i - 1) * ChunkSize < MinOf(i * ChunkSize, r.shared)
             /\ i < n => MinOf(i * ChunkSize, r.shared) = i * ChunkSize
             /\ i = n => MinOf(i * ChunkSize, r.shared) = r.shared
  <2>1. r.shared - 0 = r.shared /\ i \in Nat /\ i - 1 \in Nat
    BY <1>1
  <2>2. (i - 1) * ChunkSize \in Nat /\ i * ChunkSize \in Nat
    BY <2>1, ChunksFacts
  <2>3. /\ 0 + (i - 1) * ChunkSize = (i - 1) * ChunkSize
        /\ 0 + i * ChunkSize = i * ChunkSize
    BY <2>2
  <2>4. /\ 0 + (i - 1) * ChunkSize < MinOf(0 + i * ChunkSize, r.shared)
        /\ i < n => MinOf(0 + i * ChunkSize, r.shared) = 0 + i * ChunkSize
        /\ i = n => MinOf(0 + i * ChunkSize, r.shared) = r.shared
    BY <2>1, GridRange
  <2> QED BY <2>3, <2>4
<1>3. ASSUME NEW j \in 1 .. m
      PROVE  /\ r.shared + (j - 1) * ChunkSize < MinOf(r.shared + j * ChunkSize, r.prompt)
             /\ j < m => MinOf(r.shared + j * ChunkSize, r.prompt) = r.shared + j * ChunkSize
             /\ j = m => MinOf(r.shared + j * ChunkSize, r.prompt) = r.prompt
  BY GridRange
<1> HIDE DEF n, m
<1>4. ASSUME NEW i \in 1 .. n + m
      PROVE  /\ Start(i) < End(i)
             /\ i < n + m => Start(i + 1) = End(i)
             /\ i = n + m => End(i) = r.prompt
  <2>1. i \in Nat /\ i > 0
    BY <1>1
  <2>2. CASE i < n
    <3>1. i \in 1 .. n /\ i + 1 <= n /\ (i + 1) - 1 = i /\ i # n + m /\ i <= n
      BY <1>1, <2>1, <2>2
    <3> QED BY <1>2, <2>2, <3>1
  <2>3. CASE i = n
    <3>1. i \in 1 .. n /\ i <= n /\ ~(i + 1 <= n) /\ (i + 1) - 1 - n = 0
      BY <1>1, <2>1, <2>3
    <3>2. Start(i) < End(i) /\ End(i) = r.shared
      BY <1>2, <2>3, <3>1
    <3>3. Start(i + 1) = r.shared
      <4>1. Start(i + 1) = r.shared + 0 * ChunkSize
        BY <3>1
      <4> QED BY <1>1, <4>1
    <3>4. i = n + m => r.shared = r.prompt
      BY <1>1, <2>3
    <3> QED BY <3>2, <3>3, <3>4
  <2>4. CASE i > n
    <3>1. ~(i <= n) /\ ~(i + 1 <= n) /\ i - n \in 1 .. m /\ i - 1 - n = (i - n) - 1
          /\ (i + 1) - 1 - n = i - n /\ (i < n + m <=> i - n < m) /\ (i = n + m <=> i - n = m)
      BY <1>1, <2>1, <2>4
    <3>2. /\ r.shared + ((i - n) - 1) * ChunkSize < MinOf(r.shared + (i - n) * ChunkSize, r.prompt)
          /\ i - n < m => MinOf(r.shared + (i - n) * ChunkSize, r.prompt) = r.shared + (i - n) * ChunkSize
          /\ i - n = m => MinOf(r.shared + (i - n) * ChunkSize, r.prompt) = r.prompt
      BY <1>3, <3>1
    <3> QED BY <3>1, <3>2
  <2> QED BY <1>1, <2>1, <2>2, <2>3, <2>4
<1>5. n + m \in Nat /\ n + m > 0
  BY <1>1
<1>6. /\ DOMAIN cs = 1 .. n + m /\ Len(cs) = n + m /\ cs # <<>>
      /\ \A i \in 1 .. n + m : cs[i].idx = i - 1 /\ cs[i].start = Start(i) /\ cs[i].end = End(i)
  <2>1. cs = [i \in 1 .. n + m |->
                IF i <= n
                THEN [cid |-> r.doc, idx |-> i - 1, start |-> (i - 1) * ChunkSize,
                      end |-> MinOf(i * ChunkSize, r.shared)]
                ELSE [cid |-> NumDocuments + r.id, idx |-> i - 1,
                      start |-> r.shared + (i - 1 - n) * ChunkSize,
                      end |-> MinOf(r.shared + (i - n) * ChunkSize, r.prompt)]]
    BY DEF chunk_request_with_prefix_split, n, m
  <2> HIDE DEF cs
  <2> QED BY <1>5, <2>1
<1>7. Start(1) = 0
  <2>1. CASE n = 0
    <3>1. ~(1 <= n) /\ 1 - 1 - n = 0 /\ r.shared = 0
      BY <1>1, <2>1
    <3>2. Start(1) = r.shared + 0 * ChunkSize
      BY <3>1
    <3> QED BY <1>1, <3>1, <3>2
  <2>2. CASE n # 0
    <3>1. 1 <= n /\ 1 - 1 = 0
      BY <1>1, <2>2
    <3>2. Start(1) = 0 * ChunkSize
      BY <3>1
    <3> QED BY <1>1, <3>2
  <2> QED BY <2>1, <2>2
<1> HIDE DEF cs, Start, End
<1>8. ASSUME NEW i \in 1 .. n + m
      PROVE  /\ cs[i].idx = i - 1 /\ cs[i].start < cs[i].end
             /\ cs[i].start = IF i = 1 THEN 0 ELSE cs[i - 1].end
  <2>1. CASE i = 1
    BY <1>4, <1>6, <1>7, <2>1
  <2>2. CASE i # 1
    <3>1. i - 1 \in 1 .. n + m /\ i - 1 < n + m /\ (i - 1) + 1 = i
      BY <1>5, <2>2
    <3>2. Start(i) = End(i - 1)
      BY <1>4, <3>1
    <3> QED BY <1>4, <1>6, <2>2, <3>1, <3>2
  <2> QED BY <2>1, <2>2
<1>9. cs[n + m].end = r.prompt
  BY <1>4, <1>5, <1>6
<1> QED BY <1>6, <1>8, <1>9 DEF Tiles, cs

\* Where the chunks of given sizes begin.
LEMMA StartFacts ==
  ASSUME NEW sizes \in Seq(Nat \ {0})
  PROVE  /\ StartOf(sizes, 1) = 0
         /\ \A i \in 1 .. Len(sizes) + 1 : StartOf(sizes, i) \in Nat
         /\ \A i \in DOMAIN sizes : StartOf(sizes, i + 1) = StartOf(sizes, i) + sizes[i]
         /\ \A i, j \in 1 .. Len(sizes) + 1 :
              i <= j => StartOf(sizes, i) <= StartOf(sizes, j)
         /\ StartOf(sizes, Len(sizes) + 1) = SumFunction(sizes)
<1>1. /\ Len(sizes) \in Nat /\ DOMAIN sizes = 1 .. Len(sizes)
      /\ \A i \in DOMAIN sizes : sizes[i] \in Nat /\ sizes[i] > 0
  OBVIOUS
<1>2. ASSUME NEW i \in 1 .. Len(sizes) + 1
      PROVE  /\ i - 1 \in Nat /\ IsFiniteSet(1 .. i - 1)
             /\ 1 .. i - 1 \subseteq DOMAIN sizes
             /\ \A j \in 1 .. i - 1 : sizes[j] \in Nat
             /\ StartOf(sizes, i) \in Nat
  <2>1. i - 1 \in Nat /\ \A j \in 1 .. i - 1 : j \in DOMAIN sizes
    BY <1>1
  <2>2. IsFiniteSet(1 .. i - 1)
    BY <2>1, IntervalSize
  <2>3. \A j \in 1 .. i - 1 : sizes[j] \in Nat
    BY <1>1, <2>1
  <2>4. StartOf(sizes, i) \in Nat
    BY <2>2, <2>3, SumType DEF StartOf
  <2> QED BY <2>1, <2>2, <2>3, <2>4
<1>3. StartOf(sizes, 1) = 0
  <2>1. 1 .. 1 - 1 = {}
    OBVIOUS
  <2> QED BY <2>1, SumEmpty DEF StartOf
<1>4. ASSUME NEW i \in DOMAIN sizes
      PROVE  StartOf(sizes, i + 1) = StartOf(sizes, i) + sizes[i]
  <2>1. i \in 1 .. Len(sizes) + 1 /\ 1 .. (i + 1) - 1 = (1 .. i - 1) \cup {i} /\ i \notin 1 .. i - 1
    BY <1>1
  <2>2. /\ IsFiniteSet(1 .. i - 1) /\ \A j \in 1 .. i - 1 : sizes[j] \in Nat
        /\ StartOf(sizes, i) \in Nat /\ sizes[i] \in Nat
    BY <1>1, <1>2, <2>1
  <2>3. SumFunctionOnSet(sizes, (1 .. i - 1) \cup {i}) = sizes[i] + SumFunctionOnSet(sizes, 1 .. i - 1)
    BY <2>1, <2>2, SumAdd
  <2>4. StartOf(sizes, i + 1) = sizes[i] + StartOf(sizes, i)
    BY <2>1, <2>3 DEF StartOf
  <2> QED BY <2>2, <2>4
<1>5. ASSUME NEW i \in 1 .. Len(sizes) + 1, NEW j \in 1 .. Len(sizes) + 1, i <= j
      PROVE  StartOf(sizes, i) <= StartOf(sizes, j)
  <2>1. 1 .. i - 1 \in SUBSET (1 .. j - 1)
    BY <1>1, <1>5
  <2> QED BY <1>2, <2>1, SumSubset DEF StartOf
<1>6. StartOf(sizes, Len(sizes) + 1) = SumFunction(sizes)
  <2>1. 1 .. (Len(sizes) + 1) - 1 = DOMAIN sizes
    BY <1>1
  <2> QED BY <2>1 DEF StartOf, SumFunction
<1> QED BY <1>2, <1>3, <1>4, <1>5, <1>6

\* The sizes that are used are the first ones, up to the end of the prompt.
LEMMA SizesUsed ==
  ASSUME NEW sizes \in Seq(Nat \ {0}), NEW p \in Nat, p > 0, SumFunction(sizes) >= p
  PROVE  LET n == Cardinality({ i \in DOMAIN sizes : StartOf(sizes, i) < p })
         IN  /\ n \in DOMAIN sizes
             /\ \A i \in DOMAIN sizes : StartOf(sizes, i) < p <=> i <= n
             /\ StartOf(sizes, n) + sizes[n] >= p
<1> DEFINE D == { i \in DOMAIN sizes : StartOf(sizes, i) < p }
<1>1. /\ Len(sizes) \in Nat /\ DOMAIN sizes = 1 .. Len(sizes)
      /\ \A i \in DOMAIN sizes : sizes[i] \in Nat
  OBVIOUS
<1>2. /\ StartOf(sizes, 1) = 0
      /\ \A i \in 1 .. Len(sizes) + 1 : StartOf(sizes, i) \in Nat
      /\ \A i \in DOMAIN sizes : StartOf(sizes, i + 1) = StartOf(sizes, i) + sizes[i]
      /\ \A i, j \in 1 .. Len(sizes) + 1 : i <= j => StartOf(sizes, i) <= StartOf(sizes, j)
      /\ StartOf(sizes, Len(sizes) + 1) = SumFunction(sizes)
  BY StartFacts
<1>3. 1 \in D
  <2>1. Len(sizes) # 0
    BY <1>2
  <2> QED BY <1>1, <1>2, <2>1
<1>4. PICK n \in D : \A i \in D : n >= i
  <2>1. D \in SUBSET Nat /\ D # {} /\ \A i \in D : i <= Len(sizes)
    BY <1>1, <1>3
  <2> HIDE DEF D
  <2> QED BY <1>1, <2>1, GreatestMember
<1>5. n \in DOMAIN sizes /\ n \in Nat /\ StartOf(sizes, n) < p
  BY <1>1
<1>6. ASSUME NEW i \in DOMAIN sizes PROVE StartOf(sizes, i) < p <=> i <= n
  <2>1. StartOf(sizes, i) < p => i <= n
    BY <1>1, <1>4
  <2>2. i <= n => StartOf(sizes, i) <= StartOf(sizes, n)
    <3>1. i \in 1 .. Len(sizes) + 1 /\ n \in 1 .. Len(sizes) + 1
      BY <1>1, <1>5
    <3> QED BY <1>2, <3>1
  <2>3. StartOf(sizes, i) \in Nat /\ StartOf(sizes, n) \in Nat
    BY <1>1, <1>2, <1>5
  <2> QED BY <1>5, <2>1, <2>2, <2>3
<1>7. D = 1 .. n
  BY <1>1, <1>5, <1>6
<1>8. Cardinality(D) = n
  BY <1>5, <1>7, IntervalSize
<1>9. StartOf(sizes, n) + sizes[n] >= p
  <2>1. StartOf(sizes, n + 1) = StartOf(sizes, n) + sizes[n]
    BY <1>2, <1>5
  <2>2. StartOf(sizes, n + 1) \in Nat
    BY <1>1, <1>2, <1>5
  <2>3. CASE n = Len(sizes)
    BY <1>2, <2>1, <2>3
  <2>4. CASE n # Len(sizes)
    <3>1. n + 1 \in DOMAIN sizes /\ ~(n + 1 <= n)
      BY <1>1, <1>5, <2>4
    <3> QED BY <1>6, <2>1, <2>2, <3>1
  <2> QED BY <2>3, <2>4
<1> HIDE DEF D
<1> QED BY <1>5, <1>6, <1>8, <1>9 DEF D

\* The sequence that chunk_request_with_sizes returns.
LEMMA SizedFacts ==
  ASSUME NEW r, r.prompt \in Nat, r.prompt > 0, NEW sizes \in Seq(Int), ~SizesRaise(r, sizes)
  PROVE  LET cs == chunk_request_with_sizes(r, sizes)
         IN  /\ sizes \in Seq(Nat \ {0})
             /\ \E n \in DOMAIN sizes :
                  /\ cs = [i \in 1 .. n |->
                             [cid |-> r.doc, idx |-> i - 1, start |-> StartOf(sizes, i),
                              end |-> MinOf(StartOf(sizes, i) + sizes[i], r.prompt)]]
                  /\ \A i \in DOMAIN sizes : StartOf(sizes, i) < r.prompt <=> i <= n
                  /\ StartOf(sizes, n) + sizes[n] >= r.prompt
<1>1. ASSUME NEW i \in DOMAIN sizes PROVE sizes[i] \in Nat \ {0}
  <2>1. sizes[i] \in Int /\ ~(sizes[i] <= 0)
    BY DEF SizesRaise
  <2> QED BY <2>1
<1>2. sizes \in Seq(Nat \ {0})
  BY <1>1
<1>3. SumFunction(sizes) >= r.prompt
  <2>1. SumFunction(sizes) \in Nat
    <3>1. Len(sizes) + 1 \in 1 .. Len(sizes) + 1
      BY <1>2
    <3> QED BY <1>2, <3>1, StartFacts
  <2> QED BY <2>1 DEF SizesRaise
<1> DEFINE n == Cardinality({ i \in DOMAIN sizes : StartOf(sizes, i) < r.prompt })
<1>4. /\ n \in DOMAIN sizes
      /\ \A i \in DOMAIN sizes : StartOf(sizes, i) < r.prompt <=> i <= n
      /\ StartOf(sizes, n) + sizes[n] >= r.prompt
  BY <1>2, <1>3, SizesUsed
<1>5. chunk_request_with_sizes(r, sizes)
        = [i \in 1 .. n |->
             [cid |-> r.doc, idx |-> i - 1, start |-> StartOf(sizes, i),
              end |-> MinOf(StartOf(sizes, i) + sizes[i], r.prompt)]]
  BY DEF chunk_request_with_sizes
<1> HIDE DEF n
<1> QED BY <1>2, <1>4, <1>5

LEMMA SizedTiles ==
  ASSUME NEW r, r.prompt \in Nat, r.prompt > 0, NEW sizes \in Seq(Int), ~SizesRaise(r, sizes)
  PROVE  Tiles(chunk_request_with_sizes(r, sizes), r.prompt)
<1> DEFINE cs == chunk_request_with_sizes(r, sizes)
<1>1. sizes \in Seq(Nat \ {0})
  BY SizedFacts
<1>2. PICK n \in DOMAIN sizes :
        /\ cs = [i \in 1 .. n |->
                   [cid |-> r.doc, idx |-> i - 1, start |-> StartOf(sizes, i),
                    end |-> MinOf(StartOf(sizes, i) + sizes[i], r.prompt)]]
        /\ \A i \in DOMAIN sizes : StartOf(sizes, i) < r.prompt <=> i <= n
        /\ StartOf(sizes, n) + sizes[n] >= r.prompt
  BY SizedFacts
<1> HIDE DEF cs
<1>3. /\ n \in Nat /\ n > 0 /\ Len(sizes) \in Nat /\ n <= Len(sizes) /\ DOMAIN sizes = 1 .. Len(sizes)
      /\ \A i \in 1 .. n : i \in DOMAIN sizes /\ sizes[i] \in Nat /\ sizes[i] > 0
  BY <1>1
<1>4. /\ DOMAIN cs = 1 .. n /\ Len(cs) = n /\ cs # <<>>
      /\ \A i \in 1 .. n :
           /\ cs[i].idx = i - 1 /\ cs[i].start = StartOf(sizes, i)
           /\ cs[i].end = MinOf(StartOf(sizes, i) + sizes[i], r.prompt)
  BY <1>2, <1>3
<1>5. /\ StartOf(sizes, 1) = 0
      /\ \A i \in 1 .. n : StartOf(sizes, i) \in Nat /\ StartOf(sizes, i) < r.prompt
      /\ \A i \in 1 .. n : StartOf(sizes, i + 1) = StartOf(sizes, i) + sizes[i]
  <2>1. \A i \in 1 .. n : i \in 1 .. Len(sizes) + 1 /\ i <= n
    BY <1>3
  <2> QED BY <1>1, <1>2, <1>3, <2>1, StartFacts
<1>6. ASSUME NEW i \in 1 .. n
      PROVE  /\ cs[i].start < cs[i].end
             /\ i < n => cs[i].end = StartOf(sizes, i + 1)
             /\ i = n => cs[i].end = r.prompt
  <2>1. sizes[i] \in Nat /\ sizes[i] > 0 /\ StartOf(sizes, i) \in Nat /\ StartOf(sizes, i) < r.prompt
    BY <1>3, <1>5
  <2>2. i < n => StartOf(sizes, i) + sizes[i] < r.prompt
    <3>1. i < n => i + 1 \in 1 .. n
      BY <1>3
    <3> QED BY <1>5, <3>1
  <2>3. cs[i].start = StartOf(sizes, i) /\ cs[i].end = MinOf(StartOf(sizes, i) + sizes[i], r.prompt)
    BY <1>4
  <2>4. StartOf(sizes, i + 1) = StartOf(sizes, i) + sizes[i]
    BY <1>5
  <2>5. i = n => StartOf(sizes, i) + sizes[i] >= r.prompt
    BY <1>2
  <2> QED BY <2>1, <2>2, <2>3, <2>4, <2>5 DEF MinOf
<1>7. ASSUME NEW i \in 1 .. n, i # 1 PROVE cs[i].start = cs[i - 1].end
  <2>1. i - 1 \in 1 .. n /\ i - 1 < n /\ (i - 1) + 1 = i
    BY <1>3, <1>7
  <2> QED BY <1>4, <1>6, <2>1
<1>8. \A i \in 1 .. n : cs[i].start = IF i = 1 THEN 0 ELSE cs[i - 1].end
  BY <1>4, <1>5, <1>7
<1>9. n \in 1 .. n
  BY <1>3
<1> QED BY <1>4, <1>6, <1>8, <1>9 DEF Tiles, cs

\* Equal sizes: chunk i begins at the i-th multiple of the size.
LEMMA EqualStarts ==
  ASSUME NEW n \in Nat, NEW i \in 1 .. n + 1
  PROVE  StartOf([j \in 1 .. n |-> ChunkSize], i) = (i - 1) * ChunkSize
<1> DEFINE sizes == [j \in 1 .. n |-> ChunkSize]
           B == { j \in 1 .. n + 1 : StartOf(sizes, j) # (j - 1) * ChunkSize }
           R == { p \in B \X B : p[1] < p[2] }
<1>1. /\ ChunkSize \in Nat \ {0} /\ sizes \in Seq(Nat \ {0})
      /\ Len(sizes) = n /\ DOMAIN sizes = 1 .. n /\ \A j \in 1 .. n : sizes[j] = ChunkSize
  BY ChunkingAssumption
<1> HIDE DEF sizes
<1>2. /\ StartOf(sizes, 1) = 0
      /\ \A j \in 1 .. n : StartOf(sizes, j + 1) = StartOf(sizes, j) + ChunkSize
  BY <1>1, StartFacts
<1>3. ASSUME B # {} PROVE FALSE
  <2>1. \A x, y \in B : <<x, y>> \in R <=> x < y
    OBVIOUS
  <2>2. B \subseteq 1 .. n + 1 /\ B \subseteq Nat
    OBVIOUS
  <2>3. IsFiniteSet(B)
    <3>1. IsFiniteSet(1 .. n + 1)
      BY IntervalSize
    <3> QED BY <3>1, FS_Subset
  <2> HIDE DEF B, R
  <2>4. \A x, y, z \in B : <<x, y>> \in R /\ <<y, z>> \in R => <<x, z>> \in R
    <3> SUFFICES ASSUME NEW x \in B, NEW y \in B, NEW z \in B, <<x, y>> \in R, <<y, z>> \in R
                 PROVE  <<x, z>> \in R
      OBVIOUS
    <3>1. x < y /\ y < z /\ x \in Nat /\ y \in Nat /\ z \in Nat
      BY <2>1, <2>2
    <3>2. x < z
      BY <3>1
    <3> QED BY <2>1, <3>2
  <2>5. \A x, y \in B : x # y => <<x, y>> \in R \/ <<y, x>> \in R
    <3> SUFFICES ASSUME NEW x \in B, NEW y \in B, x # y
                 PROVE  <<x, y>> \in R \/ <<y, x>> \in R
      OBVIOUS
    <3>1. x < y \/ y < x
      BY <2>2
    <3> QED BY <2>1, <3>1
  <2>6. PICK j \in B : \A k \in B \ {j} : <<j, k>> \in R
    BY <1>3, <2>3, <2>4, <2>5, LeastMember
  <2>7. j \in 1 .. n + 1 /\ j \in Nat /\ StartOf(sizes, j) # (j - 1) * ChunkSize
    BY <2>2 DEF B
  <2>8. j # 1
    BY <1>1, <1>2, <2>7
  <2>9. j - 1 \in 1 .. n + 1 /\ j - 1 \in 1 .. n /\ j - 1 # j /\ j - 1 \in Nat /\ (j - 1) + 1 = j
        /\ ~(j < j - 1)
    BY <2>7, <2>8
  <2>10. j - 1 \notin B
    BY <2>1, <2>6, <2>9
  <2>11. StartOf(sizes, j - 1) = ((j - 1) - 1) * ChunkSize
    BY <2>9, <2>10 DEF B
  <2>12. (j - 1) * ChunkSize = ((j - 1) - 1) * ChunkSize + ChunkSize
    <3>1. (j - 1) - 1 \in Nat
      BY <2>9
    <3>2. (((j - 1) - 1) + 1) * ChunkSize = ((j - 1) - 1) * ChunkSize + ChunkSize
      BY <1>1, <3>1
    <3>3. ((j - 1) - 1) + 1 = j - 1
      BY <2>9
    <3> QED BY <3>2, <3>3
  <2>13. StartOf(sizes, j) = StartOf(sizes, j - 1) + ChunkSize
    BY <1>2, <2>9
  <2> QED BY <2>7, <2>11, <2>12, <2>13
<1> QED BY <1>3 DEF sizes

\* Equal sizes cut the fixed grid.
LEMMA EqualIsGrid ==
  ASSUME NEW r, r.prompt \in Nat, r.prompt > 0
  PROVE  chunk_request_with_sizes(r, [i \in 1 .. Chunks(r.prompt) |-> ChunkSize])
           = chunk_request(r)
<1> DEFINE n == Chunks(r.prompt)
           sizes == [i \in 1 .. n |-> ChunkSize]
           D == { i \in DOMAIN sizes : StartOf(sizes, i) < r.prompt }
<1>1. /\ n \in Nat /\ ChunkSize \in Nat \ {0}
      /\ \A i \in Nat : i * ChunkSize < r.prompt <=> i < n
      /\ \A i \in Nat : i * ChunkSize \in Nat /\ (i + 1) * ChunkSize = i * ChunkSize + ChunkSize
  BY ChunksFacts
<1> HIDE DEF n
<1>2. \A i \in 1 .. n : i \in Nat /\ i - 1 \in Nat /\ i - 1 < n /\ (i - 1) + 1 = i
  BY <1>1
<1>3. \A i \in 1 .. n : StartOf(sizes, i) = (i - 1) * ChunkSize
  <2>1. \A i \in 1 .. n : i \in 1 .. n + 1
    BY <1>1
  <2> QED BY <1>1, <2>1, EqualStarts
<1>4. DOMAIN sizes = 1 .. n /\ \A i \in 1 .. n : sizes[i] = ChunkSize
  OBVIOUS
<1> HIDE DEF sizes
<1>5. D = 1 .. n
  BY <1>1, <1>2, <1>3, <1>4
<1>6. Cardinality(D) = n
  BY <1>1, <1>5, IntervalSize
<1>7. \A i \in 1 .. n : StartOf(sizes, i) + sizes[i] = i * ChunkSize
  <2> SUFFICES ASSUME NEW i \in 1 .. n PROVE StartOf(sizes, i) + sizes[i] = i * ChunkSize
    OBVIOUS
  <2>1. ((i - 1) + 1) * ChunkSize = (i - 1) * ChunkSize + ChunkSize /\ (i - 1) + 1 = i
    BY <1>1, <1>2
  <2> QED BY <1>3, <1>4, <2>1
<1>8. chunk_request_with_sizes(r, sizes)
        = [i \in 1 .. Cardinality(D) |->
             [cid |-> r.doc, idx |-> i - 1, start |-> StartOf(sizes, i),
              end |-> MinOf(StartOf(sizes, i) + sizes[i], r.prompt)]]
  BY DEF chunk_request_with_sizes
<1> HIDE DEF D
<1>9. chunk_request_with_sizes(r, sizes)
        = [i \in 1 .. n |->
             [cid |-> r.doc, idx |-> i - 1, start |-> (i - 1) * ChunkSize,
              end |-> MinOf(i * ChunkSize, r.prompt)]]
  BY <1>3, <1>6, <1>7, <1>8
<1> QED BY <1>9 DEF chunk_request, n, sizes

\* The two degenerate prefix splits.
LEMMA DegenerateSplits ==
  ASSUME NEW k \in Nat, NEW r \in RequestsOf(k)
  PROVE  LET split(n) == chunk_request_with_prefix_split([r EXCEPT !.shared = n])
         IN  /\ split(r.prompt) = chunk_request(r)
             /\ Ranges(split(0)) = Ranges(chunk_request(r))
<1> DEFINE split(n) == chunk_request_with_prefix_split([r EXCEPT !.shared = n])
           m == Chunks(r.prompt)
<1>1. r.prompt \in Nat /\ r.shared \in Nat
  BY RequestFields
<1>2. \A n : /\ [r EXCEPT !.shared = n].prompt = r.prompt
             /\ [r EXCEPT !.shared = n].doc = r.doc
             /\ [r EXCEPT !.shared = n].id = r.id
             /\ [r EXCEPT !.shared = n].shared = n
  BY DEF RequestsOf
<1>3. Chunks(0) = 0 /\ m \in Nat
  <2>1. Chunks(0) \in Nat /\ (0 * ChunkSize < 0 <=> 0 < Chunks(0)) /\ ChunkSize \in Nat
    BY ChunksFacts
  <2>2. m \in Nat
    BY <1>1, ChunksFacts
  <2> QED BY <2>1, <2>2
<1>4. r.prompt - r.prompt = 0 /\ r.prompt - 0 = r.prompt
  BY <1>1
<1>5. split(r.prompt) = chunk_request(r)
  <2>1. split(r.prompt)
          = [i \in 1 .. m + 0 |->
              IF i <= m
              THEN [cid |-> r.doc, idx |-> i - 1, start |-> (i - 1) * ChunkSize,
                    end |-> MinOf(i * ChunkSize, r.prompt)]
              ELSE [cid |-> NumDocuments + r.id, idx |-> i - 1,
                    start |-> r.prompt + (i - 1 - m) * ChunkSize,
                    end |-> MinOf(r.prompt + (i - m) * ChunkSize, r.prompt)]]
    BY <1>2, <1>3, <1>4 DEF chunk_request_with_prefix_split
  <2> HIDE DEF split, m
  <2>2. m + 0 = m /\ \A i \in 1 .. m : i <= m
    BY <1>3
  <2>3. split(r.prompt)
          = [i \in 1 .. m |->
              [cid |-> r.doc, idx |-> i - 1, start |-> (i - 1) * ChunkSize,
               end |-> MinOf(i * ChunkSize, r.prompt)]]
    BY <2>1, <2>2
  <2> QED BY <2>3 DEF chunk_request, m
<1>6. Ranges(split(0)) = Ranges(chunk_request(r))
  <2> DEFINE z == Chunks(0)
             q == Chunks(r.prompt - 0)
  <2>0. split(0)
          = [i \in 1 .. z + q |->
              IF i <= z
              THEN [cid |-> r.doc, idx |-> i - 1, start |-> (i - 1) * ChunkSize,
                    end |-> MinOf(i * ChunkSize, 0)]
              ELSE [cid |-> NumDocuments + r.id, idx |-> i - 1,
                    start |-> 0 + (i - 1 - z) * ChunkSize,
                    end |-> MinOf(0 + (i - z) * ChunkSize, r.prompt)]]
    BY <1>2 DEF chunk_request_with_prefix_split
  <2>1. z = 0 /\ q = m
    BY <1>3, <1>4
  <2> HIDE DEF z, q
  <2>2. chunk_request(r)
          = [i \in 1 .. m |->
              [cid |-> r.doc, idx |-> i - 1, start |-> (i - 1) * ChunkSize,
               end |-> MinOf(i * ChunkSize, r.prompt)]]
    BY DEF chunk_request
  <2> HIDE DEF split, m
  <2>3. 0 + m = m
    BY <1>3
  <2>4. ASSUME NEW i \in 1 .. m PROVE extent(split(0)[i]) = extent(chunk_request(r)[i])
    <3>1. i \in Nat /\ i - 1 \in Nat /\ ~(i <= 0) /\ i - 1 - 0 = i - 1 /\ i - 0 = i
      BY <1>3
    <3>2. 0 + (i - 1) * ChunkSize = (i - 1) * ChunkSize /\ 0 + i * ChunkSize = i * ChunkSize
      <4>1. (i - 1) * ChunkSize \in Nat /\ i * ChunkSize \in Nat
        BY <3>1, ChunksFacts
      <4> QED BY <4>1
    <3>3. /\ split(0)[i].start = (i - 1) * ChunkSize
          /\ split(0)[i].end = MinOf(i * ChunkSize, r.prompt)
      <4>1. i \in 1 .. z + q /\ ~(i <= z) /\ i - 1 - z = i - 1 /\ i - z = i
        BY <2>1, <2>3, <3>1
      <4>2. split(0)[i] = [cid |-> NumDocuments + r.id, idx |-> i - 1,
                           start |-> 0 + (i - 1 - z) * ChunkSize,
                           end |-> MinOf(0 + (i - z) * ChunkSize, r.prompt)]
        BY <2>0, <4>1, Zenon
      <4>3. (i - 1 - z) * ChunkSize = (i - 1) * ChunkSize /\ (i - z) * ChunkSize = i * ChunkSize
        BY <4>1
      <4> QED BY <3>2, <4>2, <4>3
    <3>4. /\ chunk_request(r)[i].start = (i - 1) * ChunkSize
          /\ chunk_request(r)[i].end = MinOf(i * ChunkSize, r.prompt)
      BY <2>2
    <3> QED BY <3>3, <3>4 DEF extent
  <2>5. DOMAIN split(0) = 1 .. m /\ DOMAIN chunk_request(r) = 1 .. m
    BY <2>0, <2>1, <2>2, <2>3
  <2> QED BY <2>4, <2>5 DEF Ranges
<1> QED BY <1>5, <1>6

\* Each of the three cutters tiles every prompt of the workload, and they
\* agree where they should: equal sizes give the fixed grid, and so does a
\* prefix split of a prompt that is shared wholly or not at all.
THEOREM CuttersDoAgree == ScriptSpec => []CuttersAgree
<1> DEFINE Made == made \in Nat /\ (made > 0 => request \in RequestsOf(made - 1))
<1>1. ScriptInit => Made
  BY DEF ScriptInit
<1>2. Made /\ [ScriptNext]_scriptVars => Made'
  <2> SUFFICES ASSUME Made, [ScriptNext]_scriptVars PROVE Made'
    OBVIOUS
  <2>1. CASE Cut
    BY <2>1 DEF Cut
  <2>2. CASE UNCHANGED <<made, request>>
    BY <2>2
  <2> QED BY <2>1, <2>2 DEF ScriptNext, Store, scriptVars
<1>3. ASSUME Made PROVE CuttersAgree
  <2> SUFFICES ASSUME made > 0 PROVE CuttersAgree
    BY DEF CuttersAgree
  <2>1. made - 1 \in Nat /\ request \in RequestsOf(made - 1)
    BY <1>3
  <2>2. /\ request.prompt \in Nat /\ request.prompt > 0
        /\ request.shared \in Nat /\ request.shared <= request.prompt
    <3>1. request.shared \in Nat /\ request.prompt \in Nat
      BY <2>1, RequestFields
    <3>2. request.prompt - request.shared \in PrivateMin .. PrivateMax
      BY <2>1 DEF RequestsOf
    <3> QED BY <3>1, <3>2, WorkloadAssumption
  <2>3. [request EXCEPT !.shared = request.shared] = request
    BY <2>1 DEF RequestsOf
  <2>4. Tiles(chunk_request(request), request.prompt)
    BY <2>2, GridTiles
  <2>5. Tiles(chunk_request_with_prefix_split([request EXCEPT !.shared = request.shared]),
              request.prompt)
    BY <2>2, <2>3, SplitTiles
  <2>6. ASSUME NEW sizes \in SizeLists, ~SizesRaise(request, sizes)
        PROVE  Tiles(chunk_request_with_sizes(request, sizes), request.prompt)
    <3>1. sizes \in Seq(Int)
      BY SizesAssumption
    <3> QED BY <2>2, <2>6, <3>1, SizedTiles
  <2>7. chunk_request_with_sizes(request, [i \in 1 .. Chunks(request.prompt) |-> ChunkSize])
          = chunk_request(request)
    BY <2>2, EqualIsGrid
  <2>8. /\ chunk_request_with_prefix_split([request EXCEPT !.shared = request.prompt])
             = chunk_request(request)
        /\ Ranges(chunk_request_with_prefix_split([request EXCEPT !.shared = 0]))
             = Ranges(chunk_request(request))
    BY <2>1, DegenerateSplits
  <2> QED BY <2>4, <2>5, <2>6, <2>7, <2>8 DEF CuttersAgree
<1> QED BY <1>1, <1>2, <1>3, PTL DEF ScriptSpec

=============================================================================
