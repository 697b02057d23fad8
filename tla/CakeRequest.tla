----------------------------- MODULE CakeRequest ----------------------------
(***************************************************************************)
(* The Cake scheduler on one request, against arbitrary contents of the    *)
(* memory tiers.                                                           *)
(***************************************************************************)
EXTENDS CakeScheduler, FiniteSetsExt

cakeVars == <<tiers, chunkingVars, plan, frontVars>>

\* Tier contents: under the key of a document chunk nothing, or an entry of
\* some coverage, in every tier independently.
DocumentKeys == { <<d, i>> : d \in Documents, i \in 0 .. (SharedMax - 1) \div ChunkSize }

EntriesAt(key) ==
  { [start |-> key[2] * ChunkSize, end |-> e] :
      e \in key[2] * ChunkSize + 1 .. (key[2] + 1) * ChunkSize }

DictsOver(S) ==
  { d \in [S -> UNION { EntriesAt(k) : k \in S }] : \A k \in S : d[k] \in EntriesAt(k) }

Dicts == UNION { DictsOver(S) : S \in SUBSET DocumentKeys }

CakeInit ==
  /\ tiers \in [Tiers -> Dicts]
  /\ phase = "split"
  /\ request \in RequestsOf(0)
  /\ pos = 0
  /\ chunks = <<>>
  /\ plan = <<>>
  /\ computeIndex = 1 /\ loadIndex = 0 /\ sweepIndex = 1
  /\ computeTime = 0 /\ loadTime = 0

Split == SplitStep /\ UNCHANGED <<plan, frontVars>>

Cake == CakeStep /\ UNCHANGED <<request, pos, chunks>>

CakeNext == (Split \/ StartScan \/ Cake) /\ UNCHANGED tiers

CakeSpec == CakeInit /\ [][CakeNext]_cakeVars /\ WF_cakeVars(CakeNext)

-----------------------------------------------------------------------------
\* The chunks tile the prompt from token 0 without gap or overlap, none
\* straddles the end of the shared prefix, none is longer than ChunkSize, and
\* only a chunk at the end of a region is shorter (models.py, the split).
ChunksTilePrompt ==
  /\ \A i \in DOMAIN chunks :
       /\ chunks[i].idx = i - 1
       /\ chunks[i].start = IF i = 1 THEN 0 ELSE chunks[i - 1].end
       /\ chunks[i].start < chunks[i].end
       /\ chunks[i].end <= request.shared \/ chunks[i].start >= request.shared
       /\ token_count(chunks[i]) <= ChunkSize
       /\ token_count(chunks[i]) < ChunkSize =>
            chunks[i].end \in {request.shared, request.prompt}
  /\ chunks # <<>> => chunks[Len(chunks)].end = pos
  /\ phase # "split" => pos = request.prompt

\* Coverage is compared by end_token alone; that is sound because a chunk of
\* a document always starts at chunk_index * chunk_size_tokens.
DocumentChunksAligned ==
  \A i \in DOMAIN chunks :
    /\ chunks[i].cid = request.doc <=> chunks[i].end <= request.shared
    /\ chunks[i].cid = request.doc => chunks[i].start = chunks[i].idx * ChunkSize

\* "assert all(scheduled)": when the schedule is built every chunk has an
\* operation, and a chunk is loaded only from a tier that covers its range.
ScheduleIsComplete ==
  /\ phase = "scheduled" => \A i \in DOMAIN plan : Scheduled(i)
  /\ \A i \in DOMAIN plan :
       plan[i].action = "load" => Covers(plan[i].source, chunks[i])

\* An operation once committed is never revised: the fronts and the sweep
\* never claim the same chunk twice.
CommitmentsAreFinal ==
  [][\A i \in DOMAIN plan : Scheduled(i) => plan'[i] = plan[i]]_cakeVars

\* The sweep only ever finds chunks no tier can serve: a loadable chunk is
\* always claimed by one of the fronts before they cross.
SweepLeavesNothingLoadable ==
  phase = "sweep" =>
    \A i \in DOMAIN plan : ~Scheduled(i) => find_cached(chunks[i]) = NoTier

TotalComputeTime ==
  SumFunction([i \in DOMAIN chunks |-> estimate_compute_time(chunks[i])])

\* Loading in parallel never costs anything: the estimated TTFT is at most
\* the time of recomputing the whole prompt.
NeverWorseThanComputeOnly ==
  phase = "scheduled" => total_estimated_ttft <= TotalComputeTime

\* Every request gets its schedule.
ScheduleIsBuilt == <>(phase = "scheduled")

=============================================================================
