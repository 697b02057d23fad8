----------------------------- MODULE CakeProofs -----------------------------
(***************************************************************************)
(* The Cake scheduler on one request, for every cost model and whatever    *)
(* the tiers hold: how the prompt is split, that the schedule is complete  *)
(* and sound, and the bounds on its two clocks.                            *)
(***************************************************************************)
EXTENDS CakeTimeline, ScheduleTheorems

TiersTyped ==
  /\ DOMAIN tiers = Tiers
  /\ \A t \in Tiers : IsDict(tiers[t], Extent)

\* Where the fronts stand in each phase.
FrontsOrdered ==
  /\ phase \in {"split", "scan", "sweep", "scheduled"}
  /\ phase = "split" =>
       /\ plan = <<>>
       /\ computeIndex = 1 /\ sweepIndex = 1
       /\ computeTime = 0 /\ loadTime = 0
  /\ phase = "scan" => computeIndex <= loadIndex + 1 /\ sweepIndex = 1
  /\ phase \in {"sweep", "scheduled"} => computeIndex = loadIndex + 1
  /\ phase = "scheduled" => sweepIndex > Len(chunks)

\* The tier that can serve each chunk, or NoTier.
Source == [i \in DOMAIN chunks |-> find_cached(chunks[i])]

\* What the plan says of a chunk follows from where the fronts are: the
\* compute front left a computation, the I/O front a load or a gap, and the
\* sweep has filled the gaps behind it.
PlannedAt(i) ==
  IF i < computeIndex THEN Recompute
  ELSE IF i <= loadIndex THEN Unscheduled
  ELSE IF Source[i] # NoTier THEN Load(Source[i])
  ELSE IF i < sweepIndex THEN Recompute ELSE Unscheduled

PlanFollowsFronts ==
  phase # "split" => \A i \in DOMAIN chunks : plan[i] = PlannedAt(i)

\* What each chunk costs when it is computed, and when it is loaded if it can be.
ComputeCost == [i \in DOMAIN chunks |-> estimate_compute_time(chunks[i])]

LoadCost ==
  [i \in DOMAIN chunks |->
     IF i \in Loadable
     THEN estimate_load_time(chunks[i], find_cached(chunks[i]))
     ELSE estimate_compute_time(chunks[i])]

Computed == { i \in DOMAIN chunks : plan[i] = Recompute }

Loaded == { i \in DOMAIN chunks : plan[i].action = "load" }

Swept == { i \in DOMAIN chunks : i < sweepIndex }

\* Each clock is the sum of the costs of its operations, and is bounded by
\* what the other front would have taken for more chunks than it has left.
ClocksAddUp ==
  phase # "split" =>
    /\ computeTime = SumFunctionOnSet(ComputeCost, Computed)
    /\ loadTime = SumFunctionOnSet(LoadCost, Loaded)
    /\ loadTime <= SumFunctionOnSet(ComputeCost, DOMAIN chunks)
    /\ computeTime <= SumFunctionOnSet(LoadCost, Loadable \cup Swept)

CakeInv ==
  /\ TiersTyped
  /\ ScheduleShape
  /\ Tiling /\ request.prompt > 0
  /\ FrontsOrdered
  /\ PlanFollowsFronts
  /\ ClocksAddUp
  /\ FrontsStayBalanced

-----------------------------------------------------------------------------
(* The costs and the lookup, which no step of the scheduler changes.       *)

LEMMA CostFacts ==
  ASSUME ScheduleTypeOK
  PROVE  /\ DOMAIN chunks = 1 .. Len(chunks) /\ Len(chunks) \in Nat
         /\ IsFiniteSet(DOMAIN chunks)
         /\ \A i \in DOMAIN chunks : chunks[i] \in Chunk
         /\ \A i \in DOMAIN chunks : ComputeCost[i] \in Nat /\ LoadCost[i] \in Nat
         /\ \A i \in DOMAIN chunks \ Loadable : LoadCost[i] = ComputeCost[i]
         /\ \A i \in Loadable :
              LoadCost[i] = estimate_load_time(chunks[i], find_cached(chunks[i]))
         /\ Loadable \in SUBSET DOMAIN chunks
         /\ DOMAIN ComputeCost = DOMAIN chunks /\ DOMAIN LoadCost = DOMAIN chunks
<1>1. /\ DOMAIN chunks = 1 .. Len(chunks) /\ Len(chunks) \in Nat
      /\ \A i \in DOMAIN chunks : chunks[i] \in Chunk
  BY DEF ScheduleTypeOK
<1>2. IsFiniteSet(DOMAIN chunks)
  BY <1>1, FS_Interval
<1>3. \A i \in DOMAIN chunks : ComputeCost[i] = estimate_compute_time(chunks[i])
  BY DEF ComputeCost
<1>4. /\ \A i \in DOMAIN chunks \ Loadable : LoadCost[i] = estimate_compute_time(chunks[i])
      /\ \A i \in Loadable :
           LoadCost[i] = estimate_load_time(chunks[i], find_cached(chunks[i]))
      /\ Loadable \in SUBSET DOMAIN chunks
  BY DEF LoadCost, Loadable
<1>5. ASSUME NEW i \in DOMAIN chunks PROVE ComputeCost[i] \in Nat /\ LoadCost[i] \in Nat
  <2>1. estimate_compute_time(chunks[i]) \in Nat
    BY <1>1, EstimatesAreNat, ChunkingAssumption, CostAssumption
  <2>2. CASE i \in Loadable
    <3>1. find_cached(chunks[i]) \in Tiers
      BY <1>1, <2>2, FindCachedFacts, TierAssumption, CostAssumption DEF Loadable
    <3>2. estimate_load_time(chunks[i], find_cached(chunks[i])) \in Nat
      BY <1>1, <3>1, EstimatesAreNat, ChunkingAssumption, CostAssumption
    <3> QED BY <1>3, <1>4, <2>1, <2>2, <3>2
  <2> QED BY <1>3, <1>4, <2>1, <2>2
<1>6. DOMAIN ComputeCost = DOMAIN chunks /\ DOMAIN LoadCost = DOMAIN chunks
  BY DEF ComputeCost, LoadCost
<1> QED BY <1>1, <1>2, <1>3, <1>4, <1>5, <1>6

\* The tiers are read and never changed, so the lookup answers the same
\* throughout a schedule.
LEMMA LookupKept ==
  ASSUME UNCHANGED <<tiers, chunks>>
  PROVE  /\ Source' = Source /\ ComputeCost' = ComputeCost /\ LoadCost' = LoadCost /\ Loadable' = Loadable
         /\ LongestCompute' = LongestCompute /\ LongestLoad' = LongestLoad
<1>1. tiers' = tiers /\ chunks' = chunks
  OBVIOUS
<1>2. ComputeCost' = ComputeCost /\ LongestCompute' = LongestCompute
  BY <1>1 DEF ComputeCost, LongestCompute
<1>3. Source' = Source /\ Loadable' = Loadable
  BY <1>1 DEF Source, Loadable, find_cached, Hits, Covers, FirstHolder, Present
<1>4. LoadCost' = LoadCost /\ LongestLoad' = LongestLoad
  BY <1>1 DEF LoadCost, LongestLoad, Loadable, find_cached, Hits, Covers, FirstHolder, Present
<1> QED BY <1>2, <1>3, <1>4

\* The largest of finitely many numbers.
LEMMA MaxFacts ==
  ASSUME NEW S, S \subseteq Nat, S # {}, NEW n \in Nat, \A x \in S : x <= n
  PROVE  Max(S) \in S /\ \A x \in S : x <= Max(S)
<1>1. PICK x \in S : \A y \in S : x >= y
  BY GreatestMember
<1>2. Max(S) \in S /\ \A y \in S : Max(S) >= y
  BY <1>1 DEF Max
<1>3. \A y \in S : Max(S) \in Nat /\ y \in Nat
  BY <1>2
<1> QED BY <1>2, <1>3

\* The two bounds of FrontsStayBalanced are at least the costs they bound.
LEMMA LongestFacts ==
  ASSUME ScheduleTypeOK
  PROVE  /\ LongestLoad \in Nat
         /\ \A i \in Loadable : LoadCost[i] <= LongestLoad
         /\ chunks # <<>> => LongestCompute \in Nat
         /\ \A i \in DOMAIN chunks : ComputeCost[i] <= LongestCompute
<1> DEFINE C == { estimate_compute_time(chunks[i]) : i \in DOMAIN chunks }
           L == { estimate_load_time(chunks[i], find_cached(chunks[i])) : i \in Loadable }
                  \cup {0}
           mc == SumFunctionOnSet(ComputeCost, DOMAIN chunks)
           ml == SumFunctionOnSet(LoadCost, DOMAIN chunks)
<1>1. /\ DOMAIN chunks = 1 .. Len(chunks) /\ Len(chunks) \in Nat
      /\ IsFiniteSet(DOMAIN chunks)
      /\ \A i \in DOMAIN chunks : ComputeCost[i] \in Nat /\ LoadCost[i] \in Nat
      /\ \A i \in Loadable :
           LoadCost[i] = estimate_load_time(chunks[i], find_cached(chunks[i]))
      /\ Loadable \in SUBSET DOMAIN chunks
  BY CostFacts
<1>2. \A i \in DOMAIN chunks : ComputeCost[i] = estimate_compute_time(chunks[i])
  BY DEF ComputeCost
<1>3. mc \in Nat /\ ml \in Nat
  BY <1>1, SumType
<1>4. ASSUME NEW i \in DOMAIN chunks PROVE ComputeCost[i] <= mc /\ LoadCost[i] <= ml
  <2>1. /\ IsFiniteSet(DOMAIN chunks \ {i})
        /\ \A j \in DOMAIN chunks \ {i} : ComputeCost[j] \in Nat /\ LoadCost[j] \in Nat
    BY <1>1, FS_Subset
  <2>2. /\ SumFunctionOnSet(ComputeCost, DOMAIN chunks \ {i}) \in Nat
        /\ SumFunctionOnSet(LoadCost, DOMAIN chunks \ {i}) \in Nat
    BY <2>1, SumType
  <2>3. mc = ComputeCost[i] + SumFunctionOnSet(ComputeCost, DOMAIN chunks \ {i})
    BY <1>1, SumRemove
  <2>4. ml = LoadCost[i] + SumFunctionOnSet(LoadCost, DOMAIN chunks \ {i})
    BY <1>1, SumRemove
  <2> HIDE DEF mc, ml
  <2> QED BY <1>1, <2>2, <2>3, <2>4
<1> HIDE DEF mc, ml
<1>5. C \subseteq Nat /\ (\A x \in C : x <= mc) /\ (chunks # <<>> => C # {})
  <2>1. \A x \in C : \E i \in DOMAIN chunks : x = ComputeCost[i]
    BY <1>2
  <2>2. chunks # <<>> => 1 \in DOMAIN chunks
    BY <1>1 DEF ScheduleTypeOK
  <2>3. chunks # <<>> => C # {}
    BY <2>2
  <2> HIDE DEF C
  <2>4. ASSUME NEW x \in C PROVE x \in Nat /\ x <= mc
    <3>1. PICK i \in DOMAIN chunks : x = ComputeCost[i]
      BY <2>1
    <3> QED BY <1>1, <1>4, <3>1
  <2> QED BY <2>3, <2>4
<1>6. L \subseteq Nat /\ (\A x \in L : x <= ml) /\ L # {}
  <2>1. ASSUME NEW x \in L PROVE x \in Nat /\ x <= ml
    <3>1. CASE x = 0
      BY <1>3, <3>1
    <3>2. CASE \E i \in Loadable : x = LoadCost[i]
      BY <1>1, <1>4, <3>2
    <3> QED BY <1>1, <3>1, <3>2
  <2> QED BY <2>1
<1>7. LongestCompute = Max(C) /\ LongestLoad = Max(L)
  BY DEF LongestCompute, LongestLoad
<1>8. /\ \A i \in DOMAIN chunks : ComputeCost[i] \in C
      /\ \A i \in Loadable : LoadCost[i] \in L
  BY <1>1, <1>2
<1> HIDE DEF C, L
<1>9. Max(L) \in L /\ \A x \in L : x <= Max(L)
  BY <1>3, <1>6, MaxFacts
<1>10. C # {} => Max(C) \in C /\ \A x \in C : x <= Max(C)
  BY <1>3, <1>5, MaxFacts
<1> QED BY <1>5, <1>6, <1>7, <1>8, <1>9, <1>10

-----------------------------------------------------------------------------
(* The fronts and the plan.                                                *)

LEMMA SourceFacts ==
  ASSUME ScheduleTypeOK, NEW i \in DOMAIN chunks
  PROVE  /\ Source[i] = find_cached(chunks[i])
         /\ i \in Loadable <=> Source[i] # NoTier
         /\ Source[i] # NoTier => Source[i] \in Tiers /\ Covers(Source[i], chunks[i])
         /\ PlannedAt(i) = Unscheduled <=>
              /\ i >= computeIndex
              /\ i <= loadIndex \/ (Source[i] = NoTier /\ i >= sweepIndex)
         /\ PlannedAt(i).action = "load" => Source[i] # NoTier /\ PlannedAt(i) = Load(Source[i])
<1>1. Source[i] = find_cached(chunks[i]) /\ (i \in Loadable <=> Source[i] # NoTier)
  BY DEF Source, Loadable
<1>2. chunks[i] \in Chunk /\ i \in Nat
  BY CostFacts
<1>3. Source[i] # NoTier => Source[i] \in Tiers /\ Covers(Source[i], chunks[i])
  BY SMTT(30), <1>1, <1>2, FindCachedFacts, TierAssumption, CostAssumption
<1>4. computeIndex \in Nat /\ loadIndex \in Nat /\ sweepIndex \in Nat
  BY DEF ScheduleTypeOK
<1>5. /\ Recompute # Unscheduled /\ Recompute.action # "load" /\ Unscheduled.action # "load"
      /\ Load(Source[i]) # Unscheduled
  BY DEF Recompute, Unscheduled, Load
<1>6. /\ PlannedAt(i) = Unscheduled <=>
           /\ i >= computeIndex
           /\ i <= loadIndex \/ (Source[i] = NoTier /\ i >= sweepIndex)
      /\ PlannedAt(i).action = "load" => Source[i] # NoTier /\ PlannedAt(i) = Load(Source[i])
  BY <1>2, <1>4, <1>5 DEF PlannedAt
<1> QED BY <1>1, <1>3, <1>6

\* The facts that every step of the scheduler starts from.
LEMMA StepFacts ==
  ASSUME CakeInv, CakeStep, UNCHANGED <<tiers, request, pos, chunks>>
  PROVE  /\ DOMAIN chunks = 1 .. Len(chunks) /\ Len(chunks) \in Nat
         /\ computeIndex \in Nat \ {0} /\ loadIndex \in Nat /\ sweepIndex \in Nat \ {0}
         /\ computeTime \in Nat /\ loadTime \in Nat
         /\ DOMAIN plan = DOMAIN chunks
         /\ \A i \in DOMAIN chunks : plan[i] = PlannedAt(i)
         /\ Source' = Source /\ ScheduleTypeOK /\ phase # "split"
         /\ phase = "scan" => loadIndex <= Len(chunks)
<1>1. phase # "split" /\ ScheduleShape /\ ScheduleTypeOK
  BY CakeShape DEF CakeInv, ScheduleShape
<1>2. Source' = Source
  BY LookupKept
<1>3. DOMAIN chunks = 1 .. Len(chunks) /\ Len(chunks) \in Nat
  BY <1>1, CostFacts
<1> QED BY <1>1, <1>2, <1>3 DEF CakeInv, ScheduleShape, ScheduleTypeOK, PlanFollowsFronts

LEMMA PlanStep ==
  ASSUME CakeInv, CakeStep, UNCHANGED <<tiers, request, pos, chunks>>
  PROVE  FrontsOrdered' /\ PlanFollowsFronts'
<1>1. /\ DOMAIN chunks = 1 .. Len(chunks) /\ Len(chunks) \in Nat
      /\ computeIndex \in Nat \ {0} /\ loadIndex \in Nat /\ sweepIndex \in Nat \ {0}
      /\ DOMAIN plan = DOMAIN chunks
      /\ \A i \in DOMAIN chunks : plan[i] = PlannedAt(i)
      /\ Source' = Source /\ ScheduleTypeOK /\ phase # "split"
      /\ phase = "scan" => loadIndex <= Len(chunks)
  BY StepFacts
<1>2. /\ phase = "scan" => computeIndex <= loadIndex + 1 /\ sweepIndex = 1
      /\ phase = "sweep" => computeIndex = loadIndex + 1
  BY DEF CakeInv, FrontsOrdered
<1>3. chunks' = chunks
  OBVIOUS
<1>4. \A i \in DOMAIN chunks : Source[i] = find_cached(chunks[i])
  BY <1>1, SourceFacts
<1>5. CASE SkipUncached
  BY <1>1, <1>2, <1>3, <1>4, <1>5 DEF SkipUncached, Scanning, FrontsOrdered, PlanFollowsFronts, PlannedAt
<1>6. CASE ClaimLoad
  BY <1>1, <1>2, <1>3, <1>4, <1>6 DEF ClaimLoad, Scanning, FrontsOrdered, PlanFollowsFronts, PlannedAt
<1>7. CASE ClaimCompute
  BY <1>1, <1>2, <1>3, <1>4, <1>7 DEF ClaimCompute, Scanning, FrontsOrdered, PlanFollowsFronts, PlannedAt
<1>8. CASE FrontsCross
  BY <1>1, <1>2, <1>3, <1>8 DEF FrontsCross, frontVars, Scanning, FrontsOrdered, PlanFollowsFronts, PlannedAt
<1>9. CASE SweepChunk
  <2>1. /\ phase' = phase /\ phase = "sweep" /\ sweepIndex \in DOMAIN chunks
        /\ sweepIndex' = sweepIndex + 1
        /\ computeIndex' = computeIndex /\ loadIndex' = loadIndex
        /\ computeIndex = loadIndex + 1
    BY <1>1, <1>2, <1>9 DEF SweepChunk
  <2>2. \A i \in DOMAIN chunks :
          plan'[i] = IF i = sweepIndex /\ plan[i] = Unscheduled THEN Recompute ELSE plan[i]
    BY <1>1, <1>9, <2>1 DEF SweepChunk, Scheduled
  <2>3. ASSUME NEW i \in DOMAIN chunks, i = sweepIndex
        PROVE  plan[i] = Unscheduled <=> i >= computeIndex /\ Source[i] = NoTier
    <3>1. PlannedAt(i) = Unscheduled <=>
            /\ i >= computeIndex
            /\ i <= loadIndex \/ (Source[i] = NoTier /\ i >= sweepIndex)
      BY <1>1, SourceFacts
    <3>2. plan[i] = PlannedAt(i)
      BY <1>1
    <3> HIDE DEF PlannedAt
    <3> QED BY <1>1, <2>1, <2>3, <3>1, <3>2
  <2>4. ASSUME NEW i \in DOMAIN chunks PROVE plan'[i] = PlannedAt(i)'
    <3>1. CASE i = sweepIndex
      <4>1. plan'[i] = IF i >= computeIndex /\ Source[i] = NoTier THEN Recompute ELSE plan[i]
        BY <2>2, <2>3, <3>1
      <4>2. plan[i] = PlannedAt(i)
        BY <1>1
      <4> QED BY <1>1, <1>3, <2>1, <3>1, <4>1, <4>2 DEF PlannedAt
    <3>2. CASE i # sweepIndex
      BY <1>1, <1>3, <2>1, <2>2, <3>2 DEF PlannedAt
    <3> QED BY <3>1, <3>2
  <2> QED BY <1>3, <2>1, <2>4 DEF FrontsOrdered, PlanFollowsFronts
<1>10. CASE SweepDone
  BY <1>1, <1>2, <1>3, <1>10 DEF SweepDone, frontVars, FrontsOrdered, PlanFollowsFronts, PlannedAt
<1> QED BY <1>5, <1>6, <1>7, <1>8, <1>9, <1>10 DEF CakeStep

-----------------------------------------------------------------------------
(* The clocks.                                                             *)

ComputeSum(T) == SumFunctionOnSet(ComputeCost, T)

LoadSum(T) == SumFunctionOnSet(LoadCost, T)

LEMMA SumFacts ==
  ASSUME ScheduleTypeOK, NEW T \in SUBSET DOMAIN chunks
  PROVE  /\ ComputeSum(T) \in Nat /\ LoadSum(T) \in Nat
         /\ \A U \in SUBSET T : ComputeSum(U) <= ComputeSum(T) /\ LoadSum(U) <= LoadSum(T)
         /\ \A i \in DOMAIN chunks \ T :
              /\ ComputeSum(T \cup {i}) = ComputeSum(T) + ComputeCost[i]
              /\ LoadSum(T \cup {i}) = LoadSum(T) + LoadCost[i]
<1>1. /\ IsFiniteSet(T) /\ \A i \in T : ComputeCost[i] \in Nat /\ LoadCost[i] \in Nat
      /\ \A i \in DOMAIN chunks : ComputeCost[i] \in Nat /\ LoadCost[i] \in Nat
  BY CostFacts, FS_Subset
<1>2. ComputeSum(T) \in Nat /\ LoadSum(T) \in Nat
  BY <1>1, SumType DEF ComputeSum, LoadSum
<1>3. ASSUME NEW U \in SUBSET T
      PROVE  ComputeSum(U) <= ComputeSum(T) /\ LoadSum(U) <= LoadSum(T)
  BY <1>1, SumSubset DEF ComputeSum, LoadSum
<1>4. ASSUME NEW i \in DOMAIN chunks \ T
      PROVE  /\ ComputeSum(T \cup {i}) = ComputeSum(T) + ComputeCost[i]
             /\ LoadSum(T \cup {i}) = LoadSum(T) + LoadCost[i]
  <2>1. ComputeSum(T \cup {i}) = ComputeCost[i] + ComputeSum(T)
    BY <1>1, SumAdd DEF ComputeSum
  <2>2. LoadSum(T \cup {i}) = LoadCost[i] + LoadSum(T)
    BY <1>1, SumAdd DEF LoadSum
  <2> QED BY <1>1, <1>2, <2>1, <2>2
<1> QED BY <1>2, <1>3, <1>4

\* The chunks under the two fronts are not committed yet, and their costs are
\* what the next step of each front adds to its clock.
LEMMA ScanFacts ==
  ASSUME CakeInv, CakeStep, UNCHANGED <<tiers, request, pos, chunks>>, Scanning
  PROVE  /\ computeIndex \in DOMAIN chunks /\ loadIndex \in DOMAIN chunks
         /\ plan[computeIndex] = Unscheduled /\ plan[loadIndex] = Unscheduled
         /\ ComputeNext = computeTime + ComputeCost[computeIndex]
         /\ find_cached(chunks[loadIndex]) # NoTier =>
              /\ loadIndex \in Loadable
              /\ LoadNext = loadTime + LoadCost[loadIndex]
<1>1. /\ DOMAIN chunks = 1 .. Len(chunks) /\ Len(chunks) \in Nat
      /\ computeIndex \in Nat \ {0} /\ loadIndex \in Nat
      /\ \A i \in DOMAIN chunks : plan[i] = PlannedAt(i)
      /\ ScheduleTypeOK
      /\ phase = "scan" => loadIndex <= Len(chunks)
  BY StepFacts
<1>2. computeIndex \in DOMAIN chunks /\ loadIndex \in DOMAIN chunks
  BY <1>1 DEF Scanning
<1>3. plan[computeIndex] = Unscheduled /\ plan[loadIndex] = Unscheduled
  <2>1. \A i \in DOMAIN chunks :
          i >= computeIndex /\ i <= loadIndex => plan[i] = Unscheduled
    BY <1>1, SourceFacts
  <2>2. computeIndex >= computeIndex /\ computeIndex <= loadIndex /\ loadIndex <= loadIndex
    BY <1>1 DEF Scanning
  <2> QED BY <1>2, <2>1, <2>2, Zenon
<1>4. ComputeNext = computeTime + ComputeCost[computeIndex]
  BY <1>2 DEF ComputeNext, ComputeCost
<1>5. ASSUME find_cached(chunks[loadIndex]) # NoTier
      PROVE  loadIndex \in Loadable /\ LoadNext = loadTime + LoadCost[loadIndex]
  <2>1. loadIndex \in Loadable
    BY <1>2, <1>5 DEF Loadable
  <2> QED BY <1>1, <2>1, CostFacts DEF LoadNext
<1> QED BY <1>2, <1>3, <1>4, <1>5

\* Whichever front advances, the clocks stay within one operation of each other.
LEMMA Balance ==
  ASSUME NEW c \in Nat, NEW l \in Nat, NEW cc \in Nat, NEW lc \in Nat,
         NEW maxC \in Nat, NEW maxL \in Nat, cc <= maxC, lc <= maxL,
         l <= c + maxC, c <= l + maxL
  PROVE  /\ l + lc <= c + cc => l + lc <= c + maxC /\ c <= (l + lc) + maxL
         /\ l + lc > c + cc => l <= (c + cc) + maxC /\ c + cc <= l + maxL
  OBVIOUS

LEMMA ClockStep ==
  ASSUME CakeInv, CakeStep, UNCHANGED <<tiers, request, pos, chunks>>
  PROVE  ClocksAddUp' /\ FrontsStayBalanced'
<1>1. /\ DOMAIN chunks = 1 .. Len(chunks) /\ Len(chunks) \in Nat
      /\ computeIndex \in Nat \ {0} /\ loadIndex \in Nat /\ sweepIndex \in Nat \ {0}
      /\ computeTime \in Nat /\ loadTime \in Nat
      /\ DOMAIN plan = DOMAIN chunks
      /\ \A i \in DOMAIN chunks : plan[i] = PlannedAt(i)
      /\ ScheduleTypeOK /\ phase # "split"
  BY StepFacts
<1>0. computeTime \in Nat /\ loadTime \in Nat
  BY StepFacts
<1>2. /\ ComputeCost' = ComputeCost /\ LoadCost' = LoadCost /\ Loadable' = Loadable
      /\ LongestCompute' = LongestCompute /\ LongestLoad' = LongestLoad
      /\ chunks' = chunks
  BY LookupKept
<1>3. /\ \A i \in DOMAIN chunks : ComputeCost[i] \in Nat /\ LoadCost[i] \in Nat
      /\ \A i \in DOMAIN chunks \ Loadable : LoadCost[i] = ComputeCost[i]
      /\ Loadable \in SUBSET DOMAIN chunks
  BY <1>1, CostFacts
<1>4. /\ computeTime = ComputeSum(Computed) /\ loadTime = LoadSum(Loaded)
      /\ loadTime <= ComputeSum(DOMAIN chunks)
      /\ computeTime <= LoadSum(Loadable \cup Swept)
  BY <1>1 DEF CakeInv, ClocksAddUp, ComputeSum, LoadSum
<1>5. /\ Computed \in SUBSET DOMAIN chunks /\ Swept \in SUBSET DOMAIN chunks
      /\ Loaded \in SUBSET Loadable
  <2>1. ASSUME NEW i \in Loaded PROVE i \in Loadable
    BY <1>1, <2>1, SourceFacts DEF Loaded
  <2> QED BY <2>1 DEF Computed, Swept
<1>6. /\ ComputeSum(DOMAIN chunks) \in Nat
      /\ LoadSum(Loadable \cup Swept) \in Nat
  BY <1>1, <1>3, <1>5, SumFacts
<1>7. ASSUME /\ computeTime' = ComputeSum(Computed') /\ loadTime' = LoadSum(Loaded')
             /\ loadTime' <= ComputeSum(DOMAIN chunks)
             /\ computeTime' <= LoadSum(Loadable \cup Swept')
      PROVE  ClocksAddUp'
  BY <1>2, <1>7 DEF ClocksAddUp, ComputeSum, LoadSum
<1>8. /\ Recompute # Unscheduled /\ Recompute.action # "load" /\ Unscheduled.action # "load"
      /\ Unscheduled # Recompute
      /\ \A t : Load(t) # Recompute /\ Load(t).action = "load"
  BY DEF Recompute, Unscheduled, Load
<1>9. phase' = "scan" => /\ phase = "scan" /\ LongestCompute \in Nat /\ LongestLoad \in Nat
                         /\ \A i \in DOMAIN chunks : ComputeCost[i] <= LongestCompute
                         /\ \A i \in Loadable : LoadCost[i] <= LongestLoad
  <2>1. phase' = "scan" => phase = "scan"
    BY <1>1 DEF CakeStep, SkipUncached, ClaimLoad, ClaimCompute, Scanning, FrontsCross,
                SweepChunk, SweepDone
  <2>2. chunks # <<>>
    <3>1. pos = request.prompt /\ request.prompt > 0
      BY <1>1 DEF CakeInv, Tiling
    <3> QED BY <3>1 DEF CakeInv, Tiling
  <2> QED BY <1>1, <2>1, <2>2, LongestFacts
<1>10. phase = "scan" => /\ loadTime <= computeTime + LongestCompute
                         /\ computeTime <= loadTime + LongestLoad
  BY DEF CakeInv, FrontsStayBalanced
<1>11. CASE UNCHANGED <<plan, sweepIndex, computeTime, loadTime>>
  <2>1. Computed' = Computed /\ Loaded' = Loaded /\ Swept' = Swept
    BY <1>2, <1>11 DEF Computed, Loaded, Swept
  <2>2. ClocksAddUp'
    BY <1>4, <1>7, <1>11, <2>1
  <2> QED BY <1>2, <1>9, <1>10, <1>11, <2>2 DEF FrontsStayBalanced
<1>12. CASE ClaimLoad
  <2>1. /\ computeIndex \in DOMAIN chunks /\ loadIndex \in DOMAIN chunks
        /\ plan[computeIndex] = Unscheduled /\ plan[loadIndex] = Unscheduled
        /\ ComputeNext = computeTime + ComputeCost[computeIndex]
        /\ loadIndex \in Loadable /\ LoadNext = loadTime + LoadCost[loadIndex]
    BY <1>12, ScanFacts DEF ClaimLoad
  <2>2. /\ loadTime' = LoadNext /\ LoadNext <= ComputeNext
        /\ computeTime' = computeTime /\ sweepIndex' = sweepIndex
        /\ \E t : plan' = [plan EXCEPT ![loadIndex] = Load(t)]
    BY <1>12 DEF ClaimLoad
  <2>3. Computed' = Computed /\ Loaded' = Loaded \cup {loadIndex} /\ Swept' = Swept
    BY <1>1, <1>2, <1>8, <2>1, <2>2 DEF Computed, Loaded, Swept
  <2>4. loadIndex \notin Loaded /\ computeIndex \notin Computed
    BY <1>8, <2>1 DEF Loaded, Computed
  <2>5. loadTime' = LoadSum(Loaded')
    <3>1. LoadSum(Loaded \cup {loadIndex}) = LoadSum(Loaded) + LoadCost[loadIndex]
      BY <1>1, <1>3, <1>5, <2>1, <2>4, SumFacts
    <3> QED BY <1>4, <2>1, <2>2, <2>3, <3>1
  <2>6. loadTime' <= ComputeSum(DOMAIN chunks)
    <3>1. ComputeSum(Computed \cup {computeIndex}) = computeTime + ComputeCost[computeIndex]
      BY <1>1, <1>4, <1>5, <2>1, <2>4, SumFacts
    <3>2. Computed \cup {computeIndex} \in SUBSET DOMAIN chunks
      BY <1>5, <2>1
    <3>3. ComputeSum(Computed \cup {computeIndex}) <= ComputeSum(DOMAIN chunks)
      BY <1>1, <3>2, SumFacts
    <3>4. LoadCost[loadIndex] \in Nat /\ ComputeCost[computeIndex] \in Nat
      BY <1>3, <2>1
    <3>5. LoadNext \in Nat /\ ComputeNext \in Nat
      BY <1>0, <2>1, <3>4
    <3> QED BY <1>6, <2>1, <2>2, <3>1, <3>3, <3>5
  <2>7. ClocksAddUp'
    BY <1>4, <1>7, <2>2, <2>3, <2>5, <2>6
  <2>8. FrontsStayBalanced'
    <3>1. LoadCost[loadIndex] \in Nat /\ ComputeCost[computeIndex] \in Nat
      BY <1>3, <2>1
    <3>2. phase' = "scan" => /\ ComputeCost[computeIndex] <= LongestCompute
                             /\ LoadCost[loadIndex] <= LongestLoad
                             /\ LongestCompute \in Nat /\ LongestLoad \in Nat
      BY <1>9, <2>1
    <3>3. phase' = "scan" => /\ loadTime' <= computeTime' + LongestCompute
                             /\ computeTime' <= loadTime' + LongestLoad
      <4> SUFFICES ASSUME phase' = "scan"
                   PROVE  /\ loadTime' <= computeTime' + LongestCompute
                          /\ computeTime' <= loadTime' + LongestLoad
        OBVIOUS
      <4>1. loadTime <= computeTime + LongestCompute /\ computeTime <= loadTime + LongestLoad
        BY <1>9, <1>10
      <4>2. loadTime + LoadCost[loadIndex] <= computeTime + ComputeCost[computeIndex]
        BY <2>1, <2>2
      <4>3. /\ loadTime + LoadCost[loadIndex] <= computeTime + LongestCompute
            /\ computeTime <= (loadTime + LoadCost[loadIndex]) + LongestLoad
        BY <1>0, <3>1, <3>2, <4>1, <4>2, Balance
      <4> QED BY <2>1, <2>2, <4>3
    <3> QED BY <1>2, <3>3 DEF FrontsStayBalanced
  <2> QED BY <2>7, <2>8
<1>13. CASE ClaimCompute
  <2>1. /\ computeIndex \in DOMAIN chunks /\ loadIndex \in DOMAIN chunks
        /\ plan[computeIndex] = Unscheduled /\ plan[loadIndex] = Unscheduled
        /\ ComputeNext = computeTime + ComputeCost[computeIndex]
        /\ loadIndex \in Loadable /\ LoadNext = loadTime + LoadCost[loadIndex]
    BY <1>13, ScanFacts DEF ClaimCompute
  <2>2. /\ computeTime' = ComputeNext /\ LoadNext > ComputeNext
        /\ loadTime' = loadTime /\ sweepIndex' = sweepIndex
        /\ plan' = [plan EXCEPT ![computeIndex] = Recompute]
    BY <1>13 DEF ClaimCompute
  <2>3. Computed' = Computed \cup {computeIndex} /\ Loaded' = Loaded /\ Swept' = Swept
    BY <1>1, <1>2, <1>8, <2>1, <2>2 DEF Computed, Loaded, Swept
  <2>4. loadIndex \notin Loaded /\ computeIndex \notin Computed
    BY <1>8, <2>1 DEF Loaded, Computed
  <2>5. computeTime' = ComputeSum(Computed')
    <3>1. ComputeSum(Computed \cup {computeIndex}) = ComputeSum(Computed) + ComputeCost[computeIndex]
      BY <1>1, <1>5, <2>1, <2>4, SumFacts
    <3> QED BY <1>4, <2>1, <2>2, <2>3, <3>1
  <2>6. computeTime' <= LoadSum(Loadable \cup Swept)
    <3>1. LoadSum(Loaded \cup {loadIndex}) = loadTime + LoadCost[loadIndex]
      BY <1>1, <1>3, <1>4, <1>5, <2>1, <2>4, SumFacts
    <3>2. /\ Loaded \cup {loadIndex} \in SUBSET (Loadable \cup Swept)
          /\ Loadable \cup Swept \in SUBSET DOMAIN chunks
      BY <1>3, <1>5, <2>1
    <3>3. LoadSum(Loaded \cup {loadIndex}) <= LoadSum(Loadable \cup Swept)
      BY <1>1, <3>2, SumFacts
    <3>4. LoadCost[loadIndex] \in Nat /\ ComputeCost[computeIndex] \in Nat
      BY <1>3, <2>1
    <3>5. LoadNext \in Nat /\ ComputeNext \in Nat
      BY <1>0, <2>1, <3>4
    <3> QED BY <1>6, <2>1, <2>2, <3>1, <3>3, <3>5
  <2>7. ClocksAddUp'
    BY <1>4, <1>7, <2>2, <2>3, <2>5, <2>6
  <2>8. FrontsStayBalanced'
    <3>1. LoadCost[loadIndex] \in Nat /\ ComputeCost[computeIndex] \in Nat
      BY <1>3, <2>1
    <3>2. phase' = "scan" => /\ ComputeCost[computeIndex] <= LongestCompute
                             /\ LoadCost[loadIndex] <= LongestLoad
                             /\ LongestCompute \in Nat /\ LongestLoad \in Nat
      BY <1>9, <2>1
    <3>3. phase' = "scan" => /\ loadTime' <= computeTime' + LongestCompute
                             /\ computeTime' <= loadTime' + LongestLoad
      <4> SUFFICES ASSUME phase' = "scan"
                   PROVE  /\ loadTime' <= computeTime' + LongestCompute
                          /\ computeTime' <= loadTime' + LongestLoad
        OBVIOUS
      <4>1. loadTime <= computeTime + LongestCompute /\ computeTime <= loadTime + LongestLoad
        BY <1>9, <1>10
      <4>2. loadTime + LoadCost[loadIndex] > computeTime + ComputeCost[computeIndex]
        BY <2>1, <2>2
      <4>3. /\ loadTime <= (computeTime + ComputeCost[computeIndex]) + LongestCompute
            /\ computeTime + ComputeCost[computeIndex] <= loadTime + LongestLoad
        BY <1>0, <3>1, <3>2, <4>1, <4>2, Balance
      <4> QED BY <2>1, <2>2, <4>3
    <3> QED BY <1>2, <3>3 DEF FrontsStayBalanced
  <2> QED BY <2>7, <2>8
<1>14. CASE SweepChunk
  <2>1. /\ phase = "sweep" /\ phase' = "sweep" /\ sweepIndex \in DOMAIN chunks
        /\ sweepIndex' = sweepIndex + 1 /\ loadTime' = loadTime
    BY <1>1, <1>14 DEF SweepChunk
  <2>2. Swept' = Swept \cup {sweepIndex}
    BY <1>1, <1>2, <2>1 DEF Swept
  <2>3. /\ Loadable \cup Swept \in SUBSET (Loadable \cup Swept')
        /\ Loadable \cup Swept' \in SUBSET DOMAIN chunks
    BY <1>3, <1>5, <2>1, <2>2
  <2>4. /\ LoadSum(Loadable \cup Swept) <= LoadSum(Loadable \cup Swept')
        /\ LoadSum(Loadable \cup Swept') \in Nat
    BY <1>1, <2>3, SumFacts
  <2>5. CASE UNCHANGED <<plan, computeTime>>
    <3>1. Computed' = Computed /\ Loaded' = Loaded
      BY <1>2, <2>5 DEF Computed, Loaded
    <3> QED BY <1>1, <1>4, <1>6, <1>7, <2>1, <2>4, <2>5, <3>1 DEF FrontsStayBalanced
  <2>6. CASE /\ ~Scheduled(sweepIndex)
             /\ plan' = [plan EXCEPT ![sweepIndex] = Recompute]
             /\ computeTime' = computeTime + estimate_compute_time(chunks[sweepIndex])
    <3>1. computeTime' = computeTime + ComputeCost[sweepIndex]
      BY <2>1, <2>6 DEF ComputeCost
    <3>2. plan[sweepIndex] = Unscheduled
      BY <2>6 DEF Scheduled
    <3>3. Computed' = Computed \cup {sweepIndex} /\ Loaded' = Loaded
      BY <1>1, <1>2, <1>8, <2>1, <2>6, <3>2 DEF Computed, Loaded
    <3>4. sweepIndex \notin Computed
      BY <1>8, <3>2 DEF Computed
    <3>5. computeTime' = ComputeSum(Computed')
      <4>1. ComputeSum(Computed \cup {sweepIndex}) = ComputeSum(Computed) + ComputeCost[sweepIndex]
        BY <1>1, <1>5, <2>1, <3>4, SumFacts
      <4> QED BY <1>4, <3>1, <3>3, <4>1
    <3>6. sweepIndex \notin Loadable /\ sweepIndex \notin Swept
      <4>1. computeIndex = loadIndex + 1
        BY <2>1 DEF CakeInv, FrontsOrdered
      <4>2. ASSUME NEW i \in DOMAIN chunks, plan[i] = Unscheduled
            PROVE  i \notin Loadable
        <5>1. /\ i \in Loadable <=> Source[i] # NoTier
              /\ PlannedAt(i) = Unscheduled <=>
                   /\ i >= computeIndex
                   /\ i <= loadIndex \/ (Source[i] = NoTier /\ i >= sweepIndex)
          BY <1>1, SourceFacts
        <5>2. PlannedAt(i) = Unscheduled
          BY <1>1, <4>2
        <5> QED BY <1>1, <4>1, <5>1, <5>2
      <4> QED BY <1>1, <2>1, <3>2, <4>2 DEF Swept
    <3>7. LoadSum(Loadable \cup Swept') = LoadSum(Loadable \cup Swept) + ComputeCost[sweepIndex]
      <4>1. /\ Loadable \cup Swept' = (Loadable \cup Swept) \cup {sweepIndex}
            /\ Loadable \cup Swept \in SUBSET DOMAIN chunks
        BY <1>3, <1>5, <2>2
      <4>2. LoadSum((Loadable \cup Swept) \cup {sweepIndex})
              = LoadSum(Loadable \cup Swept) + LoadCost[sweepIndex]
        BY <1>1, <2>1, <3>6, <4>1, SumFacts
      <4> QED BY <1>3, <2>1, <3>6, <4>1, <4>2
    <3>8. computeTime' <= LoadSum(Loadable \cup Swept')
      <4>1. ComputeCost[sweepIndex] \in Nat
        BY <1>3, <2>1
      <4> QED BY <1>1, <1>4, <1>6, <3>1, <3>7, <4>1
    <3> QED BY <1>4, <1>7, <2>1, <3>3, <3>5, <3>8 DEF FrontsStayBalanced
  <2> QED BY <1>14, <2>5, <2>6 DEF SweepChunk
<1> QED BY <1>11, <1>12, <1>13, <1>14
      DEF CakeStep, SkipUncached, FrontsCross, SweepDone, frontVars

-----------------------------------------------------------------------------
(* The invariant, from the first state through every step.                 *)

LEMMA InitialTiers ==
  ASSUME tiers \in [Tiers -> Dicts]
  PROVE  TiersTyped
<1>1. ASSUME NEW S \in SUBSET DocumentKeys, NEW d \in DictsOver(S)
      PROVE  IsDict(d, Extent)
  <2>1. DOMAIN d = S /\ \A k \in S : d[k] \in EntriesAt(k)
    BY DEF DictsOver
  <2>2. ASSUME NEW k \in S PROVE k \in CacheKey /\ d[k] \in Extent
    <3>1. k \in Nat \X Nat
      BY ChunkingAssumption DEF DocumentKeys, Documents
    <3>2. d[k] \in EntriesAt(k) /\ k[2] \in Nat
      BY <2>1, <3>1
    <3>3. k[2] * ChunkSize \in Nat /\ (k[2] + 1) * ChunkSize \in Nat
      <4>1. \A n \in Nat : n * ChunkSize \in Nat /\ (n + 1) * ChunkSize \in Nat
        BY NextProduct, ChunkingAssumption
      <4> QED BY <3>2, <4>1
    <3> QED BY <3>1, <3>2, <3>3 DEF EntriesAt, Extent, CacheKey
  <2> QED BY <2>1, <2>2 DEF IsDict
<1>2. ASSUME NEW d \in Dicts PROVE IsDict(d, Extent)
  BY <1>1 DEF Dicts
<1> QED BY <1>2 DEF TiersTyped

LEMMA InitialInv ==
  ASSUME CakeInit
  PROVE  CakeInv
<1>1. TiersTyped
  BY InitialTiers DEF CakeInit
<1>2. /\ phase = "split" /\ pos = 0 /\ chunks = <<>> /\ plan = <<>>
      /\ computeIndex = 1 /\ loadIndex = 0 /\ sweepIndex = 1
      /\ computeTime = 0 /\ loadTime = 0 /\ request \in RequestsOf(0)
  BY DEF CakeInit
<1>3. /\ request \in Request /\ request.doc \in Documents
      /\ request.prompt - request.shared \in PrivateMin .. PrivateMax
  <2>1. /\ request \in [id : {0}, doc : DocumentsFor(0), shared : 0 .. SharedMax,
                         prompt : 0 .. SharedMax + PrivateMax]
        /\ request.prompt - request.shared \in PrivateMin .. PrivateMax
    BY <1>2 DEF RequestsOf
  <2>2. DocumentsFor(0) \subseteq Documents /\ Documents \subseteq Nat
    BY ChunkingAssumption DEF DocumentsFor, Documents
  <2>3. /\ request.id \in Nat /\ request.doc \in Documents
        /\ request.shared \in Nat /\ request.prompt \in Nat
    BY <2>1, <2>2
  <2>4. request = [id |-> request.id, doc |-> request.doc,
                   shared |-> request.shared, prompt |-> request.prompt]
    BY <2>1
  <2> QED BY <2>1, <2>2, <2>3, <2>4 DEF Request
<1>4. request.shared < request.prompt /\ request.prompt > 0
  <2>1. /\ request.shared \in Nat /\ request.prompt \in Nat
        /\ PrivateMin \in Nat \ {0} /\ PrivateMax \in Nat
    BY <1>3, WorkloadAssumption DEF Request
  <2> QED BY <1>3, <2>1
<1>5. ScheduleShape
  BY <1>2, <1>3 DEF ScheduleShape, ScheduleTypeOK
<1>6. Tiling
  <2>1. request.shared \in Nat /\ request.prompt \in Nat /\ DOMAIN chunks = {} /\ Len(chunks) = 0
    BY <1>2, <1>3 DEF Request
  <2>2. Len(chunks) * ChunkSize = 0
    BY <2>1, ChunkingAssumption
  <2> QED BY <1>2, <1>3, <1>4, <2>1, <2>2 DEF Tiling
<1>7. FrontsOrdered /\ PlanFollowsFronts /\ ClocksAddUp /\ FrontsStayBalanced
  BY <1>2 DEF FrontsOrdered, PlanFollowsFronts, ClocksAddUp, FrontsStayBalanced
<1> QED BY <1>1, <1>4, <1>5, <1>6, <1>7 DEF CakeInv

\* An iteration of the splitting loops leaves the schedule alone,
LEMMA SplitInv ==
  ASSUME CakeInv, Split, UNCHANGED tiers
  PROVE  CakeInv'
<1>1. ScheduleShape /\ ScheduleTypeOK /\ Tiling /\ request.prompt > 0 /\ TiersTyped
  BY DEF CakeInv, ScheduleShape
<1>2. phase = "split" /\ phase' = phase /\ request' = request /\ UNCHANGED <<plan, frontVars>>
  BY DEF Split, SplitStep, SplitShared, SplitPrivate
<1>3. Tiling' /\ TiersTyped'
  BY <1>1, SplitTiles DEF Split, TiersTyped
<1>4. chunks' \in Seq(Chunk) /\ pos' \in Nat
  <2>1. /\ request.doc \in Nat /\ request.shared \in Nat /\ request.prompt \in Nat
        /\ private_cache_id(request) \in Nat
    BY <1>1, ChunkingAssumption DEF ScheduleTypeOK, Request, private_cache_id
  <2>2. PICK cid \in Nat, limit \in Nat :
          pos < limit /\ AppendChunk(NextChunk(cid, limit))
    <3>1. /\ request.shared <= request.prompt
          /\ \/ pos < request.shared /\ AppendChunk(NextChunk(request.doc, request.shared))
             \/ pos < request.prompt
                /\ AppendChunk(NextChunk(private_cache_id(request), request.prompt))
      BY <1>1 DEF Tiling, Split, SplitStep, SplitShared, SplitPrivate
    <3> QED BY <2>1, <3>1
  <2>3. /\ NextChunk(cid, limit) \in Chunk /\ NextChunk(cid, limit).end \in Nat
    BY <1>1, <2>2, NextChunkFacts, ChunkFields
  <2>4. chunks' = Append(chunks, NextChunk(cid, limit)) /\ pos' = NextChunk(cid, limit).end
    BY <2>2 DEF AppendChunk
  <2> HIDE DEF NextChunk
  <2> QED BY <1>1, <2>3, <2>4, AppendProperties DEF ScheduleTypeOK
<1>5. ScheduleShape'
  BY <1>1, <1>2, <1>4 DEF ScheduleShape, ScheduleTypeOK, frontVars
<1>6. /\ FrontsOrdered' /\ PlanFollowsFronts' /\ ClocksAddUp' /\ FrontsStayBalanced'
  BY <1>2 DEF CakeInv, FrontsOrdered, PlanFollowsFronts, ClocksAddUp, FrontsStayBalanced,
              frontVars
<1> QED BY <1>1, <1>2, <1>3, <1>5, <1>6 DEF CakeInv

\* the scan starts with an empty plan and both clocks at zero,
LEMMA ScanInv ==
  ASSUME CakeInv, StartScan, UNCHANGED tiers
  PROVE  CakeInv'
<1>1. ScheduleShape /\ ScheduleTypeOK /\ Tiling /\ request.prompt > 0 /\ TiersTyped
  BY DEF CakeInv, ScheduleShape
<1>2. /\ phase = "split" /\ phase' = "scan" /\ UNCHANGED <<request, pos, chunks>>
      /\ plan' = [i \in DOMAIN chunks |-> Unscheduled] /\ loadIndex' = Len(chunks)
      /\ UNCHANGED <<computeIndex, sweepIndex, computeTime, loadTime>>
  BY DEF StartScan, SplitDone
<1>3. computeIndex = 1 /\ sweepIndex = 1 /\ computeTime = 0 /\ loadTime = 0
  BY <1>2 DEF CakeInv, FrontsOrdered
<1>4. DOMAIN chunks = 1 .. Len(chunks) /\ Len(chunks) \in Nat
  BY <1>1, CostFacts
<1>5. Tiling' /\ TiersTyped'
  BY <1>1, SplitDoneTiles DEF StartScan, TiersTyped
<1>6. ScheduleShape'
  <2>1. plan' \in Seq(Decision) /\ DOMAIN plan' = DOMAIN chunks
    BY <1>2, <1>4, DecisionFacts, IsASeq
  <2> QED BY <1>1, <1>2, <1>4, <2>1 DEF ScheduleShape, ScheduleTypeOK
<1>7. FrontsOrdered' /\ PlanFollowsFronts'
  BY <1>2, <1>3, <1>4 DEF FrontsOrdered, PlanFollowsFronts, PlannedAt
<1>8. /\ ComputeCost' = ComputeCost /\ LoadCost' = LoadCost /\ Loadable' = Loadable
      /\ LongestCompute' = LongestCompute /\ LongestLoad' = LongestLoad
  BY <1>2, LookupKept
<1>9. ClocksAddUp'
  <2>1. Computed' = {} /\ Loaded' = {}
    BY <1>2 DEF Computed, Loaded, Recompute, Unscheduled
  <2>2. Loadable \cup Swept' = Loadable
    BY <1>2, <1>3, <1>4 DEF Swept
  <2>3. ComputeSum(DOMAIN chunks) \in Nat /\ LoadSum(Loadable) \in Nat
    BY <1>1, SumFacts, CostFacts
  <2>4. ComputeSum({}) = 0 /\ LoadSum({}) = 0
    BY SumEmpty DEF ComputeSum, LoadSum
  <2>5. /\ computeTime' = ComputeSum(Computed') /\ loadTime' = LoadSum(Loaded')
        /\ loadTime' <= ComputeSum(DOMAIN chunks)
        /\ computeTime' <= LoadSum(Loadable \cup Swept')
    <3>1. ComputeSum(Computed') = 0 /\ LoadSum(Loaded') = 0
      BY <2>1, <2>4
    <3>2. LoadSum(Loadable \cup Swept') = LoadSum(Loadable)
      BY <2>2
    <3>3. computeTime' = 0 /\ loadTime' = 0
      BY <1>2, <1>3
    <3> QED BY <2>3, <3>1, <3>2, <3>3
  <2> QED BY <1>2, <1>8, <2>5 DEF ClocksAddUp, ComputeSum, LoadSum
<1>10. FrontsStayBalanced'
  <2>1. chunks # <<>>
    <3>1. pos = request.prompt
      BY <1>2, <1>5 DEF Tiling
    <3> QED BY <1>1, <3>1 DEF Tiling
  <2> QED BY <1>1, <1>2, <1>3, <1>8, <2>1, LongestFacts DEF FrontsStayBalanced
<1> QED BY <1>1, <1>2, <1>5, <1>6, <1>7, <1>9, <1>10 DEF CakeInv

\* and every step of the scheduler preserves it.
LEMMA StepInv ==
  ASSUME CakeInv, Cake, UNCHANGED tiers
  PROVE  CakeInv'
<1>1. CakeStep /\ UNCHANGED <<tiers, request, pos, chunks>> /\ ScheduleShape
  BY DEF Cake, CakeInv
<1>2. FrontsOrdered' /\ PlanFollowsFronts' /\ ClocksAddUp' /\ FrontsStayBalanced'
  BY <1>1, PlanStep, ClockStep
<1>3. /\ ScheduleTypeOK' /\ phase # "split" /\ DOMAIN plan' = DOMAIN plan
      /\ phase' = "scan" => loadIndex' <= Len(chunks)
  BY <1>1, CakeShape
<1>4. ScheduleShape'
  BY <1>1, <1>3 DEF ScheduleShape
<1>5. Tiling' /\ TiersTyped'
  BY <1>1, <1>3, SameTiling DEF CakeInv, TiersTyped
<1> QED BY <1>1, <1>2, <1>4, <1>5 DEF CakeInv

LEMMA StutterInv ==
  ASSUME CakeInv, UNCHANGED cakeVars
  PROVE  CakeInv'
<1>1. /\ UNCHANGED <<tiers, request, pos, chunks, plan, phase>>
      /\ UNCHANGED <<computeIndex, loadIndex, sweepIndex, computeTime, loadTime>>
  BY DEF cakeVars, chunkingVars, frontVars
<1>2. /\ Source' = Source /\ ComputeCost' = ComputeCost /\ LoadCost' = LoadCost
      /\ Loadable' = Loadable
      /\ LongestCompute' = LongestCompute /\ LongestLoad' = LongestLoad
  BY <1>1, LookupKept
<1>3. TiersTyped' /\ Tiling' /\ ScheduleShape' /\ FrontsOrdered'
  BY <1>1, SameTiling DEF CakeInv, TiersTyped, ScheduleShape, ScheduleTypeOK, FrontsOrdered
<1>4. PlanFollowsFronts'
  BY <1>1, <1>2 DEF CakeInv, PlanFollowsFronts, PlannedAt
<1>5. Computed' = Computed /\ Loaded' = Loaded /\ Swept' = Swept
  BY <1>1 DEF Computed, Loaded, Swept
<1>6. ClocksAddUp' /\ FrontsStayBalanced'
  BY <1>1, <1>2, <1>5 DEF CakeInv, ClocksAddUp, FrontsStayBalanced
<1> QED BY <1>1, <1>3, <1>4, <1>6 DEF CakeInv

LEMMA NextInv == CakeInv /\ [CakeNext]_cakeVars => CakeInv'
  BY SplitInv, ScanInv, StepInv, StutterInv DEF CakeNext

\* The invariant of the scheduler on one request.
THEOREM CakeInvariant == CakeSpec => []CakeInv
<1>1. CakeInit => CakeInv
  BY InitialInv
<1> QED BY <1>1, NextInv, PTL DEF CakeSpec

\* The timeline only records: every behaviour with it is one of the scheduler.
LEMMA TimelineRecords ==
  /\ TimelineInit => CakeInit
  /\ [TimelineNext]_timelineVars => [CakeNext]_cakeVars
  BY DEF TimelineInit, TimelineNext, timelineVars

THEOREM TimelineInvariant == TimelineSpec => []CakeInv
<1>1. TimelineInit => CakeInv
  BY InitialInv, TimelineRecords
<1>2. CakeInv /\ [TimelineNext]_timelineVars => CakeInv'
  BY NextInv, TimelineRecords
<1> QED BY <1>1, <1>2, PTL DEF TimelineSpec

-----------------------------------------------------------------------------
(* What the invariant says of a request and its schedule.                  *)

\* The split of the prompt (models.py, chunk_request_with_prefix_split): the
\* chunks tile it, and none straddles the end of the shared prefix.
THEOREM ChunksTile == TimelineSpec => []ChunksTilePrompt
<1>1. ASSUME CakeInv PROVE ChunksTilePrompt
  <2>1. \A i \in DOMAIN chunks :
          /\ chunks[i].idx = i - 1
          /\ chunks[i].start = IF i = 1 THEN 0 ELSE chunks[i - 1].end
          /\ chunks[i].end <= request.shared \/ chunks[i].start >= request.shared
          /\ token_count(chunks[i]) <= ChunkSize
          /\ token_count(chunks[i]) < ChunkSize =>
               chunks[i].end \in {request.shared, request.prompt}
    BY <1>1 DEF CakeInv, Tiling
  <2>2. \A i \in DOMAIN chunks : chunks[i].start < chunks[i].end
    BY <1>1, CostFacts DEF CakeInv, ScheduleShape, Chunk
  <2>3. /\ chunks # <<>> => chunks[Len(chunks)].end = pos
        /\ phase # "split" => pos = request.prompt
    BY <1>1 DEF CakeInv, Tiling
  <2> QED BY <2>1, <2>2, <2>3 DEF ChunksTilePrompt
<1> QED BY <1>1, TimelineInvariant, PTL

\* The chunks of the document, and only these, lie within the shared prefix
\* and start on the grid of ChunkSize, so that comparing end tokens compares
\* coverage.
THEOREM ChunksAligned == TimelineSpec => []DocumentChunksAligned
<1>1. ASSUME CakeInv PROVE DocumentChunksAligned
  <2>1. ScheduleTypeOK /\ Tiling
    BY <1>1 DEF CakeInv, ScheduleShape
  <2>2. /\ request.doc < NumDocuments /\ private_cache_id(request) >= NumDocuments
        /\ request.doc # private_cache_id(request) /\ request.shared \in Nat
    <3>1. /\ request.doc \in 0 .. NumDocuments - 1 /\ request.id \in Nat
          /\ request.shared \in Nat /\ NumDocuments \in Nat
      BY <2>1, ChunkingAssumption DEF Tiling, Documents, ScheduleTypeOK, Request
    <3> QED BY <3>1 DEF private_cache_id
  <2>3. ASSUME NEW i \in DOMAIN chunks
        PROVE  /\ chunks[i].cid = request.doc <=> chunks[i].end <= request.shared
               /\ chunks[i].cid = request.doc => chunks[i].start = chunks[i].idx * ChunkSize
    <3>1. /\ chunks[i].start \in Nat /\ chunks[i].end \in Nat
          /\ chunks[i].start < chunks[i].end
      BY <2>1, CostFacts DEF Chunk
    <3>2. \/ /\ chunks[i].end <= request.shared
             /\ chunks[i].cid = request.doc
             /\ chunks[i].start = chunks[i].idx * ChunkSize
          \/ /\ chunks[i].start >= request.shared
             /\ chunks[i].cid = private_cache_id(request)
      BY <2>1 DEF Tiling
    <3> QED BY <2>2, <3>1, <3>2
  <2> QED BY <2>3 DEF DocumentChunksAligned
<1> QED BY <1>1, TimelineInvariant, PTL

\* "assert all(scheduled)": a finished schedule has an operation for every
\* chunk, and it loads only what the named tier holds.
THEOREM ScheduleCompletes == TimelineSpec => []ScheduleIsComplete
<1>1. ASSUME CakeInv PROVE ScheduleIsComplete
  <2>1. ScheduleTypeOK /\ phase # "split" => DOMAIN plan = DOMAIN chunks
    BY <1>1 DEF CakeInv, ScheduleShape
  <2>2. ScheduleTypeOK
    BY <1>1 DEF CakeInv, ScheduleShape
  <2>3. phase = "split" => DOMAIN plan = {}
    BY <1>1 DEF CakeInv, FrontsOrdered
  <2>4. ASSUME NEW i \in DOMAIN plan
        PROVE  i \in DOMAIN chunks /\ plan[i] = PlannedAt(i) /\ phase # "split"
    BY <1>1, <2>1, <2>3, <2>2 DEF CakeInv, PlanFollowsFronts, ScheduleShape
  <2>5. ASSUME NEW i \in DOMAIN plan, plan[i].action = "load"
        PROVE  Covers(plan[i].source, chunks[i])
    <3>1. Source[i] # NoTier /\ PlannedAt(i) = Load(Source[i]) /\ Covers(Source[i], chunks[i])
      BY <2>2, <2>4, <2>5, SourceFacts
    <3> QED BY <2>4, <3>1 DEF Load
  <2>6. ASSUME NEW i \in DOMAIN plan, phase = "scheduled"
        PROVE  Scheduled(i)
    <3>1. /\ computeIndex = loadIndex + 1 /\ sweepIndex > Len(chunks)
          /\ loadIndex \in Nat /\ sweepIndex \in Nat
      BY <1>1, <2>2, <2>6 DEF CakeInv, FrontsOrdered, ScheduleTypeOK
    <3>2. i \in 1 .. Len(chunks) /\ Len(chunks) \in Nat
      BY <2>2, <2>4, CostFacts
    <3>3. PlannedAt(i) = Unscheduled <=>
            /\ i >= computeIndex
            /\ i <= loadIndex \/ (Source[i] = NoTier /\ i >= sweepIndex)
      BY <2>2, <2>4, SourceFacts
    <3>4. PlannedAt(i) # Unscheduled
      BY <3>1, <3>2, <3>3
    <3> QED BY <2>4, <3>4 DEF Scheduled
  <2> QED BY <2>5, <2>6 DEF ScheduleIsComplete
<1> QED BY <1>1, TimelineInvariant, PTL

\* The sweep is left with the chunks that no tier can serve.
THEOREM SweepRecomputes == TimelineSpec => []SweepLeavesNothingLoadable
<1>1. ASSUME CakeInv PROVE SweepLeavesNothingLoadable
  <2> SUFFICES ASSUME phase = "sweep", NEW i \in DOMAIN plan, ~Scheduled(i)
               PROVE  find_cached(chunks[i]) = NoTier
    BY DEF SweepLeavesNothingLoadable
  <2>1. ScheduleTypeOK /\ i \in DOMAIN chunks
    BY <1>1 DEF CakeInv, ScheduleShape
  <2>2. plan[i] = PlannedAt(i) /\ plan[i] = Unscheduled
    BY <1>1, <2>1 DEF CakeInv, PlanFollowsFronts, Scheduled
  <2>3. computeIndex = loadIndex + 1 /\ loadIndex \in Nat
    BY <1>1, <2>1 DEF CakeInv, FrontsOrdered, ScheduleTypeOK
  <2>4. i \in 1 .. Len(chunks) /\ Len(chunks) \in Nat
    BY <2>1, CostFacts
  <2>5. /\ Source[i] = find_cached(chunks[i])
        /\ PlannedAt(i) = Unscheduled <=>
             /\ i >= computeIndex
             /\ i <= loadIndex \/ (Source[i] = NoTier /\ i >= sweepIndex)
    BY <2>1, SourceFacts
  <2> QED BY <2>2, <2>3, <2>4, <2>5
<1> QED BY <1>1, TimelineInvariant, PTL

\* Both fronts are kept busy: neither clock runs ahead of the other by more
\* than one operation.
THEOREM FrontsBalance == TimelineSpec => []FrontsStayBalanced
<1>1. CakeInv => FrontsStayBalanced
  BY DEF CakeInv
<1> QED BY <1>1, TimelineInvariant, PTL

\* Neither of the two trivial schedules is better: the estimated TTFT is at
\* most the time of computing everything,
THEOREM BeatsComputeOnly == TimelineSpec => []NeverWorseThanComputeOnly
<1>1. ASSUME CakeInv PROVE NeverWorseThanComputeOnly
  <2> SUFFICES ASSUME phase = "scheduled"
               PROVE  total_estimated_ttft <= TotalComputeTime
    BY DEF NeverWorseThanComputeOnly
  <2>1. ScheduleTypeOK
    BY <1>1 DEF CakeInv, ScheduleShape
  <2>2. computeTime = ComputeSum(Computed) /\ loadTime <= ComputeSum(DOMAIN chunks)
    BY <1>1 DEF CakeInv, ClocksAddUp, ComputeSum
  <2>3. ComputeSum(Computed) <= ComputeSum(DOMAIN chunks)
    BY <2>1, SumFacts DEF Computed
  <2>4. TotalComputeTime = ComputeSum(DOMAIN chunks)
    BY <2>1, CostFacts DEF TotalComputeTime, ComputeSum, ComputeCost, SumFunction
  <2> QED BY <2>2, <2>3, <2>4 DEF total_estimated_ttft, MaxOf
<1> QED BY <1>1, TimelineInvariant, PTL

\* and at most that of loading whatever can be loaded and computing the rest.
THEOREM BeatsLoadOnly == TimelineSpec => []NeverWorseThanLoadOnly
<1>1. ASSUME CakeInv PROVE NeverWorseThanLoadOnly
  <2> SUFFICES ASSUME phase = "scheduled"
               PROVE  total_estimated_ttft <= LoadOnlyTime
    BY DEF NeverWorseThanLoadOnly
  <2>1. ScheduleTypeOK /\ sweepIndex > Len(chunks) /\ sweepIndex \in Nat
    BY <1>1 DEF CakeInv, ScheduleShape, ScheduleTypeOK, FrontsOrdered
  <2>2. loadTime = LoadSum(Loaded) /\ computeTime <= LoadSum(Loadable \cup Swept)
    BY <1>1 DEF CakeInv, ClocksAddUp, LoadSum
  <2>3. Loadable \cup Swept = DOMAIN chunks
    <3>1. DOMAIN chunks = 1 .. Len(chunks) /\ Len(chunks) \in Nat
      BY <2>1, CostFacts
    <3>2. \A i \in DOMAIN chunks : i < sweepIndex
      BY <2>1, <3>1
    <3> QED BY <3>2 DEF Swept, Loadable
  <2>4. LoadSum(Loaded) <= LoadSum(DOMAIN chunks)
    BY <2>1, SumFacts DEF Loaded
  <2>5. LoadOnlyTime = LoadSum(DOMAIN chunks)
    BY <2>1, CostFacts DEF LoadOnlyTime, LoadSum, LoadCost, SumFunction
  <2> QED BY <2>2, <2>3, <2>4, <2>5 DEF total_estimated_ttft, MaxOf
<1> QED BY <1>1, TimelineInvariant, PTL

\* No step revises an operation it has committed: the fronts and the sweep
\* never claim the same chunk twice.
THEOREM CommitmentsHold == TimelineSpec => CommitmentsAreFinal
<1> DEFINE Final == \A i \in DOMAIN plan : Scheduled(i) => plan'[i] = plan[i]
<1>1. ASSUME CakeInv, CakeNext PROVE Final
  <2>1. CASE Split \/ StartScan
    <3>1. DOMAIN plan = {}
      BY <1>1, <2>1 DEF CakeInv, FrontsOrdered, Split, SplitStep, SplitShared, SplitPrivate,
                        StartScan, SplitDone
    <3> QED BY <3>1
  <2>2. CASE Cake
    <3>1. CakeStep /\ UNCHANGED <<tiers, request, pos, chunks>>
      BY <1>1, <2>2 DEF CakeNext, Cake
    <3>2. ASSUME Scanning
          PROVE  plan[computeIndex] = Unscheduled /\ plan[loadIndex] = Unscheduled
      BY <1>1, <3>1, <3>2, ScanFacts
    <3>3. CASE SkipUncached \/ FrontsCross \/ SweepDone
      BY <3>3 DEF SkipUncached, FrontsCross, SweepDone
    <3>4. CASE ClaimLoad
      <4>1. Scanning /\ \E d : plan' = [plan EXCEPT ![loadIndex] = d]
        BY <3>4 DEF ClaimLoad
      <4> QED BY <3>2, <4>1 DEF Scheduled
    <3>5. CASE ClaimCompute
      <4>1. Scanning /\ \E d : plan' = [plan EXCEPT ![computeIndex] = d]
        BY <3>5 DEF ClaimCompute
      <4> QED BY <3>2, <4>1 DEF Scheduled
    <3>6. CASE SweepChunk
      BY <3>6 DEF SweepChunk, Scheduled
    <3> QED BY <3>1, <3>3, <3>4, <3>5, <3>6 DEF CakeStep
  <2> QED BY <1>1, <2>1, <2>2 DEF CakeNext
<1>2. CakeInv /\ [CakeNext]_cakeVars => [Final]_cakeVars
  BY <1>1
<1>3. CakeInv /\ [TimelineNext]_timelineVars => [Final]_cakeVars
  BY <1>2, TimelineRecords
<1>4. TimelineSpec => [][Final]_cakeVars
  BY <1>3, TimelineInvariant, PTL DEF TimelineSpec
<1> QED BY <1>4 DEF CommitmentsAreFinal

-----------------------------------------------------------------------------
(* The timeline.                                                           *)

CakeOperations ==
  [index : Nat \ {0}, action : {"load", "recompute"}, start : Nat, end : Nat]

Claimed == { i \in DOMAIN plan : Scheduled(i) }

IndexesOf(ops) == { operations[n].index : n \in ops }

\* An operation stands for the decision in the plan on its chunk, and no other
\* operation does; each front has been free since its last operation ended.
TimelineMatchesPlan ==
  /\ operations \in Seq(CakeOperations)
  /\ \A n \in DOMAIN operations :
       /\ operations[n].index \in Claimed
       /\ plan[operations[n].index].action = operations[n].action
       /\ operations[n].start = FreeAt(Earlier(n))
       /\ operations[n].end = operations[n].start + Duration(operations[n])
  /\ \A action \in {"load", "recompute"} : FrontTime(action) = FreeAt(Front(action))
  /\ \A m, n \in DOMAIN operations :
       operations[m].index = operations[n].index => m = n
  /\ Len(operations) = Cardinality(Claimed)

\* The I/O front has gone backward, past everything it loaded; the compute
\* front has taken every chunk up to where it stands.
FrontsBehind ==
  /\ \A n \in Front("load") : operations[n].index > loadIndex
  /\ \A m, n \in Front("load") : m < n => operations[m].index > operations[n].index
  /\ phase = "scan" =>
       /\ IndexesOf(Front("recompute")) = 1 .. computeIndex - 1
       /\ \A n \in Front("recompute") : IndexesOf(Earlier(n)) = 1 .. operations[n].index - 1

TimelineInv == TimelineMatchesPlan /\ FrontsBehind

LEMMA OperationFields ==
  ASSUME operations \in Seq(CakeOperations), NEW n \in DOMAIN operations
  PROVE  /\ operations[n].index \in Nat \ {0}
         /\ operations[n].action \in {"load", "recompute"}
         /\ operations[n].start \in Nat /\ operations[n].end \in Nat
<1>1. operations[n] \in CakeOperations
  OBVIOUS
<1> QED BY <1>1 DEF CakeOperations

\* What appending an operation does to the two fronts.
LEMMA AppendOperation ==
  ASSUME operations \in Seq(CakeOperations), NEW op \in CakeOperations,
         operations' = Append(operations, op), NEW k, k = Len(operations) + 1
  PROVE  /\ Len(operations') = k /\ Len(operations) \in Nat
         /\ DOMAIN operations = 1 .. Len(operations)
         /\ DOMAIN operations' = DOMAIN operations \cup {k}
         /\ operations' \in Seq(CakeOperations)
         /\ \A n \in DOMAIN operations : operations'[n] = operations[n]
         /\ operations'[k] = op
         /\ \A a \in {"load", "recompute"} :
              Front(a)' = IF op.action = a THEN Front(a) \cup {k} ELSE Front(a)
         /\ \A n \in DOMAIN operations : Earlier(n)' = Earlier(n)
         /\ Earlier(k)' = Front(op.action)
<1>1. /\ Len(operations') = k /\ Len(operations) \in Nat
      /\ DOMAIN operations = 1 .. Len(operations)
      /\ DOMAIN operations' = 1 .. k
      /\ operations' \in Seq(CakeOperations)
      /\ \A n \in DOMAIN operations : operations'[n] = operations[n]
      /\ operations'[k] = op
  OBVIOUS
<1>2. DOMAIN operations' = DOMAIN operations \cup {k} /\ k \notin DOMAIN operations
  BY <1>1
<1>3. op.action \in {"load", "recompute"}
  BY DEF CakeOperations
<1>4. ASSUME NEW a \in {"load", "recompute"}
      PROVE  Front(a)' = IF op.action = a THEN Front(a) \cup {k} ELSE Front(a)
  BY <1>1, <1>2 DEF Front
<1>5. \A n \in DOMAIN operations : n < k /\ n \in Nat
  BY <1>1
<1>6. ASSUME NEW n \in DOMAIN operations
      PROVE  Earlier(n)' = Earlier(n)
  <2>1. operations'[n] = operations[n] /\ operations[n].action \in {"load", "recompute"}
    BY <1>1, OperationFields
  <2>2. Front(operations[n].action)' \subseteq Front(operations[n].action) \cup {k}
    BY <1>1, <1>2 DEF Front
  <2>3. Front(operations[n].action) \subseteq Front(operations[n].action)'
    BY <1>1, <1>2 DEF Front
  <2>4. ~(k < n)
    BY <1>5, <1>1
  <2> QED BY <2>1, <2>2, <2>3, <2>4 DEF Earlier
<1>7. Earlier(k)' = Front(op.action)
  <2>1. \A n \in Front(op.action) : n \in DOMAIN operations
    BY DEF Front
  <2>2. Front(op.action)' = Front(op.action) \cup {k}
    BY <1>3, <1>4
  <2>3. ~(k < k)
    BY <1>1
  <2>4. Earlier(k)' = { m \in Front(op.action)' : m < k }
    <3>1. operations'[k].action = op.action
      BY <1>1
    <3>2. Front(operations[k].action)' = Front(op.action)'
      BY <3>1 DEF Front
    <3> QED BY <3>2 DEF Earlier
  <2> QED BY <1>5, <2>1, <2>2, <2>3, <2>4
<1> QED BY <1>1, <1>2, <1>4, <1>6, <1>7

\* When a front is free, before and after.
LEMMA FreeAfter ==
  ASSUME operations \in Seq(CakeOperations), NEW op \in CakeOperations,
         operations' = Append(operations, op), NEW k, k = Len(operations) + 1
  PROVE  /\ \A a \in {"load", "recompute"} : FreeAt(Front(a)) \in Nat
         /\ \A n \in DOMAIN operations : FreeAt(Earlier(n))' = FreeAt(Earlier(n))
         /\ FreeAt(Earlier(k))' = FreeAt(Front(op.action))
         /\ \A a \in {"load", "recompute"} :
              FreeAt(Front(a))' = IF op.action = a THEN op.end ELSE FreeAt(Front(a))
<1>1. /\ Len(operations') = k /\ Len(operations) \in Nat
      /\ DOMAIN operations = 1 .. Len(operations)
      /\ \A n \in DOMAIN operations : operations'[n] = operations[n]
      /\ operations'[k] = op
      /\ \A a \in {"load", "recompute"} :
           Front(a)' = IF op.action = a THEN Front(a) \cup {k} ELSE Front(a)
      /\ \A n \in DOMAIN operations : Earlier(n)' = Earlier(n)
      /\ Earlier(k)' = Front(op.action)
  BY AppendOperation
<1>2. \A S \in SUBSET DOMAIN operations :
        S # {} => Max(S) \in S /\ \A x \in S : x <= Max(S)
  <2> SUFFICES ASSUME NEW S \in SUBSET DOMAIN operations, S # {}
               PROVE  Max(S) \in S /\ \A x \in S : x <= Max(S)
    OBVIOUS
  <2> QED BY <1>1, MaxFacts
<1>3. \A a : Front(a) \in SUBSET DOMAIN operations
  BY DEF Front
<1>4. \A n : Earlier(n) \in SUBSET DOMAIN operations
  BY <1>3 DEF Earlier
<1>5. \A n \in DOMAIN operations : operations[n].end \in Nat
  BY OperationFields
<1>6. ASSUME NEW a \in {"load", "recompute"} PROVE FreeAt(Front(a)) \in Nat
  BY <1>2, <1>3, <1>5 DEF FreeAt
<1>7. ASSUME NEW n \in DOMAIN operations PROVE FreeAt(Earlier(n))' = FreeAt(Earlier(n))
  BY <1>1, <1>2, <1>4 DEF FreeAt
<1>8. FreeAt(Earlier(k))' = FreeAt(Front(op.action))
  BY <1>1, <1>2, <1>3 DEF FreeAt
<1>9. ASSUME NEW a \in {"load", "recompute"}
      PROVE  FreeAt(Front(a))' = IF op.action = a THEN op.end ELSE FreeAt(Front(a))
  <2>1. CASE op.action = a
    <3> DEFINE S == Front(a) \cup {k}
    <3>1. S # {} /\ S \subseteq Nat /\ k \in Nat /\ \A x \in S : x <= k
      BY <1>1, <1>3
    <3> HIDE DEF S
    <3>2. Max(S) \in S /\ \A x \in S : x <= Max(S)
      BY <3>1, MaxFacts
    <3>3. Max(S) = k
      <4>1. k \in S
        BY DEF S
      <4>2. Max(S) <= k /\ k <= Max(S) /\ Max(S) \in Nat
        BY <3>1, <3>2, <4>1
      <4> QED BY <3>1, <4>2
    <3>4. Front(a)' = S
      BY <1>1, <2>1 DEF S
    <3> QED BY <1>1, <2>1, <3>1, <3>3, <3>4 DEF FreeAt
  <2>2. CASE op.action # a
    BY <1>1, <1>2, <1>3, <2>2 DEF FreeAt
  <2> QED BY <2>1, <2>2
<1> QED BY <1>6, <1>7, <1>8, <1>9

\* A commitment extends the timeline by the operation it stands for.
LEMMA CommitExtends ==
  ASSUME TimelineMatchesPlan, ScheduleTypeOK, DOMAIN plan = DOMAIN chunks,
         UNCHANGED <<tiers, chunks>>, ScheduleTypeOK',
         NEW i \in DOMAIN chunks, NEW d \in Decision, plan[i] = Unscheduled, d # Unscheduled,
         plan' = [plan EXCEPT ![i] = d],
         operations' = Append(operations, CakeOperation(i)),
         LET cost == IF d.action = "load" THEN estimate_load_time(chunks[i], d.source)
                     ELSE estimate_compute_time(chunks[i])
         IN  \A a \in {"load", "recompute"} :
               FrontTime(a)' = IF a = d.action THEN FrontTime(a) + cost ELSE FrontTime(a)
  PROVE  /\ TimelineMatchesPlan'
         /\ CakeOperation(i) \in CakeOperations
         /\ CakeOperation(i).index = i /\ CakeOperation(i).action = d.action
<1> DEFINE op == CakeOperation(i)
<1>0. PICK k : k = Len(operations) + 1
  OBVIOUS
<1>1. DOMAIN plan = 1 .. Len(chunks) /\ Len(chunks) \in Nat /\ plan'[i] = d
  BY CostFacts
<1>2. d.action \in {"load", "recompute"}
  BY DEF Decision, Unscheduled, Recompute, Load
<1>3. op.index = i /\ op.action = d.action /\ op \in CakeOperations
  BY <1>1, <1>2 DEF CakeOperation, CakeOperations, ScheduleTypeOK
<1>4. op.start = FrontTime(d.action) /\ op.end = FrontTime(d.action)'
  BY <1>1, <1>2 DEF CakeOperation, FrontTime
<1>5. op.end = op.start + (IF d.action = "load" THEN estimate_load_time(chunks[i], d.source)
                           ELSE estimate_compute_time(chunks[i]))
  BY <1>2, <1>4
<1>6. operations \in Seq(CakeOperations)
  BY DEF TimelineMatchesPlan
<1> HIDE DEF op
<1>7. operations' = Append(operations, op)
  BY DEF op
<1>8. /\ Len(operations') = k /\ Len(operations) \in Nat
      /\ DOMAIN operations = 1 .. Len(operations)
      /\ DOMAIN operations' = DOMAIN operations \cup {k}
      /\ operations' \in Seq(CakeOperations)
      /\ \A n \in DOMAIN operations : operations'[n] = operations[n]
      /\ operations'[k] = op
  BY <1>0, <1>3, <1>6, <1>7, AppendOperation
<1>9. /\ \A n \in DOMAIN operations : FreeAt(Earlier(n))' = FreeAt(Earlier(n))
      /\ FreeAt(Earlier(k))' = FreeAt(Front(op.action))
      /\ \A a \in {"load", "recompute"} :
           FreeAt(Front(a))' = IF op.action = a THEN op.end ELSE FreeAt(Front(a))
  BY <1>0, <1>3, <1>6, <1>7, FreeAfter
<1>10. Claimed' = Claimed \cup {i} /\ i \notin Claimed
  BY <1>1 DEF Claimed, Scheduled
<1>11. ASSUME NEW n \in DOMAIN operations
       PROVE  /\ operations'[n].index \in Claimed'
              /\ plan'[operations'[n].index].action = operations'[n].action
              /\ operations'[n].start = FreeAt(Earlier(n))'
              /\ operations'[n].end = operations'[n].start + Duration(operations[n])'
              /\ operations[n].index # i
  <2>1. /\ operations[n].index \in Claimed
        /\ plan[operations[n].index].action = operations[n].action
        /\ operations[n].start = FreeAt(Earlier(n))
        /\ operations[n].end = operations[n].start + Duration(operations[n])
    BY DEF TimelineMatchesPlan
  <2>2. operations[n].index \in DOMAIN plan /\ operations[n].index # i
    BY <1>10, <2>1 DEF Claimed
  <2>3. plan'[operations[n].index] = plan[operations[n].index]
    BY <1>1, <2>2
  <2>4. Duration(operations[n])' = Duration(operations[n])
    <3>1. operations'[n] = operations[n] /\ chunks' = chunks
      BY <1>8
    <3> QED BY <2>3, <3>1 DEF Duration, estimate_load_time, estimate_compute_time
  <2> QED BY <1>8, <1>9, <1>10, <2>1, <2>2, <2>3, <2>4
<1>12. /\ operations'[k].index \in Claimed'
       /\ plan'[operations'[k].index].action = operations'[k].action
       /\ operations'[k].start = FreeAt(Earlier(k))'
       /\ operations'[k].end = operations'[k].start + Duration(operations[k])'
  <2>1. FrontTime(d.action) = FreeAt(Front(d.action))
    BY <1>2 DEF TimelineMatchesPlan
  <2>2. Duration(operations[k])' = IF d.action = "load" THEN estimate_load_time(chunks[i], d.source)
                                   ELSE estimate_compute_time(chunks[i])
    <3>1. operations'[k] = op /\ chunks' = chunks /\ plan'[i] = d
      BY <1>1, <1>8
    <3>2. /\ operations'[k].index = i /\ operations'[k].action = d.action
          /\ chunks'[i] = chunks[i] /\ plan'[i].source = d.source
      BY <1>3, <3>1
    <3> QED BY <3>2 DEF Duration, estimate_load_time, estimate_compute_time, size_bytes, token_count
  <2> QED BY <1>1, <1>3, <1>4, <1>5, <1>8, <1>9, <1>10, <2>1, <2>2
<1>13. \A a \in {"load", "recompute"} : FrontTime(a)' = FreeAt(Front(a))'
  <2> SUFFICES ASSUME NEW a \in {"load", "recompute"} PROVE FrontTime(a)' = FreeAt(Front(a))'
    OBVIOUS
  <2>1. CASE a = d.action
    BY <1>3, <1>4, <1>9, <2>1
  <2>2. CASE a # d.action
    BY <1>3, <1>9, <2>2 DEF TimelineMatchesPlan
  <2> QED BY <2>1, <2>2
<1>14. \A m, n \in DOMAIN operations' :
         operations'[m].index = operations'[n].index => m = n
  <2>1. \A m, n \in DOMAIN operations :
          operations[m].index = operations[n].index => m = n
    BY DEF TimelineMatchesPlan
  <2>2. \A m \in DOMAIN operations : operations'[m].index # operations'[k].index
    BY <1>3, <1>8, <1>11
  <2> QED BY <1>8, <2>1, <2>2
<1>15. Len(operations') = Cardinality(Claimed)'
  <2>1. IsFiniteSet(Claimed)
    <3>1. IsFiniteSet(1 .. Len(chunks)) /\ Claimed \subseteq 1 .. Len(chunks)
      BY <1>1, FS_Interval DEF Claimed
    <3> QED BY <3>1, FS_Subset
  <2>2. Cardinality(Claimed \cup {i}) = Cardinality(Claimed) + 1
    BY <1>10, <2>1, FS_AddElement
  <2>3. Cardinality(Claimed)' = Cardinality(Claimed')
    OBVIOUS
  <2> QED BY <1>0, <1>8, <1>10, <2>2, <2>3 DEF TimelineMatchesPlan
<1>16. ASSUME NEW n \in DOMAIN operations'
       PROVE  /\ operations'[n].index \in Claimed'
              /\ plan'[operations'[n].index].action = operations'[n].action
              /\ operations'[n].start = FreeAt(Earlier(n))'
              /\ operations'[n].end = operations'[n].start + Duration(operations[n])'
  <2>1. n \in DOMAIN operations \/ n = k
    BY <1>8
  <2> QED BY <1>11, <1>12, <2>1
<1> QED BY <1>3, <1>8, <1>13, <1>14, <1>15, <1>16 DEF TimelineMatchesPlan, op

\* The steps that commit nothing.
LEMMA NothingCommitted ==
  ASSUME TimelineInv, UNCHANGED <<tiers, chunks, plan, computeTime, loadTime, computeIndex, operations>>,
         ScheduleTypeOK, loadIndex' \in Nat, loadIndex' <= loadIndex,
         phase' = "scan" => phase = "scan"
  PROVE  TimelineInv'
<1>1. /\ \A a : Front(a)' = Front(a) /\ FrontTime(a)' = FrontTime(a)
      /\ \A a : FreeAt(Front(a))' = FreeAt(Front(a))
      /\ \A n : Earlier(n)' = Earlier(n) /\ FreeAt(Earlier(n))' = FreeAt(Earlier(n))
      /\ Claimed' = Claimed
  BY DEF Front, FrontTime, Earlier, FreeAt, Claimed, Scheduled
<1>2. \A n : Duration(operations[n])' = Duration(operations[n])
  BY DEF Duration, estimate_load_time, estimate_compute_time
<1>3. TimelineMatchesPlan'
  BY <1>1, <1>2 DEF TimelineInv, TimelineMatchesPlan
<1>4. \A n \in Front("load") : operations[n].index \in Nat
  BY OperationFields DEF TimelineInv, TimelineMatchesPlan, Front
<1>5. FrontsBehind'
  BY <1>1, <1>4 DEF TimelineInv, FrontsBehind, IndexesOf, ScheduleTypeOK
<1> QED BY <1>3, <1>5 DEF TimelineInv

\* Before the scan nothing is committed.
NothingPlanned ==
  /\ operations = <<>> /\ \A i \in DOMAIN plan : plan[i] = Unscheduled
  /\ computeTime = 0 /\ loadTime = 0 /\ computeIndex = 1

LEMMA NothingYet == NothingPlanned => TimelineInv
<1> SUFFICES ASSUME NothingPlanned PROVE TimelineInv
  OBVIOUS
<1> USE DEF NothingPlanned
<1>1. /\ \A a : Front(a) = {} /\ FreeAt(Front(a)) = 0
      /\ Claimed = {} /\ Cardinality(Claimed) = 0 /\ Len(operations) = 0
  BY FS_EmptySet DEF Front, FreeAt, Claimed, Scheduled
<1>2. TimelineMatchesPlan
  BY <1>1 DEF TimelineMatchesPlan, FrontTime
<1>3. FrontsBehind
  BY <1>1 DEF FrontsBehind, IndexesOf
<1> QED BY <1>2, <1>3 DEF TimelineInv

LEMMA LoadRecorded ==
  ASSUME CakeInv, CakeInv', TimelineInv, ClaimLoad, UNCHANGED <<tiers, request, pos, chunks>>,
         operations' = Append(operations, CakeOperation(loadIndex))
  PROVE  TimelineInv'
<1> DEFINE op == CakeOperation(loadIndex)
           d == Load(find_cached(chunks[loadIndex]))
<1>0. CakeStep /\ Scanning
  BY DEF CakeStep, ClaimLoad
<1>1. /\ loadIndex \in DOMAIN chunks /\ plan[loadIndex] = Unscheduled
      /\ ScheduleTypeOK /\ ScheduleTypeOK' /\ DOMAIN plan = DOMAIN chunks
  BY <1>0, ScanFacts, StepFacts DEF CakeInv, ScheduleShape
<1>2. d \in Decision /\ d # Unscheduled /\ d.action = "load" /\ d.source = find_cached(chunks[loadIndex])
  <2>1. Source[loadIndex] = find_cached(chunks[loadIndex]) /\ (Source[loadIndex] # NoTier => Source[loadIndex] \in Tiers)
    BY <1>1, SourceFacts
  <2> QED BY <2>1 DEF ClaimLoad, Decision, Load, Unscheduled
<1>3. /\ plan' = [plan EXCEPT ![loadIndex] = d]
      /\ loadTime' = loadTime + estimate_load_time(chunks[loadIndex], d.source)
      /\ computeTime' = computeTime
      /\ loadIndex' = loadIndex - 1 /\ computeIndex' = computeIndex /\ phase' = phase
  BY <1>2 DEF ClaimLoad, LoadNext
<1> HIDE DEF d
<1>4. /\ TimelineMatchesPlan' /\ op \in CakeOperations
      /\ op.index = loadIndex /\ op.action = "load"
  <2>1. \A a \in {"load", "recompute"} :
          FrontTime(a)' = IF a = d.action
                          THEN FrontTime(a) + estimate_load_time(chunks[loadIndex], d.source)
                          ELSE FrontTime(a)
    BY <1>2, <1>3 DEF FrontTime
  <2>2. TimelineMatchesPlan
    BY DEF TimelineInv
  <2> QED BY <1>1, <1>2, <1>3, <2>1, <2>2, CommitExtends
<1>5. operations \in Seq(CakeOperations)
  BY DEF TimelineInv, TimelineMatchesPlan
<1> HIDE DEF op
<1>6. operations' = Append(operations, op)
  BY DEF op
<1>15. PICK k : k = Len(operations) + 1
  OBVIOUS
<1>7. /\ \A n \in DOMAIN operations : operations'[n] = operations[n] /\ n < k /\ ~(k < n)
      /\ operations'[k] = op
      /\ Front("load")' = Front("load") \cup {k}
      /\ Front("recompute")' = Front("recompute")
      /\ \A n \in DOMAIN operations : Earlier(n)' = Earlier(n)
  BY <1>4, <1>5, <1>6, <1>15, AppendOperation
<1>8. /\ \A a : Front(a) \in SUBSET DOMAIN operations
      /\ \A n : Earlier(n) \in SUBSET DOMAIN operations
      /\ \A n \in DOMAIN operations : operations[n].index \in Nat
  BY <1>5, OperationFields DEF Front, Earlier
<1>9. loadIndex \in Nat
  BY <1>1 DEF ScheduleTypeOK
<1>10. k \notin DOMAIN operations /\ ~(k < k)
  BY <1>5, <1>15
<1>11. \A n \in Front("load")' : operations'[n].index > loadIndex'
  <2>1. \A n \in Front("load") : operations[n].index > loadIndex
    BY DEF TimelineInv, FrontsBehind
  <2>2. \A n \in Front("load") : operations'[n] = operations[n] /\ operations[n].index \in Nat
    BY <1>7, <1>8
  <2>3. ASSUME NEW n \in Front("load") PROVE operations'[n].index > loadIndex - 1
    <3>1. /\ operations[n].index > loadIndex /\ operations[n].index \in Nat
          /\ operations'[n].index = operations[n].index
      BY <2>1, <2>2
    <3> QED BY <1>9, <3>1
  <2>4. operations'[k].index > loadIndex - 1
    BY <1>4, <1>7, <1>9
  <2> QED BY <1>3, <1>7, <2>3, <2>4
<1>12. \A m, n \in Front("load")' : m < n => operations'[m].index > operations'[n].index
  BY <1>4, <1>7, <1>8, <1>9, <1>10 DEF TimelineInv, FrontsBehind
<1>13. /\ IndexesOf(Front("recompute"))' = IndexesOf(Front("recompute"))
       /\ \A n \in Front("recompute") : IndexesOf(Earlier(n))' = IndexesOf(Earlier(n))
  BY <1>7, <1>8 DEF IndexesOf
<1>14. FrontsBehind'
  BY <1>3, <1>7, <1>8, <1>11, <1>12, <1>13 DEF TimelineInv, FrontsBehind
<1> QED BY <1>4, <1>14 DEF TimelineInv

\* A computation leaves the I/O front where it is.
LEMMA ComputeRecorded ==
  ASSUME CakeInv, CakeInv', TimelineInv, UNCHANGED <<tiers, request, pos, chunks, loadIndex, loadTime, phase>>,
         NEW i \in DOMAIN chunks, plan[i] = Unscheduled,
         plan' = [plan EXCEPT ![i] = Recompute],
         computeTime' = computeTime + estimate_compute_time(chunks[i]),
         phase = "scan" => i = computeIndex /\ computeIndex' = computeIndex + 1,
         phase # "split",
         operations' = Append(operations, CakeOperation(i))
  PROVE  TimelineInv'
<1> DEFINE op == CakeOperation(i)
<1>1. ScheduleTypeOK /\ ScheduleTypeOK' /\ DOMAIN plan = DOMAIN chunks
  BY DEF CakeInv, ScheduleShape
<1>2. Recompute \in Decision /\ Recompute # Unscheduled /\ Recompute.action = "recompute"
  BY DEF Decision, Recompute, Unscheduled
<1>3. /\ TimelineMatchesPlan' /\ op \in CakeOperations
      /\ op.index = i /\ op.action = "recompute"
  <2>1. \A a \in {"load", "recompute"} :
          FrontTime(a)' = IF a = Recompute.action
                          THEN FrontTime(a) + estimate_compute_time(chunks[i])
                          ELSE FrontTime(a)
    BY <1>2 DEF FrontTime
  <2>2. TimelineMatchesPlan
    BY DEF TimelineInv
  <2> QED BY <1>1, <1>2, <2>1, <2>2, CommitExtends
<1>4. operations \in Seq(CakeOperations)
  BY DEF TimelineInv, TimelineMatchesPlan
<1> HIDE DEF op
<1>5. operations' = Append(operations, op)
  BY DEF op
<1>11. PICK k : k = Len(operations) + 1
  OBVIOUS
<1>6. /\ \A n \in DOMAIN operations : operations'[n] = operations[n]
      /\ operations'[k] = op
      /\ Front("load")' = Front("load")
      /\ Front("recompute")' = Front("recompute") \cup {k}
      /\ \A n \in DOMAIN operations : Earlier(n)' = Earlier(n)
      /\ Earlier(k)' = Front("recompute")
  BY <1>3, <1>4, <1>5, <1>11, AppendOperation
<1>7. /\ \A a : Front(a) \in SUBSET DOMAIN operations
      /\ \A n : Earlier(n) \in SUBSET DOMAIN operations
  BY DEF Front, Earlier
<1>8. /\ \A n \in Front("load")' : operations'[n].index > loadIndex'
      /\ \A m, n \in Front("load")' : m < n => operations'[m].index > operations'[n].index
  BY <1>6, <1>7 DEF TimelineInv, FrontsBehind
<1>9. ASSUME phase' = "scan"
      PROVE  /\ IndexesOf(Front("recompute"))' = 1 .. computeIndex' - 1
             /\ \A n \in Front("recompute")' :
                  IndexesOf(Earlier(n))' = 1 .. operations'[n].index - 1
  <2>1. i = computeIndex /\ computeIndex' = computeIndex + 1 /\ computeIndex \in Nat \ {0}
    BY <1>1, <1>9 DEF ScheduleTypeOK
  <2>2. IndexesOf(Front("recompute")) = 1 .. computeIndex - 1
    BY <1>9 DEF TimelineInv, FrontsBehind
  <2>3. IndexesOf(Front("recompute"))' = IndexesOf(Front("recompute")) \cup {i}
    <3>1. \A n \in Front("recompute") : operations'[n] = operations[n]
      BY <1>6, <1>7
    <3>2. operations'[k].index = i
      BY <1>3, <1>6
    <3>3. IndexesOf(Front("recompute"))' = { operations'[n].index : n \in Front("recompute") \cup {k} }
      BY <1>6 DEF IndexesOf
    <3> QED BY <3>1, <3>2, <3>3 DEF IndexesOf
  <2>4. IndexesOf(Earlier(k))' = IndexesOf(Front("recompute"))
    BY <1>6, <1>7 DEF IndexesOf
  <2>5. \A n \in Front("recompute") : IndexesOf(Earlier(n))' = IndexesOf(Earlier(n))
    BY <1>6, <1>7 DEF IndexesOf
  <2>6. \A n \in Front("recompute") : IndexesOf(Earlier(n)) = 1 .. operations[n].index - 1
    BY <1>9 DEF TimelineInv, FrontsBehind
  <2>7. 1 .. computeIndex' - 1 = (1 .. computeIndex - 1) \cup {i}
    BY <2>1
  <2>8. ASSUME NEW n \in Front("recompute")'
        PROVE  IndexesOf(Earlier(n))' = 1 .. operations'[n].index - 1
    <3>1. CASE n = k
      BY <1>3, <1>6, <2>1, <2>2, <2>4, <3>1
    <3>2. CASE n \in Front("recompute")
      BY <1>6, <1>7, <2>5, <2>6, <3>2
    <3> QED BY <1>6, <3>1, <3>2
  <2> QED BY <2>2, <2>3, <2>7, <2>8
<1>10. FrontsBehind'
  BY <1>8, <1>9 DEF FrontsBehind
<1> QED BY <1>3, <1>10 DEF TimelineInv

LEMMA TimelineStep ==
  ASSUME CakeInv, CakeInv', TimelineInv, TimelineNext
  PROVE  TimelineInv'
<1>1. CASE Split \/ StartScan
  <2>1. /\ plan = <<>> /\ computeTime = 0 /\ loadTime = 0 /\ computeIndex = 1
        /\ UNCHANGED <<computeTime, loadTime, computeIndex>>
    BY <1>1 DEF CakeInv, FrontsOrdered, Split, SplitStep, SplitShared, SplitPrivate,
                StartScan, SplitDone, frontVars
  <2>2. \A i \in DOMAIN plan' : plan'[i] = Unscheduled
    BY <1>1, <2>1 DEF Split, StartScan
  <2>3. Claimed = {} /\ Committed = {}
    BY <2>1 DEF Claimed, Committed
  <2>4. Len(operations) = 0 /\ operations \in Seq(CakeOperations)
    BY <2>3, FS_EmptySet DEF TimelineInv, TimelineMatchesPlan
  <2>5. operations' = <<>>
    BY <2>3, <2>4 DEF TimelineNext
  <2>6. computeTime' = 0 /\ loadTime' = 0 /\ computeIndex' = 1
    BY <2>1
  <2>7. NothingPlanned'
    BY <2>2, <2>5, <2>6 DEF NothingPlanned
  <2>8. NothingPlanned' => TimelineInv'
    BY NothingYet, PTL
  <2> QED BY <2>7, <2>8
<1>2. CASE Cake
  <2>1. CakeStep /\ UNCHANGED <<tiers, request, pos, chunks>>
    BY <1>2 DEF TimelineNext, CakeNext, Cake
  <2>2. /\ DOMAIN plan = DOMAIN chunks /\ ScheduleTypeOK /\ phase # "split"
        /\ DOMAIN chunks = 1 .. Len(chunks) /\ Len(chunks) \in Nat
        /\ computeIndex \in Nat \ {0} /\ loadIndex \in Nat /\ sweepIndex \in Nat \ {0}
    BY <2>1, StepFacts
  <2>3. \A i \in DOMAIN plan : \A d :
          /\ plan[i] = Unscheduled /\ d # Unscheduled
          /\ plan' = [plan EXCEPT ![i] = d]
          => operations' = Append(operations, CakeOperation(i))
    <3> SUFFICES ASSUME NEW i \in DOMAIN plan, NEW d, plan[i] = Unscheduled, d # Unscheduled,
                        plan' = [plan EXCEPT ![i] = d]
                 PROVE  operations' = Append(operations, CakeOperation(i))
      OBVIOUS
    <3>1. plan \in Seq(Decision)
      BY <2>2 DEF ScheduleTypeOK
    <3>2. Committed = {i}
      BY <3>1 DEF Committed
    <3> QED BY <3>2 DEF TimelineNext
  <2>4. plan' = plan => UNCHANGED operations
    BY DEF TimelineNext, Committed
  <2>5. Recompute # Unscheduled /\ \A t : Load(t) # Unscheduled
    BY DEF Recompute, Unscheduled, Load
  <2>6. ASSUME Scanning
        PROVE  /\ computeIndex \in DOMAIN chunks /\ loadIndex \in DOMAIN chunks
               /\ plan[computeIndex] = Unscheduled /\ plan[loadIndex] = Unscheduled
    BY <2>1, <2>6, ScanFacts
  <2>7. CASE SkipUncached
    <3>1. loadIndex' = loadIndex - 1 /\ loadIndex' \in Nat
      BY <2>2, <2>6, <2>7 DEF SkipUncached
    <3> QED BY <2>1, <2>2, <2>4, <2>7, <3>1, NothingCommitted DEF SkipUncached
  <2>8. CASE ClaimLoad
    <3>1. operations' = Append(operations, CakeOperation(loadIndex))
      BY <2>2, <2>3, <2>5, <2>6, <2>8 DEF ClaimLoad
    <3> QED BY <2>1, <2>8, <3>1, LoadRecorded
  <2>9. CASE ClaimCompute
    <3>1. operations' = Append(operations, CakeOperation(computeIndex))
      BY <2>2, <2>3, <2>5, <2>6, <2>9 DEF ClaimCompute
    <3> QED BY <2>1, <2>2, <2>6, <2>9, <3>1, ComputeRecorded DEF ClaimCompute, ComputeNext
  <2>10. CASE FrontsCross \/ SweepDone
    BY <2>1, <2>2, <2>4, <2>10, NothingCommitted DEF FrontsCross, SweepDone, frontVars
  <2>11. CASE SweepChunk
    <3>1. sweepIndex \in DOMAIN chunks /\ phase = "sweep" /\ phase' = phase
      BY <2>2, <2>11 DEF SweepChunk
    <3>2. CASE Scheduled(sweepIndex)
      <4>1. UNCHANGED <<plan, computeTime, computeIndex, loadIndex, loadTime, phase>>
        BY <2>11, <3>2 DEF SweepChunk
      <4> QED BY <2>1, <2>2, <2>4, <4>1, NothingCommitted
    <3>3. CASE ~Scheduled(sweepIndex)
      <4>1. /\ plan' = [plan EXCEPT ![sweepIndex] = Recompute]
            /\ computeTime' = computeTime + estimate_compute_time(chunks[sweepIndex])
            /\ UNCHANGED <<computeIndex, loadIndex, loadTime, phase>>
            /\ plan[sweepIndex] = Unscheduled
        BY <2>11, <3>3 DEF SweepChunk, Scheduled
      <4>2. operations' = Append(operations, CakeOperation(sweepIndex))
        BY <2>2, <2>3, <2>5, <3>1, <4>1
      <4> QED BY <2>1, <3>1, <4>1, <4>2, ComputeRecorded
    <3> QED BY <3>2, <3>3
  <2> QED BY <2>1, <2>7, <2>8, <2>9, <2>10, <2>11 DEF CakeStep
<1> QED BY <1>1, <1>2 DEF TimelineNext, CakeNext

LEMMA TimelineStutter ==
  ASSUME TimelineInv, CakeInv, UNCHANGED timelineVars
  PROVE  TimelineInv'
<1>1. /\ UNCHANGED <<tiers, chunks, plan, computeTime, loadTime, computeIndex, operations>>
      /\ loadIndex' = loadIndex /\ phase' = phase
  BY DEF timelineVars, cakeVars, chunkingVars, frontVars
<1>2. ScheduleTypeOK /\ loadIndex \in Nat
  BY DEF CakeInv, ScheduleShape, ScheduleTypeOK
<1> QED BY <1>1, <1>2, NothingCommitted

LEMMA TimelineHolds == TimelineSpec => []TimelineInv
<1>1. TimelineInit => TimelineInv
  <2> SUFFICES ASSUME TimelineInit PROVE TimelineInv
    OBVIOUS
  <2>1. /\ operations = <<>> /\ plan = <<>> /\ computeTime = 0 /\ loadTime = 0 /\ computeIndex = 1
    BY DEF TimelineInit, CakeInit
  <2> QED BY <2>1, NothingYet DEF NothingPlanned
<1>2. CakeInv /\ CakeInv' /\ TimelineInv /\ [TimelineNext]_timelineVars => TimelineInv'
  BY TimelineStep, TimelineStutter
<1> QED BY <1>1, <1>2, TimelineInvariant, PTL DEF TimelineSpec

\* The two fronts are two resources: on each of them the operations follow
\* one another without gap or overlap, as long as the cost model says, up to
\* the time that the summary reports, and every chunk has one operation.
THEOREM TimelineConsistent == TimelineSpec => []TimelineIsConsistent
<1>1. ASSUME TimelineInv, CakeInv PROVE TimelineIsConsistent
  <2>1. ASSUME phase = "scheduled" PROVE Len(operations) = Len(chunks)
    <3>1. /\ DOMAIN plan = DOMAIN chunks /\ ScheduleTypeOK
          /\ computeIndex = loadIndex + 1 /\ sweepIndex > Len(chunks)
      BY <1>1, <2>1 DEF CakeInv, ScheduleShape, FrontsOrdered
    <3>2. DOMAIN chunks = 1 .. Len(chunks) /\ Len(chunks) \in Nat
      BY <3>1, CostFacts
    <3>3. ASSUME NEW i \in DOMAIN chunks PROVE plan[i] # Unscheduled
      <4>1. plan[i] = PlannedAt(i)
        BY <1>1, <2>1 DEF CakeInv, PlanFollowsFronts
      <4>2. PlannedAt(i) = Unscheduled <=>
              /\ i >= computeIndex
              /\ i <= loadIndex \/ (Source[i] = NoTier /\ i >= sweepIndex)
        BY <3>1, SourceFacts
      <4>3. computeIndex \in Nat /\ loadIndex \in Nat /\ sweepIndex \in Nat /\ i \in Nat /\ i <= Len(chunks)
        BY <3>1, <3>2 DEF ScheduleTypeOK
      <4> QED BY <3>1, <3>2, <4>1, <4>2, <4>3
    <3>4. Claimed = 1 .. Len(chunks)
      BY <3>1, <3>2, <3>3 DEF Claimed, Scheduled
    <3>5. Cardinality(Claimed) = Len(chunks)
      BY <3>2, <3>4, IntervalSize
    <3> QED BY <1>1, <3>5 DEF TimelineInv, TimelineMatchesPlan
  <2> QED BY <1>1, <2>1 DEF TimelineInv, TimelineMatchesPlan, TimelineIsConsistent
<1> QED BY <1>1, TimelineHolds, TimelineInvariant, PTL

\* The fronts come towards each other and never pass: what was computed in the
\* scan, from the first chunk on and without a gap, lies before what was loaded.
THEOREM FrontsMeet == TimelineSpec => []FrontsApproach
<1>1. ASSUME TimelineInv, CakeInv PROVE FrontsApproach
  <2>1. \A m, n \in Front("load") : m < n => operations[m].index > operations[n].index
    BY <1>1 DEF TimelineInv, FrontsBehind
  <2>2. ASSUME phase = "scan", NEW n \in Front("recompute")
        PROVE  /\ IndexesOf(Earlier(n)) = 1 .. operations[n].index - 1
               /\ \A m \in Front("load") : operations[n].index < operations[m].index
    <3>1. /\ IndexesOf(Front("recompute")) = 1 .. computeIndex - 1
          /\ IndexesOf(Earlier(n)) = 1 .. operations[n].index - 1
          /\ \A m \in Front("load") : operations[m].index > loadIndex
          /\ computeIndex <= loadIndex + 1
      BY <1>1, <2>2 DEF TimelineInv, FrontsBehind, CakeInv, FrontsOrdered
    <3>2. operations[n].index \in 1 .. computeIndex - 1
      BY <2>2, <3>1 DEF IndexesOf
    <3>3. \A m \in Front("load") : operations[m].index \in Nat
      BY <1>1, OperationFields DEF TimelineInv, TimelineMatchesPlan, Front
    <3>4. computeIndex \in Nat /\ loadIndex \in Nat
      BY <1>1 DEF CakeInv, ScheduleShape, ScheduleTypeOK
    <3> QED BY <3>1, <3>2, <3>3, <3>4
  <2> QED BY <2>1, <2>2 DEF FrontsApproach, IndexesOf
<1> QED BY <1>1, TimelineHolds, TimelineInvariant, PTL

=============================================================================
