---------------------------- MODULE CakeTimeline ----------------------------
(***************************************************************************)
(* The timeline that the Cake scheduler returns (scheduler.py,             *)
(* CakeOperation and CakeScheduleSummary.operations): each commitment of   *)
(* CakeRequest appends one operation with its start and end time.          *)
(***************************************************************************)
EXTENDS CakeRequest

VARIABLE
  operations        \* operations, in the order in which they were committed

timelineVars == <<cakeVars, operations>>

TimelineInit == CakeInit /\ operations = <<>>

\* The chunk that a step commits to one of the fronts, if any.
Committed == { i \in DOMAIN plan : plan'[i] # plan[i] }

CakeOperation(i) ==
  [index  |-> i,
   action |-> plan'[i].action,
   start  |-> IF plan'[i].action = "load" THEN loadTime ELSE computeTime,
   end    |-> IF plan'[i].action = "load" THEN loadTime' ELSE computeTime']

TimelineNext ==
  /\ CakeNext
  /\ \/ \E i \in Committed : operations' = Append(operations, CakeOperation(i))
     \/ Committed = {} /\ UNCHANGED operations

TimelineSpec ==
  TimelineInit /\ [][TimelineNext]_timelineVars /\ WF_timelineVars(TimelineNext)

-----------------------------------------------------------------------------
\* The operations of one front, and those of them committed before operation n.
Front(action) == { n \in DOMAIN operations : operations[n].action = action }

Earlier(n) == { m \in Front(operations[n].action) : m < n }

\* When the last of these operations of a front ends.
FreeAt(ops) == IF ops = {} THEN 0 ELSE operations[Max(ops)].end

FrontTime(action) == IF action = "load" THEN loadTime ELSE computeTime

Duration(op) ==
  IF op.action = "load"
  THEN estimate_load_time(chunks[op.index], plan[op.index].source)
  ELSE estimate_compute_time(chunks[op.index])

\* Each front is one resource: its operations follow each other without gap
\* or overlap, each as long as the cost model says, and the last ends at the
\* time the summary reports for the front; every chunk has one operation.
TimelineIsConsistent ==
  /\ \A n \in DOMAIN operations :
       /\ operations[n].start = FreeAt(Earlier(n))
       /\ operations[n].end = operations[n].start + Duration(operations[n])
  /\ \A action \in {"load", "recompute"} : FrontTime(action) = FreeAt(Front(action))
  /\ \A m, n \in DOMAIN operations :
       operations[m].index = operations[n].index => m = n
  /\ phase = "scheduled" => Len(operations) = Len(chunks)

\* The fronts approach each other and never pass: the I/O front goes strictly
\* backward, the compute front starts at the first chunk and leaves none out,
\* and what it computed in the scan lies before everything that was loaded.
FrontsApproach ==
  /\ \A m, n \in Front("load") : m < n => operations[m].index > operations[n].index
  /\ phase = "scan" =>
       \A n \in Front("recompute") :
         /\ { operations[m].index : m \in Earlier(n) } = 1 .. operations[n].index - 1
         /\ \A m \in Front("load") : operations[n].index < operations[m].index

Loadable == { i \in DOMAIN chunks : find_cached(chunks[i]) # NoTier }

LongestCompute == Max({ estimate_compute_time(chunks[i]) : i \in DOMAIN chunks })

LongestLoad ==
  Max({ estimate_load_time(chunks[i], find_cached(chunks[i])) : i \in Loadable } \cup {0})

\* Both fronts are kept busy: during the scan neither clock runs ahead of the
\* other by more than one operation ("the cheaper front advances").
FrontsStayBalanced ==
  phase = "scan" =>
    /\ loadTime <= computeTime + LongestCompute
    /\ computeTime <= loadTime + LongestLoad

LoadOnlyTime ==
  SumFunction([i \in DOMAIN chunks |->
    IF i \in Loadable
    THEN estimate_load_time(chunks[i], find_cached(chunks[i]))
    ELSE estimate_compute_time(chunks[i])])

\* Computing in parallel never costs anything: the estimated TTFT is at most
\* the time of loading whatever can be loaded and then computing the rest,
\* also where the I/O front passes over chunks it cannot load.
NeverWorseThanLoadOnly ==
  phase = "scheduled" => total_estimated_ttft <= LoadOnlyTime

=============================================================================
