----------------------------- MODULE QueueCache -----------------------------
(***************************************************************************)
(* What FIFO and LRU promise, without clocks, stamps, capacities or        *)
(* sizes: the resident keys wait in line, only the first is ever evicted,  *)
(* only while an insertion is under way, and an inserted key joins at the  *)
(* end.  A hit moves a key to the end (LRU) or leaves it in place (FIFO).  *)
(* The calls are counted, so that a hit that changes nothing is a step.    *)
(***************************************************************************)
EXTENDS Integers

CONSTANTS
  NoKey,        \* no key
  HitMoves      \* TRUE for LRU, FALSE for FIFO

VARIABLES
  members,      \* the resident keys
  ahead,        \* the line: the pairs <<a, b>> of members where a is before b
  incoming,     \* the key being inserted, or NoKey
  asked,        \* the key of the last call, or NoKey if it was refused
  count         \* the number of calls so far

queueVars == <<members, ahead, incoming, asked, count>>

QueueInit ==
  /\ members = {}
  /\ ahead = {}
  /\ incoming = NoKey
  /\ asked = NoKey
  /\ count = 0

\* Calls are answered one at a time.
Ask(k) ==
  /\ incoming = NoKey
  /\ asked' = k
  /\ count' = count + 1

Without(k) == { p \in ahead : k \notin {p[1], p[2]} }

Leave(k) ==
  /\ members' = members \ {k}
  /\ ahead' = Without(k)

Refuse ==
  /\ Ask(NoKey)
  /\ UNCHANGED <<members, ahead, incoming>>

Miss(k) ==
  /\ Ask(k)
  /\ k \notin members
  /\ UNCHANGED <<members, ahead, incoming>>

Hit(k) ==
  /\ Ask(k)
  /\ k \in members
  /\ ahead' = IF HitMoves THEN Without(k) \cup (members \ {k}) \X {k} ELSE ahead
  /\ UNCHANGED <<members, incoming>>

\* A key that is already resident gives up its place.
BeginInsert(k) ==
  /\ Ask(k)
  /\ incoming' = k
  /\ Leave(k)

EvictHead ==
  /\ incoming # NoKey
  /\ \E k \in members :
       /\ \A other \in members \ {k} : <<k, other>> \in ahead
       /\ Leave(k)
  /\ UNCHANGED <<incoming, asked, count>>

EndInsert ==
  /\ incoming # NoKey
  /\ incoming \notin members
  /\ members' = members \cup {incoming}
  /\ ahead' = ahead \cup members \X {incoming}
  /\ incoming' = NoKey
  /\ UNCHANGED <<asked, count>>

\* The key asked for is read off the successor state, so that the
\* specification needs no set of keys to range over.
QueueNext ==
  \/ Refuse
  \/ asked' # NoKey /\ (Miss(asked') \/ Hit(asked') \/ BeginInsert(asked'))
  \/ EvictHead
  \/ EndInsert

QueueSpec == QueueInit /\ [][QueueNext]_queueVars

=============================================================================
