---------------------------- MODULE PrefixStore -----------------------------
(***************************************************************************)
(* What the write-through hierarchy promises, without chunks, keys, tiers, *)
(* schedules, evictions or policies: of every document one prefix can be   *)
(* loaded.  Requests are served one at a time; each asks for a prefix of   *)
(* one document, extends what can be loaded of that document at most as    *)
(* far as it asked, and is not done before all of it can be loaded.        *)
(* Nothing that could be loaded is ever lost.                              *)
(***************************************************************************)
EXTENDS Integers

CONSTANTS
  Docs,         \* the documents
  NoRequest     \* no request is being served

VARIABLES
  warm,         \* warm[d]: length of the prefix of document d that can be loaded
  current       \* [doc, len]: the prefix being served, or NoRequest

storeVars == <<warm, current>>

Serving == current # NoRequest

StoreInit ==
  /\ warm = [d \in Docs |-> 0]
  /\ current = NoRequest

\* The next request arrives, for any prefix of any document.
Begin ==
  /\ ~Serving
  /\ current' # NoRequest
  /\ current'.doc \in Docs
  /\ UNCHANGED warm

\* More of the requested prefix becomes loadable.
Extend ==
  /\ Serving
  /\ \E n \in warm[current.doc] + 1 .. current.len :
       warm' = [warm EXCEPT ![current.doc] = n]
  /\ UNCHANGED current

Finish ==
  /\ Serving
  /\ warm[current.doc] >= current.len
  /\ current' = NoRequest
  /\ UNCHANGED warm

StoreNext == Begin \/ Extend \/ Finish

StoreSpec == StoreInit /\ [][StoreNext]_storeVars

=============================================================================
