----------------------------- MODULE ChunkCache ------------------------------
(***************************************************************************)
(* What pkg/cache promises of GetOrCreate and Exists when nothing is       *)
(* evicted: a chunk, once whole, stays; it is fetched by one call at a     *)
(* time, and only while it is not whole; a call of GetOrCreate gets the    *)
(* whole chunk or the error of its own fetch.                              *)
(*                                                                         *)
(* Files that an earlier process left behind are the exception for Exists: *)
(* it overlooks them until a call has opened them, and then takes them for *)
(* cached although they may be the first part of a chunk only.             *)
(***************************************************************************)
CONSTANTS Calls, Keys, None

VARIABLES
  whole,     \* the chunks that are on disk from the first to the last byte
  left,      \* the chunks that were there, whole or in part, at the start
  want,      \* the key that each call asks for
  fetching,  \* the key that each call fetches
  answer     \* "none" until the call returns

vars == <<whole, left, want, fetching, answer>>

Init ==
  /\ left \in SUBSET Keys
  /\ whole \in SUBSET left
  /\ want = [c \in Calls |-> None]
  /\ fetching = [c \in Calls |-> None]
  /\ answer = [c \in Calls |-> "none"]

Answers(c, a) == answer[c] = "none" /\ fetching[c] = None /\ answer' = [answer EXCEPT ![c] = a]

Ask(c, k) ==
  /\ want[c] = None
  /\ want' = [want EXCEPT ![c] = k]
  /\ UNCHANGED <<whole, left, fetching, answer>>

(* The first call to find the chunk missing fetches it; others wait. *)
Fetch(c) ==
  /\ want[c] \in Keys \ whole
  /\ answer[c] = "none"
  /\ \A d \in Calls : fetching[d] # want[c]
  /\ fetching' = [fetching EXCEPT ![c] = want[c]]
  /\ UNCHANGED <<whole, left, want, answer>>

FetchSucceeds(c) ==
  /\ fetching[c] # None
  /\ whole' = whole \cup {fetching[c]}
  /\ fetching' = [fetching EXCEPT ![c] = None]
  /\ UNCHANGED <<left, want, answer>>

FetchFails(c) ==
  /\ fetching[c] # None
  /\ fetching' = [fetching EXCEPT ![c] = None]
  /\ answer' = [answer EXCEPT ![c] = "err"]
  /\ UNCHANGED <<whole, left, want>>

Get(c) ==
  /\ want[c] \in whole
  /\ Answers(c, "ok")
  /\ UNCHANGED <<whole, left, want, fetching>>

Exists(c, k) ==
  /\ want[c] \in {None, k}
  /\ want' = [want EXCEPT ![c] = k]
  /\ \/ k \in whole \cup left /\ Answers(c, "yes")
     \/ k \notin whole \ left /\ Answers(c, "no")
  /\ UNCHANGED <<whole, left, fetching>>

Next ==
  \E c \in Calls :
    \/ \E k \in Keys : Ask(c, k) \/ Exists(c, k)
    \/ Fetch(c) \/ FetchSucceeds(c) \/ FetchFails(c) \/ Get(c)

Spec == Init /\ [][Next]_vars
=============================================================================
