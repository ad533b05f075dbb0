------------------------- MODULE FileCacheOwnership --------------------------
(***************************************************************************)
(* Proofs about FileCache: who owns an item, and what fdCnt counts.        *)
(***************************************************************************)
EXTENDS FileCacheProofs, FiniteSetTheorems

-----------------------------------------------------------------------------
(***************************************************************************)
(* Ownership.  An item whose Set has been accepted is in one place only:   *)
(* the set buffer, the store, or the hands of a goroutine that drops it.   *)
(***************************************************************************)
NotSetYet == NoItemYet \cup {"set"}

InStore(i) == \E k \in Keys : store[k] = i
IsDropping(i) == \E g \in Goroutines : dropping[g] = i

SetOpens == \A c \in Calls : pc[c] = "set" => file[c] = "open"
NotSetNowhere ==
  \A i \in Calls : pc[i] \in NotSetYet => ~InBuf(i) /\ ~InStore(i) /\ ~IsDropping(i)
BufDistinct == Distinct(setBuf)
BufOpen == \A i \in Calls : InBuf(i) => file[i] = "open" /\ ~InStore(i)
OwnInv == SetOpens /\ NotSetNowhere /\ BufDistinct /\ BufOpen /\ StoreHoldsOpenItems /\ DroppedOnce

(* The types of what ownership is about. *)
LEMMA OwnTypes ==
  ASSUME TypeInv
  PROVE  /\ pc \in [Calls -> PCs] /\ file \in [Calls -> {"none", "open", "nil"}]
         /\ store \in [Keys -> Calls \cup {None}] /\ setBuf \in Seq(Calls)
         /\ dropping \in [Goroutines -> Calls \cup {None}]
         /\ None \notin Calls /\ Calls \subseteq Goroutines /\ Policy \in Goroutines
  BY Zenon, ConstantsAssumption DEF TypeInv, TypeOK, StoreTypeOK, ItemTypeOK, CallTypeOK, Goroutines

(* OwnInv is about the cache, item.file and the calls before their Set. *)
LEMMA OwnFrame ==
  ASSUME TypeInv, OwnInv, UNCHANGED <<store, setBuf, dropping, file>>,
         \A i \in Calls : pc'[i] \in NotSetYet => pc[i] \in NotSetYet,
         \A i \in Calls : pc'[i] = "set" => pc[i] = "set",
         \A i \in Calls : pc[i] # "start" => key'[i] = key[i]
  PROVE  OwnInv'
  <1>1. \A i : InBuf(i)' <=> InBuf(i)
    BY Zenon DEF InBuf
  <1>2. \A i : (InStore(i)' <=> InStore(i)) /\ (IsDropping(i)' <=> IsDropping(i))
    BY Zenon DEF InStore, IsDropping
  <1>3. SetOpens' /\ NotSetNowhere' /\ BufDistinct' /\ BufOpen'
    BY Zenon, <1>1, <1>2 DEF OwnInv, SetOpens, NotSetNowhere, BufDistinct, BufOpen
  <1>4. \A k \in Keys : store[k] # None => store[k] \in Calls /\ pc[store[k]] # "start"
    BY OwnTypes DEF TypeInv, WellFormed, StoreSet, CreatedSet, NoItemYet
  <1>5. StoreHoldsOpenItems'
    BY Zenon, <1>4 DEF OwnInv, StoreHoldsOpenItems
  <1>6. DroppedOnce'
    BY Zenon, <1>1 DEF OwnInv, DroppedOnce
  <1> QED
    BY Zenon, <1>3, <1>5, <1>6 DEF OwnInv

(* A step of the call c that leaves the cache and the items alone. *)
LEMMA OwnStep ==
  ASSUME TypeInv, OwnInv, NEW c \in Calls, NEW l, pc' = [pc EXCEPT ![c] = l],
         l # "set", l \in NotSetYet => pc[c] \in NotSetYet,
         UNCHANGED storeVars, UNCHANGED file,
         \A i \in Calls : pc[i] # "start" => key'[i] = key[i]
  PROVE  OwnInv'
  <1>1. /\ \A i \in Calls : pc'[i] \in NotSetYet => pc[i] \in NotSetYet
        /\ \A i \in Calls : pc'[i] = "set" => pc[i] = "set"
    BY Zenon, OwnTypes
  <1>2. UNCHANGED <<store, setBuf, dropping, file>>
    BY Zenon DEF storeVars
  <1> QED
    BY Zenon, <1>1, <1>2, OwnFrame

(* Who owns what, once the places of items are known to have changed so. *)
LEMMA OwnPlaces ==
  ASSUME OwnInv, UNCHANGED <<file, key>>,
         \A i \in Calls : pc'[i] \in NotSetYet => pc'[i] = pc[i],
         \A i \in Calls : InBuf(i)' =>
            (InBuf(i) /\ ~InStore(i)') \/ (pc[i] = "set" /\ ~InStore(i)'),
         \A i \in Calls : pc'[i] \in NotSetYet => ~InBuf(i)' /\ ~InStore(i)' /\ ~IsDropping(i)'
  PROVE  SetOpens' /\ NotSetNowhere' /\ BufOpen'
  <1>1. SetOpens'
    BY Zenon DEF OwnInv, SetOpens, NotSetYet
  <1>2. NotSetNowhere'
    BY Zenon DEF NotSetNowhere
  <1>3. BufOpen'
    BY Zenon DEF OwnInv, BufOpen, SetOpens
  <1> QED
    BY Zenon, <1>1, <1>2, <1>3

(* The entry h at the head of the set buffer is owned by the buffer alone,
   and by nobody once it is taken out. *)
LEMMA TakeHead ==
  ASSUME TypeInv, OwnInv, setBuf # << >>, setBuf' = Tail(setBuf), NEW h \in Calls, h = Head(setBuf)
  PROVE  /\ InBuf(h) /\ key[h] \in Keys /\ file[h] = "open" /\ ~InStore(h) /\ ~IsDropping(h)
         /\ pc[h] \notin NotSetYet
         /\ BufDistinct' /\ ~InBuf(h)' /\ \A i : InBuf(i)' => InBuf(i)
  <1>1. InBuf(h) /\ key[h] \in Keys
    BY Zenon, HeadFacts
  <1>2. file[h] = "open" /\ ~InStore(h) /\ ~IsDropping(h) /\ pc[h] \notin NotSetYet
    BY Zenon, <1>1, OwnTypes DEF OwnInv, BufOpen, NotSetNowhere, DroppedOnce, IsDropping
  <1>3. setBuf \in Seq(Calls) /\ Distinct(setBuf)
    BY Zenon, OwnTypes DEF OwnInv, BufDistinct
  <1>4. Distinct(setBuf') /\ ~InSeq(setBuf', h) /\ \A i : InSeq(setBuf', i) => InSeq(setBuf, i)
    BY Zenon, <1>3, TailElements
  <1> QED
    BY Zenon, <1>1, <1>2, <1>4 DEF InBuf, BufDistinct

(* An item that Get can return is owned by the store alone. *)
LEMMA OwnedByStore ==
  ASSUME TypeInv, OwnInv, NEW k \in Keys, store[k] # None
  PROVE  /\ store[k] \in Calls /\ file[store[k]] = "open"
         /\ ~InBuf(store[k]) /\ ~IsDropping(store[k]) /\ pc[store[k]] \notin NotSetYet
         /\ \A j \in Keys : j # k => store[j] # store[k]
  <1>1. store[k] \in Calls /\ file[store[k]] = "open" /\ InStore(store[k])
    BY Zenon, OwnTypes DEF OwnInv, StoreHoldsOpenItems, InStore
  <1>2. ~InBuf(store[k]) /\ pc[store[k]] \notin NotSetYet
    BY Zenon, <1>1 DEF OwnInv, BufOpen, NotSetNowhere
  <1>3. ~IsDropping(store[k])
    BY Zenon, <1>1, OwnTypes DEF OwnInv, DroppedOnce, IsDropping
  <1>4. \A j \in Keys : j # k => store[j] # store[k]
    BY Zenon DEF OwnInv, StoreHoldsOpenItems
  <1> QED
    BY Zenon, <1>1, <1>2, <1>3, <1>4

(* The goroutine g is handed the item v, which nobody else owns any more. *)
LEMMA HandToDrop ==
  ASSUME TypeInv, OwnInv, NEW g \in Goroutines, NEW v \in Calls,
         dropping' = [dropping EXCEPT ![g] = v], UNCHANGED file,
         file[v] = "open", ~IsDropping(v), ~InStore(v)', ~InBuf(v)',
         \A i \in Calls : IsDropping(i) => ~InStore(i)' /\ ~InBuf(i)'
  PROVE  /\ DroppedOnce'
         /\ \A i : IsDropping(i)' => IsDropping(i) \/ i = v
  <1>1. dropping'[g] = v /\ \A h \in Goroutines : h # g => dropping'[h] = dropping[h]
    BY Zenon, OwnTypes
  <1>2. \A i : IsDropping(i)' => IsDropping(i) \/ i = v
    BY Zenon, <1>1 DEF IsDropping
  <1>3. \A h \in Goroutines : dropping[h] # v
    BY Zenon DEF IsDropping
  <1>4. ASSUME NEW h \in Goroutines, NEW i, i = dropping'[h], i # None
        PROVE  /\ i \in Calls /\ file'[i] = "open" /\ ~InStore(i)' /\ ~InBuf(i)'
               /\ \A e \in Goroutines : e # h => dropping'[e] # i
    <2>1. CASE h = g
      BY Zenon, <1>1, <1>3, <1>4, <2>1
    <2>2. CASE h # g
      <3>1. i = dropping[h] /\ i \in Calls /\ IsDropping(i)
        BY Zenon, <1>1, <1>4, <2>2, OwnTypes DEF IsDropping
      <3>2. file[i] = "open" /\ \A e \in Goroutines : e # h => dropping[e] # i
        BY Zenon, <1>4, <3>1 DEF OwnInv, DroppedOnce
      <3> QED
        BY Zenon, <1>1, <1>3, <3>1, <3>2
    <2> QED
      BY Zenon, <2>1, <2>2
  <1>5. DroppedOnce'
    BY Zenon, <1>4 DEF DroppedOnce, InStore, InBuf
  <1> QED
    BY Zenon, <1>2, <1>5

(* What is being dropped is in no other place. *)
LEMMA DroppedNowhere ==
  ASSUME TypeInv, OwnInv, NEW h \in Goroutines, dropping[h] # None
  PROVE  /\ dropping[h] \in Calls /\ file[dropping[h]] = "open"
         /\ ~InStore(dropping[h]) /\ ~InBuf(dropping[h]) /\ pc[dropping[h]] \notin NotSetYet
  <1>1. dropping[h] \in Calls /\ IsDropping(dropping[h])
    BY Zenon, OwnTypes DEF IsDropping
  <1>2. file[dropping[h]] = "open" /\ ~InStore(dropping[h]) /\ ~InBuf(dropping[h])
    BY Zenon DEF OwnInv, DroppedOnce, InStore
  <1>3. pc[dropping[h]] \notin NotSetYet
    BY Zenon, <1>1 DEF OwnInv, NotSetNowhere
  <1> QED
    BY Zenon, <1>1, <1>2, <1>3

(* Every step moves an item from one place to the next, and item.drop closes
   an item that is nowhere else. *)
LEMMA NextOwnInv == TypeInv /\ OwnInv /\ [Next]_vars => OwnInv'
  <1> SUFFICES ASSUME TypeInv, OwnInv, [Next]_vars
               PROVE  OwnInv'
    BY Zenon
  <1>t. key \in [Calls -> Keys \cup {None}]
    BY Zenon DEF TypeInv, TypeOK, CallTypeOK
  <1>1. ASSUME NEW c \in Calls, NEW k \in Keys, GetHit(c, k)
        PROVE  OwnInv'
    <2>1. /\ pc[c] = "start" /\ pc' = [pc EXCEPT ![c] = "rlock"]
          /\ UNCHANGED storeVars /\ UNCHANGED file /\ key' = [key EXCEPT ![c] = k]
      BY Zenon, <1>1 DEF GetHit, Goto, itemVars
    <2>2. "rlock" # "set" /\ ("rlock" \in NotSetYet => pc[c] \in NotSetYet)
      BY Zenon, <2>1 DEF NotSetYet, NoItemYet
    <2> QED
      BY Zenon, <1>t, <2>1, <2>2, OwnStep
  <1>2. ASSUME NEW c \in Calls, NEW k \in Keys, GetMiss(c, k)
        PROVE  OwnInv'
    <2>1. /\ pc[c] = "start" /\ pc' = [pc EXCEPT ![c] = "recheck"]
          /\ UNCHANGED storeVars /\ UNCHANGED file /\ key' = [key EXCEPT ![c] = k]
      BY Zenon, <1>2 DEF GetMiss, Goto, itemVars
    <2>2. "recheck" # "set" /\ ("recheck" \in NotSetYet => pc[c] \in NotSetYet)
      BY Zenon, <2>1 DEF NotSetYet, NoItemYet
    <2> QED
      BY Zenon, <1>t, <2>1, <2>2, OwnStep
  <1>3. ASSUME NEW c \in Calls, NEW k \in Keys, ExistsMiss(c, k)
        PROVE  OwnInv'
    <2>1. /\ pc[c] = "start" /\ pc' = [pc EXCEPT ![c] = "done"]
          /\ UNCHANGED storeVars /\ UNCHANGED file /\ key' = [key EXCEPT ![c] = k]
      BY Zenon, <1>3 DEF ExistsMiss, Return, itemVars
    <2>2. "done" # "set" /\ ("done" \in NotSetYet => pc[c] \in NotSetYet)
      BY Zenon, <2>1 DEF NotSetYet, NoItemYet
    <2> QED
      BY Zenon, <1>t, <2>1, <2>2, OwnStep
  <1>4. ASSUME NEW c \in Calls, NEW k \in Keys, ExistsHit(c, k)
        PROVE  OwnInv'
    <2>1. /\ pc[c] = "start" /\ pc' = [pc EXCEPT ![c] = "exists"]
          /\ UNCHANGED storeVars /\ UNCHANGED file /\ key' = [key EXCEPT ![c] = k]
      BY Zenon, <1>4 DEF ExistsHit, Goto, itemVars
    <2>2. "exists" # "set" /\ ("exists" \in NotSetYet => pc[c] \in NotSetYet)
      BY Zenon, <2>1 DEF NotSetYet, NoItemYet
    <2> QED
      BY Zenon, <1>t, <2>1, <2>2, OwnStep
  <1>5. ASSUME NEW c \in Calls, RecheckHit(c)
        PROVE  OwnInv'
    <2>1. /\ pc[c] = "recheck" /\ pc' = [pc EXCEPT ![c] = "rlock"]
          /\ UNCHANGED storeVars /\ UNCHANGED file /\ key' = key
      BY Zenon, <1>5 DEF RecheckHit, Goto, itemVars
    <2>2. "rlock" # "set" /\ ("rlock" \in NotSetYet => pc[c] \in NotSetYet)
      BY Zenon, <2>1 DEF NotSetYet, NoItemYet
    <2> QED
      BY Zenon, <2>1, <2>2, OwnStep
  <1>6. ASSUME NEW c \in Calls, RecheckMiss(c)
        PROVE  OwnInv'
    <2>1. /\ pc[c] = "recheck" /\ pc' = [pc EXCEPT ![c] = "new"]
          /\ UNCHANGED storeVars /\ UNCHANGED file /\ key' = key
      BY Zenon, <1>6 DEF RecheckMiss, Goto, itemVars
    <2>2. "new" # "set" /\ ("new" \in NotSetYet => pc[c] \in NotSetYet)
      BY Zenon, <2>1 DEF NotSetYet, NoItemYet
    <2> QED
      BY Zenon, <2>1, <2>2, OwnStep
  <1>7. ASSUME NEW c \in Calls, NewItemFails(c)
        PROVE  OwnInv'
    <2>1. /\ pc[c] = "new" /\ pc' = [pc EXCEPT ![c] = "done"]
          /\ UNCHANGED storeVars /\ UNCHANGED file /\ key' = key
      BY Zenon, <1>7 DEF NewItemFails, Return
    <2>2. "done" # "set" /\ ("done" \in NotSetYet => pc[c] \in NotSetYet)
      BY Zenon, <2>1 DEF NotSetYet, NoItemYet
    <2> QED
      BY Zenon, <2>1, <2>2, OwnStep
  <1>8. ASSUME NEW c \in Calls, SetRefused(c)
        PROVE  OwnInv'
    <2>1. /\ pc[c] = "set" /\ pc' = [pc EXCEPT ![c] = "done"]
          /\ UNCHANGED storeVars /\ UNCHANGED file /\ key' = key
      BY Zenon, <1>8 DEF SetRefused, Return, itemVars
    <2>2. "done" # "set" /\ ("done" \in NotSetYet => pc[c] \in NotSetYet)
      BY Zenon, <2>1 DEF NotSetYet, NoItemYet
    <2> QED
      BY Zenon, <2>1, <2>2, OwnStep
  <1>9. ASSUME NEW c \in Calls, WaitForSet(c)
        PROVE  OwnInv'
    <2>1. /\ pc[c] = "wait" /\ pc' = [pc EXCEPT ![c] = "rlock"]
          /\ UNCHANGED storeVars /\ UNCHANGED file /\ key' = key
      BY Zenon, <1>9 DEF WaitForSet, Goto, itemVars
    <2>2. "rlock" # "set" /\ ("rlock" \in NotSetYet => pc[c] \in NotSetYet)
      BY Zenon, <2>1 DEF NotSetYet, NoItemYet
    <2> QED
      BY Zenon, <2>1, <2>2, OwnStep
  <1>10. ASSUME NEW c \in Calls, StatFails(c)
        PROVE  OwnInv'
    <2>1. /\ pc[c] = "rlock" /\ pc' = [pc EXCEPT ![c] = "done"]
          /\ UNCHANGED storeVars /\ UNCHANGED file /\ key' = key
      BY Zenon, <1>10 DEF StatFails, Return, itemVars
    <2>2. "done" # "set" /\ ("done" \in NotSetYet => pc[c] \in NotSetYet)
      BY Zenon, <2>1 DEF NotSetYet, NoItemYet
    <2> QED
      BY Zenon, <2>1, <2>2, OwnStep
  <1>11. ASSUME NEW c \in Calls, StatMatches(c)
        PROVE  OwnInv'
    <2>1. /\ pc[c] = "rlock" /\ pc' = [pc EXCEPT ![c] = "bytes"]
          /\ UNCHANGED storeVars /\ UNCHANGED file /\ key' = key
      BY Zenon, <1>11 DEF StatMatches, Goto, itemVars
    <2>2. "bytes" # "set" /\ ("bytes" \in NotSetYet => pc[c] \in NotSetYet)
      BY Zenon, <2>1 DEF NotSetYet, NoItemYet
    <2> QED
      BY Zenon, <2>1, <2>2, OwnStep
  <1>12. ASSUME NEW c \in Calls, StatDiffers(c)
        PROVE  OwnInv'
    <2>1. /\ pc[c] = "rlock" /\ pc' = [pc EXCEPT ![c] = "wlock"]
          /\ UNCHANGED storeVars /\ UNCHANGED file /\ key' = key
      BY Zenon, <1>12 DEF StatDiffers, Goto, itemVars
    <2>2. "wlock" # "set" /\ ("wlock" \in NotSetYet => pc[c] \in NotSetYet)
      BY Zenon, <2>1 DEF NotSetYet, NoItemYet
    <2> QED
      BY Zenon, <2>1, <2>2, OwnStep
  <1>13. ASSUME NEW c \in Calls, RestatFails(c)
        PROVE  OwnInv'
    <2>1. /\ pc[c] = "wlock" /\ pc' = [pc EXCEPT ![c] = "done"]
          /\ UNCHANGED storeVars /\ UNCHANGED file /\ key' = key
      BY Zenon, <1>13 DEF RestatFails, Return, itemVars
    <2>2. "done" # "set" /\ ("done" \in NotSetYet => pc[c] \in NotSetYet)
      BY Zenon, <2>1 DEF NotSetYet, NoItemYet
    <2> QED
      BY Zenon, <2>1, <2>2, OwnStep
  <1>14. ASSUME NEW c \in Calls, RestatMatches(c)
        PROVE  OwnInv'
    <2>1. /\ pc[c] = "wlock" /\ pc' = [pc EXCEPT ![c] = "relock"]
          /\ UNCHANGED storeVars /\ UNCHANGED file /\ key' = key
      BY Zenon, <1>14 DEF RestatMatches, Goto, itemVars
    <2>2. "relock" # "set" /\ ("relock" \in NotSetYet => pc[c] \in NotSetYet)
      BY Zenon, <2>1 DEF NotSetYet, NoItemYet
    <2> QED
      BY Zenon, <2>1, <2>2, OwnStep
  <1>15. ASSUME NEW c \in Calls, RestatDiffers(c)
        PROVE  OwnInv'
    <2>1. /\ pc[c] = "wlock" /\ pc' = [pc EXCEPT ![c] = "fetch"]
          /\ UNCHANGED storeVars /\ UNCHANGED file /\ key' = key
      BY Zenon, <1>15 DEF RestatDiffers, Goto, itemVars
    <2>2. "fetch" # "set" /\ ("fetch" \in NotSetYet => pc[c] \in NotSetYet)
      BY Zenon, <2>1 DEF NotSetYet, NoItemYet
    <2> QED
      BY Zenon, <2>1, <2>2, OwnStep
  <1>16. ASSUME NEW c \in Calls, FetchSucceeds(c)
        PROVE  OwnInv'
    <2>1. /\ pc[c] = "fetch" /\ pc' = [pc EXCEPT ![c] = "trunc"]
          /\ UNCHANGED storeVars /\ UNCHANGED file /\ key' = key
      BY Zenon, <1>16 DEF FetchSucceeds, Goto, itemVars
    <2>2. "trunc" # "set" /\ ("trunc" \in NotSetYet => pc[c] \in NotSetYet)
      BY Zenon, <2>1 DEF NotSetYet, NoItemYet
    <2> QED
      BY Zenon, <2>1, <2>2, OwnStep
  <1>17. ASSUME NEW c \in Calls, FetchFails(c)
        PROVE  OwnInv'
    <2>1. /\ pc[c] = "fetch" /\ pc' = [pc EXCEPT ![c] = "done"]
          /\ UNCHANGED storeVars /\ UNCHANGED file /\ key' = key
      BY Zenon, <1>17 DEF FetchFails, Return, itemVars
    <2>2. "done" # "set" /\ ("done" \in NotSetYet => pc[c] \in NotSetYet)
      BY Zenon, <2>1 DEF NotSetYet, NoItemYet
    <2> QED
      BY Zenon, <2>1, <2>2, OwnStep
  <1>18. ASSUME NEW c \in Calls, Truncate(c)
        PROVE  OwnInv'
    <2>1. /\ pc[c] = "trunc" /\ pc' = [pc EXCEPT ![c] = "write"]
          /\ UNCHANGED storeVars /\ UNCHANGED file /\ key' = key
      BY Zenon, <1>18 DEF Truncate, Goto, itemVars
    <2>2. "write" # "set" /\ ("write" \in NotSetYet => pc[c] \in NotSetYet)
      BY Zenon, <2>1 DEF NotSetYet, NoItemYet
    <2> QED
      BY Zenon, <2>1, <2>2, OwnStep
  <1>19. ASSUME NEW c \in Calls, TruncateFails(c)
        PROVE  OwnInv'
    <2>1. /\ pc[c] = "trunc" /\ pc' = [pc EXCEPT ![c] = "done"]
          /\ UNCHANGED storeVars /\ UNCHANGED file /\ key' = key
      BY Zenon, <1>19 DEF TruncateFails, Return, itemVars
    <2>2. "done" # "set" /\ ("done" \in NotSetYet => pc[c] \in NotSetYet)
      BY Zenon, <2>1 DEF NotSetYet, NoItemYet
    <2> QED
      BY Zenon, <2>1, <2>2, OwnStep
  <1>20. ASSUME NEW c \in Calls, Write(c)
        PROVE  OwnInv'
    <2>1. /\ pc[c] = "write" /\ pc' = [pc EXCEPT ![c] = "relock"]
          /\ UNCHANGED storeVars /\ UNCHANGED file /\ key' = key
      BY Zenon, <1>20 DEF Write, Goto, WriteLen
    <2>2. "relock" # "set" /\ ("relock" \in NotSetYet => pc[c] \in NotSetYet)
      BY Zenon, <2>1 DEF NotSetYet, NoItemYet
    <2> QED
      BY Zenon, <2>1, <2>2, OwnStep
  <1>21. ASSUME NEW c \in Calls, WriteFails(c)
        PROVE  OwnInv'
    <2>1. /\ pc[c] = "write" /\ pc' = [pc EXCEPT ![c] = "done"]
          /\ UNCHANGED storeVars /\ UNCHANGED file /\ key' = key
      BY Zenon, <1>21 DEF WriteFails, Return, WriteLen
    <2>2. "done" # "set" /\ ("done" \in NotSetYet => pc[c] \in NotSetYet)
      BY Zenon, <2>1 DEF NotSetYet, NoItemYet
    <2> QED
      BY Zenon, <2>1, <2>2, OwnStep
  <1>22. ASSUME NEW c \in Calls, Relock(c)
        PROVE  OwnInv'
    <2>1. /\ pc[c] = "relock" /\ pc' = [pc EXCEPT ![c] = "bytes"]
          /\ UNCHANGED storeVars /\ UNCHANGED file /\ key' = key
      BY Zenon, <1>22 DEF Relock, Goto, itemVars
    <2>2. "bytes" # "set" /\ ("bytes" \in NotSetYet => pc[c] \in NotSetYet)
      BY Zenon, <2>1 DEF NotSetYet, NoItemYet
    <2> QED
      BY Zenon, <2>1, <2>2, OwnStep
  <1>23. ASSUME NEW c \in Calls, BytesStat(c)
        PROVE  OwnInv'
    <2>1. /\ pc[c] = "bytes" /\ pc' = [pc EXCEPT ![c] = "pread"]
          /\ UNCHANGED storeVars /\ UNCHANGED file /\ key' = key
      BY Zenon, <1>23 DEF BytesStat, Goto, itemVars
    <2>2. "pread" # "set" /\ ("pread" \in NotSetYet => pc[c] \in NotSetYet)
      BY Zenon, <2>1 DEF NotSetYet, NoItemYet
    <2> QED
      BY Zenon, <2>1, <2>2, OwnStep
  <1>24. ASSUME NEW c \in Calls, BytesPanics(c)
        PROVE  OwnInv'
    <2>1. /\ pc[c] = "bytes" /\ pc' = [pc EXCEPT ![c] = "done"]
          /\ UNCHANGED storeVars /\ UNCHANGED file /\ key' = key
      BY Zenon, <1>24 DEF BytesPanics, Return, itemVars
    <2>2. "done" # "set" /\ ("done" \in NotSetYet => pc[c] \in NotSetYet)
      BY Zenon, <2>1 DEF NotSetYet, NoItemYet
    <2> QED
      BY Zenon, <2>1, <2>2, OwnStep
  <1>25. ASSUME NEW c \in Calls, Pread(c)
        PROVE  OwnInv'
    <2>1. /\ pc[c] = "pread" /\ pc' = [pc EXCEPT ![c] = "done"]
          /\ UNCHANGED storeVars /\ UNCHANGED file /\ key' = key
      BY Zenon, <1>25 DEF Pread, Return, itemVars
    <2>2. "done" # "set" /\ ("done" \in NotSetYet => pc[c] \in NotSetYet)
      BY Zenon, <2>1 DEF NotSetYet, NoItemYet
    <2> QED
      BY Zenon, <2>1, <2>2, OwnStep
  <1>26. ASSUME NEW c \in Calls, ExistsStat(c)
        PROVE  OwnInv'
    <2>1. /\ pc[c] = "exists" /\ pc' = [pc EXCEPT ![c] = "done"]
          /\ UNCHANGED storeVars /\ UNCHANGED file /\ key' = key
      BY Zenon, <1>26 DEF ExistsStat, Return, itemVars
    <2>2. "done" # "set" /\ ("done" \in NotSetYet => pc[c] \in NotSetYet)
      BY Zenon, <2>1 DEF NotSetYet, NoItemYet
    <2> QED
      BY Zenon, <2>1, <2>2, OwnStep
  <1>27. ASSUME NEW c \in Calls, NewItem(c)
        PROVE  OwnInv'
    <2>1. /\ pc[c] = "new" /\ pc' = [pc EXCEPT ![c] = "set"] /\ file' = [file EXCEPT ![c] = "open"]
          /\ UNCHANGED storeVars /\ UNCHANGED key
      BY Zenon, <1>27 DEF NewItem, Goto
    <2>2. \A i : /\ (InBuf(i)' <=> InBuf(i)) /\ (InStore(i)' <=> InStore(i))
                 /\ (IsDropping(i)' <=> IsDropping(i))
      BY Zenon, <2>1 DEF storeVars, InBuf, InStore, IsDropping
    <2>3. /\ pc'[c] = "set" /\ file'[c] = "open"
          /\ \A i \in Calls : i # c => file'[i] = file[i] /\ pc'[i] = pc[i]
          /\ \A i \in Calls : file[i] = "open" => file'[i] = "open"
      BY Zenon, <2>1, OwnTypes
    <2>4. SetOpens' /\ BufOpen'
      BY Zenon, <2>2, <2>3 DEF OwnInv, SetOpens, BufOpen
    <2>5. NotSetNowhere'
      BY Zenon, <2>1, <2>2, <2>3 DEF OwnInv, NotSetNowhere, NotSetYet, NoItemYet
    <2>6. UNCHANGED <<store, setBuf, dropping>>
      BY Zenon, <2>1 DEF storeVars
    <2>7. StoreHoldsOpenItems'
      BY <2>1, <2>3, <2>6, OwnTypes DEF OwnInv, StoreHoldsOpenItems
    <2>8. DroppedOnce'
      <3>1. \A g \in Goroutines : dropping[g] # None => dropping[g] \in Calls /\ file[dropping[g]] = "open"
        BY Zenon, OwnTypes DEF OwnInv, DroppedOnce
      <3>2. \A g \in Goroutines : dropping[g] # None => file'[dropping[g]] = "open"
        BY Zenon, <2>3, <3>1
      <3>3. \A i : InBuf(i)' <=> InBuf(i)
        BY Zenon, <2>6 DEF InBuf
      <3> QED
        BY Zenon, <2>6, <3>2, <3>3 DEF OwnInv, DroppedOnce
    <2> QED
      BY Zenon, <2>4, <2>5, <2>6, <2>7, <2>8 DEF OwnInv, BufDistinct
  <1>28. ASSUME NEW c \in Calls, SetQueued(c)
        PROVE  OwnInv'
    <2>1. /\ pc[c] = "set" /\ pc' = [pc EXCEPT ![c] = "wait"] /\ setBuf' = Append(setBuf, c)
          /\ UNCHANGED <<store, dropping, file, key>>
      BY Zenon, <1>28 DEF SetQueued, Goto, itemVars
    <2>2. pc'[c] = "wait" /\ \A i \in Calls : i # c => pc'[i] = pc[i]
      BY Zenon, <2>1, OwnTypes
    <2>3. ~InBuf(c) /\ ~InStore(c) /\ ~IsDropping(c) /\ file[c] = "open"
      BY Zenon, <2>1 DEF OwnInv, NotSetNowhere, SetOpens, NotSetYet
    <2>4. BufDistinct' /\ \A i : InBuf(i)' <=> InBuf(i) \/ i = c
      BY Zenon, <2>1, <2>3, AppendElements, OwnTypes DEF InBuf, OwnInv, BufDistinct
    <2>5. \A i : (InStore(i)' <=> InStore(i)) /\ (IsDropping(i)' <=> IsDropping(i))
      BY Zenon, <2>1 DEF InStore, IsDropping
    <2>6. \A i \in Calls : pc'[i] \in NotSetYet => i # c /\ pc'[i] = pc[i]
      BY Zenon, <2>2 DEF NotSetYet, NoItemYet
    <2>7. SetOpens' /\ NotSetNowhere' /\ BufOpen'
      BY Zenon, <2>1, <2>3, <2>4, <2>5, <2>6, OwnPlaces DEF OwnInv, NotSetNowhere, BufOpen
    <2>8. StoreHoldsOpenItems'
      BY Zenon, <2>1 DEF OwnInv, StoreHoldsOpenItems
    <2>9. DroppedOnce'
      BY Zenon, <2>1, <2>3, <2>4 DEF OwnInv, DroppedOnce, IsDropping
    <2> QED
      BY Zenon, <2>4, <2>7, <2>8, <2>9 DEF OwnInv
  <1>29. ASSUME NEW c \in Calls, SetReplaces(c)
        PROVE  OwnInv'
    <2>1. /\ pc[c] = "set" /\ pc' = [pc EXCEPT ![c] = "exit"] /\ store[key[c]] # None
          /\ store' = [store EXCEPT ![key[c]] = c]
          /\ dropping' = [dropping EXCEPT ![c] = store[key[c]]]
          /\ UNCHANGED <<setBuf, file, key>>
      BY Zenon, <1>29 DEF SetReplaces, Goto, itemVars
    <2>k. key[c] \in Keys
      BY Zenon, <2>1 DEF TypeInv, WellFormed, KeysSet
    <2>2. PICK old \in Calls :
            /\ old = store[key[c]] /\ file[old] = "open" /\ ~InBuf(old) /\ ~IsDropping(old)
            /\ pc[old] \notin NotSetYet /\ \A j \in Keys : j # key[c] => store[j] # old
      BY Zenon, <2>1, <2>k, OwnedByStore
    <2>3. pc'[c] = "exit" /\ \A i \in Calls : i # c => pc'[i] = pc[i]
      BY Zenon, <2>1, OwnTypes
    <2>4. ~InBuf(c) /\ ~InStore(c) /\ ~IsDropping(c) /\ file[c] = "open"
      BY Zenon, <2>1 DEF OwnInv, NotSetNowhere, SetOpens, NotSetYet
    <2>5. c # old /\ \A j \in Keys : store'[j] = IF j = key[c] THEN c ELSE store[j]
      BY Zenon, <2>1, <2>2, <2>3, <2>k, OwnTypes DEF NotSetYet
    <2>6. \A i \in Calls : InStore(i)' => (InStore(i) \/ i = c) /\ i # old
      BY Zenon, <2>2, <2>5 DEF InStore
    <2>7. \A i : InBuf(i)' <=> InBuf(i)
      BY Zenon, <2>1 DEF InBuf
    <2>8. \A i \in Calls : IsDropping(i) => ~InStore(i)' /\ ~InBuf(i)'
      BY <2>4, <2>6, <2>7, DroppedNowhere, OwnTypes DEF IsDropping
    <2>d. dropping' = [dropping EXCEPT ![c] = old] /\ ~InStore(old)' /\ ~InBuf(old)' /\ c \in Goroutines
      BY Zenon, <2>1, <2>2, <2>6, <2>7, OwnTypes
    <2>9. DroppedOnce' /\ \A i : IsDropping(i)' => IsDropping(i) \/ i = old
      BY Zenon, <2>1, <2>2, <2>8, <2>d, HandToDrop
    <2>10. \A i \in Calls : pc'[i] \in NotSetYet => i # c /\ i # old /\ pc'[i] = pc[i]
      BY Zenon, <2>2, <2>3 DEF NotSetYet, NoItemYet
    <2>11. SetOpens' /\ NotSetNowhere' /\ BufOpen'
      BY Zenon, <2>1, <2>4, <2>6, <2>7, <2>9, <2>10, OwnPlaces DEF OwnInv, NotSetNowhere, BufOpen
    <2>12. StoreHoldsOpenItems'
      BY <2>1, <2>4, <2>5 DEF OwnInv, StoreHoldsOpenItems
    <2> QED
      BY Zenon, <2>1, <2>9, <2>11, <2>12 DEF OwnInv, BufDistinct
  <1>30. ASSUME Admit
        PROVE  OwnInv'
    <2>1. /\ setBuf # << >> /\ setBuf' = Tail(setBuf) /\ UNCHANGED <<file, key, pc>>
      BY Zenon, <1>30 DEF Admit, PolicyIdle, AfterHead, itemVars, callVars
    <2>2. PICK h \in Calls : h = Head(setBuf)
      BY Zenon, <2>1, HeadFacts
    <2>3. /\ InBuf(h) /\ key[h] \in Keys /\ file[h] = "open" /\ ~InStore(h) /\ ~IsDropping(h)
          /\ pc[h] \notin NotSetYet
          /\ BufDistinct' /\ ~InBuf(h)' /\ \A i : InBuf(i)' => InBuf(i)
      BY Zenon, <2>1, <2>2, TakeHead
    <2>4. store' = [store EXCEPT ![key[h]] = h] /\ dropping' = dropping
      BY Zenon, <1>30, <2>2 DEF Admit
    <2>5. \A j \in Keys : store'[j] = IF j = key[h] THEN h ELSE store[j]
      BY Zenon, <2>3, <2>4, OwnTypes
    <2>6. \A i : InStore(i)' => InStore(i) \/ i = h
      BY Zenon, <2>5 DEF InStore
    <2>d. dropping' = dropping
      BY Zenon, <2>4
    <2>7. \A i : IsDropping(i)' <=> IsDropping(i)
      BY ONLY <2>d DEF IsDropping
    <2>8. SetOpens' /\ NotSetNowhere' /\ BufOpen'
      BY Zenon, <2>1, <2>3, <2>6, <2>7, OwnPlaces DEF OwnInv, NotSetNowhere, BufOpen
    <2>9. StoreHoldsOpenItems'
      BY Zenon, <2>1, <2>3, <2>5 DEF OwnInv, StoreHoldsOpenItems
    <2>10. \A i \in Calls : IsDropping(i) => ~InStore(i)' /\ ~InBuf(i)'
      BY Zenon, <2>3, <2>6, DroppedNowhere, OwnTypes DEF IsDropping
    <2>11. DroppedOnce'
      BY Zenon, <2>1, <2>4, <2>10, OwnTypes DEF OwnInv, DroppedOnce, InStore, IsDropping, InBuf
    <2> QED
      BY Zenon, <2>3, <2>8, <2>9, <2>11 DEF OwnInv
  <1>31. ASSUME NEW k \in Keys, AdmitEvicting(k)
        PROVE  OwnInv'
    <2>1. /\ setBuf # << >> /\ setBuf' = Tail(setBuf) /\ UNCHANGED <<file, key, pc>>
      BY Zenon, <1>31 DEF AdmitEvicting, PolicyIdle, AfterHead, itemVars, callVars
    <2>2. PICK h \in Calls : h = Head(setBuf)
      BY Zenon, <2>1, HeadFacts
    <2>3. /\ InBuf(h) /\ key[h] \in Keys /\ file[h] = "open" /\ ~InStore(h) /\ ~IsDropping(h)
          /\ pc[h] \notin NotSetYet
          /\ BufDistinct' /\ ~InBuf(h)' /\ \A i : InBuf(i)' => InBuf(i)
      BY Zenon, <2>1, <2>2, TakeHead
    <2>4. /\ store' = [store EXCEPT ![k] = None, ![key[h]] = h]
          /\ dropping' = [dropping EXCEPT ![Policy] = store[k]]
          /\ store[k] # None /\ store[key[h]] = None
      BY Zenon, <1>31, <2>2 DEF AdmitEvicting, VictimLeaves
    <2>5. PICK v \in Calls :
            /\ v = store[k] /\ file[v] = "open" /\ ~InBuf(v) /\ ~IsDropping(v)
            /\ pc[v] \notin NotSetYet /\ \A j \in Keys : j # k => store[j] # v
      BY Zenon, <2>4, OwnedByStore
    <2>6. \A j \in Keys : store'[j] = IF j = key[h] THEN h ELSE IF j = k THEN None ELSE store[j]
      BY Zenon, <2>3, <2>4, OwnTypes
    <2>7. v # h /\ \A i \in Calls : InStore(i)' => (InStore(i) \/ i = h) /\ i # v
      BY Zenon, <2>3, <2>5, <2>6, OwnTypes DEF InStore
    <2>8. \A i \in Calls : IsDropping(i) => ~InStore(i)' /\ ~InBuf(i)'
      BY <2>3, <2>7, DroppedNowhere, OwnTypes DEF IsDropping
    <2>d. dropping' = [dropping EXCEPT ![Policy] = v] /\ ~InStore(v)' /\ ~InBuf(v)' /\ Policy \in Goroutines
      BY Zenon, <2>3, <2>4, <2>5, <2>7, OwnTypes
    <2>9. DroppedOnce' /\ \A i : IsDropping(i)' => IsDropping(i) \/ i = v
      BY Zenon, <2>1, <2>5, <2>8, <2>d, HandToDrop
    <2>10. SetOpens' /\ NotSetNowhere' /\ BufOpen'
      BY Zenon, <2>1, <2>3, <2>5, <2>7, <2>9, OwnPlaces DEF OwnInv, NotSetNowhere, BufOpen
    <2>11. StoreHoldsOpenItems'
      BY Zenon, <2>1, <2>3, <2>6 DEF OwnInv, StoreHoldsOpenItems
    <2> QED
      BY Zenon, <2>3, <2>9, <2>10, <2>11 DEF OwnInv
  <1>32. ASSUME Reject
        PROVE  OwnInv'
    <2>1. /\ setBuf # << >> /\ setBuf' = Tail(setBuf) /\ UNCHANGED <<file, key, pc>>
      BY Zenon, <1>32 DEF Reject, PolicyIdle, AfterHead, itemVars, callVars
    <2>2. PICK h \in Calls : h = Head(setBuf)
      BY Zenon, <2>1, HeadFacts
    <2>3. /\ InBuf(h) /\ key[h] \in Keys /\ file[h] = "open" /\ ~InStore(h) /\ ~IsDropping(h)
          /\ pc[h] \notin NotSetYet
          /\ BufDistinct' /\ ~InBuf(h)' /\ \A i : InBuf(i)' => InBuf(i)
      BY Zenon, <2>1, <2>2, TakeHead
    <2>4. store' = store /\ dropping' = [dropping EXCEPT ![Policy] = h]
      BY Zenon, <1>32, <2>2 DEF Reject
    <2>5. \A i : InStore(i)' <=> InStore(i)
      BY Zenon, <2>4 DEF InStore
    <2>6. \A i \in Calls : IsDropping(i) => ~InStore(i)' /\ ~InBuf(i)'
      BY Zenon, <2>3, <2>5, DroppedNowhere, OwnTypes DEF IsDropping
    <2>7. DroppedOnce' /\ \A i : IsDropping(i)' => IsDropping(i) \/ i = h
      BY Zenon, <2>1, <2>3, <2>4, <2>5, <2>6, HandToDrop, OwnTypes
    <2>8. SetOpens' /\ NotSetNowhere' /\ BufOpen'
      BY Zenon, <2>1, <2>3, <2>5, <2>7, OwnPlaces DEF OwnInv, NotSetNowhere, BufOpen
    <2>9. StoreHoldsOpenItems'
      BY Zenon, <2>1, <2>4 DEF OwnInv, StoreHoldsOpenItems
    <2> QED
      BY Zenon, <2>3, <2>7, <2>8, <2>9 DEF OwnInv
  <1>33. ASSUME NEW g \in Goroutines, Drop(g)
        PROVE  OwnInv'
    <2>1. /\ dropping[g] # None /\ dropping' = [dropping EXCEPT ![g] = None]
          /\ file' = [file EXCEPT ![dropping[g]] = "nil"]
          /\ pc' = IF g \in Calls THEN [pc EXCEPT ![g] = "wait"] ELSE pc
          /\ UNCHANGED <<store, setBuf, key>>
      BY Zenon, <1>33 DEF Drop
    <2>2. PICK v \in Calls :
            /\ v = dropping[g] /\ ~InBuf(v) /\ ~InStore(v) /\ pc[v] \notin NotSetYet
      BY Zenon, <2>1, DroppedNowhere
    <2>3. \A i \in Calls : i # v => file'[i] = file[i]
      BY Zenon, <2>1, <2>2, OwnTypes
    <2>4. \A h \in Goroutines : dropping'[h] # None => h # g /\ dropping'[h] = dropping[h]
      BY Zenon, <2>1, OwnTypes
    <2>5. \A i : (InBuf(i)' <=> InBuf(i)) /\ (InStore(i)' <=> InStore(i))
      BY Zenon, <2>1 DEF InBuf, InStore
    <2>6. \A i \in Calls : IsDropping(i)' => IsDropping(i)
      BY Zenon, <2>4, OwnTypes DEF IsDropping
    <2>7. \A i \in Calls : pc'[i] \in NotSetYet => pc[i] = pc'[i]
      BY Zenon, <2>1, OwnTypes DEF NotSetYet, NoItemYet
    <2>8. NotSetNowhere' /\ BufOpen'
      BY Zenon, <2>2, <2>3, <2>5, <2>6, <2>7 DEF OwnInv, NotSetNowhere, BufOpen
    <2>9. SetOpens'
      BY Zenon, <2>2, <2>3, <2>7 DEF OwnInv, SetOpens, NotSetYet
    <2>10. StoreHoldsOpenItems'
      BY <2>1, <2>2, <2>3, OwnTypes DEF OwnInv, StoreHoldsOpenItems, InStore
    <2>11. \A h \in Goroutines : dropping'[h] # None =>
             dropping[h] \in Calls /\ dropping[h] # v /\ file'[dropping[h]] = file[dropping[h]]
      BY <2>2, <2>3, <2>4, OwnTypes DEF OwnInv, DroppedOnce
    <2>12. DroppedOnce'
      <3>1. ASSUME NEW h \in Goroutines, dropping'[h] # None
            PROVE  /\ file'[dropping'[h]] = "open" /\ ~InBuf(dropping[h])'
                   /\ \A k \in Keys : store'[k] # dropping'[h]
        <4>1. dropping'[h] = dropping[h] /\ dropping[h] # None
          BY Zenon, <2>4, <3>1
        <4>2. file[dropping[h]] = "open" /\ ~InBuf(dropping[h]) /\ \A k \in Keys : store[k] # dropping[h]
          BY Zenon, <4>1 DEF OwnInv, DroppedOnce
        <4>3. file'[dropping[h]] = "open"
          BY Zenon, <2>11, <3>1, <4>2
        <4>4. ~InBuf(dropping[h])'
          BY Zenon, <2>1, <4>1, <4>2 DEF InBuf
        <4>5. store' = store
          BY Zenon, <2>1
        <4> QED
          BY Zenon, <4>1, <4>2, <4>3, <4>4, <4>5
      <3>2. ASSUME NEW h \in Goroutines, NEW o \in Goroutines, dropping'[h] # None, o # h
            PROVE  dropping'[o] # dropping'[h]
        <4>1. dropping'[h] = dropping[h] /\ dropping[h] # None
          BY Zenon, <2>4, <3>2
        <4>2. dropping[o] # dropping[h]
          BY Zenon, <3>2, <4>1 DEF OwnInv, DroppedOnce
        <4>3. dropping'[o] # None => dropping'[o] = dropping[o]
          BY Zenon, <2>4
        <4> QED
          BY Zenon, <3>2, <4>1, <4>2, <4>3
      <3> QED
        BY Zenon, <3>1, <3>2 DEF DroppedOnce
    <2> QED
      BY Zenon, <2>1, <2>8, <2>9, <2>10, <2>12 DEF OwnInv, BufDistinct
  <1>34. CASE UNCHANGED vars
    <2>1. UNCHANGED <<store, setBuf, dropping, file, pc, key>>
      BY Zenon, <1>34 DEF vars, storeVars, itemVars, callVars
    <2> QED
      BY Zenon, <2>1, OwnFrame
  <1> QED
    BY Zenon, <1>1, <1>2, <1>3, <1>4, <1>5, <1>6, <1>7, <1>8, <1>9, <1>10, <1>11, <1>12, <1>13, <1>14,
       <1>15, <1>16, <1>17, <1>18, <1>19, <1>20, <1>21, <1>22, <1>23, <1>24, <1>25, <1>26, <1>27,
       <1>28, <1>29, <1>30, <1>31, <1>32, <1>33, <1>34
       DEF Next, CallStep, PolicyStep, Quiet

(* Every item has one owner in every reachable state. *)
THEOREM OneOwner == Spec => []OwnInv
<1>1. Init => OwnInv
  <2> SUFFICES ASSUME Init
               PROVE  OwnInv
    BY Zenon
  <2>1. \A i \in Calls : ~InBuf(i) /\ ~InStore(i) /\ ~IsDropping(i)
    BY ConstantsAssumption DEF Init, InBuf, InSeq, InStore, IsDropping
  <2> QED
    BY <2>1 DEF Init, OwnInv, SetOpens, NotSetNowhere, BufDistinct, Distinct, BufOpen,
       StoreHoldsOpenItems, DroppedOnce
<1> QED
  BY <1>1, InitTypeInv, NextTypeInv, NextOwnInv, PTL DEF Spec

(* ristretto hands every item to item.drop at most once, and only after Get
   has stopped returning it. *)
THEOREM DropHappensOnce == Spec => []DroppedOnce
<1>1. OwnInv => DroppedOnce
  BY Zenon DEF OwnInv
<1> QED
  BY <1>1, OneOwner, PTL

(* Get returns open items that were created for the key. *)
THEOREM StoreIsOpen == Spec => []StoreHoldsOpenItems
<1>1. OwnInv => StoreHoldsOpenItems
  BY Zenon DEF OwnInv
<1> QED
  BY <1>1, OneOwner, PTL

-----------------------------------------------------------------------------
(***************************************************************************)
(* fdCnt.  item.drop counts down, so it may only close items that are open *)
(* and were counted; DroppedOnce says that it does.                        *)
(***************************************************************************)
OpenItems == {i \in Calls : file[i] = "open"}
FdInv == IsFiniteSet(OpenItems) /\ FdCntCoversOpenFiles

(* A new item is one open item more at most. *)
LEMMA NewItemCounts ==
  ASSUME TypeInv, FdInv, NEW c \in Calls, NewItem(c)
  PROVE  FdInv'
<1>1. OpenItems' = OpenItems \cup {c} /\ fdCnt' = fdCnt + 1 /\ fdCnt \in Int
  BY Zenon, LockTypes DEF NewItem, OpenItems, FdAfterOpen, TypeInv, TypeOK, ItemTypeOK
<1>2. IsFiniteSet(OpenItems) /\ Cardinality(OpenItems) \in Nat
  BY Zenon, FS_CardinalityType DEF FdInv
<1>3. IsFiniteSet(OpenItems') /\ Cardinality(OpenItems') \in {Cardinality(OpenItems), Cardinality(OpenItems) + 1}
  BY Zenon, <1>1, <1>2, FS_AddElement
<1>4. fdCnt >= Cardinality(OpenItems)
  BY Zenon DEF FdInv, FdCntCoversOpenFiles, OpenItems
<1>5. fdCnt' >= Cardinality(OpenItems')
  BY <1>1, <1>2, <1>3, <1>4
<1> QED
  BY Zenon, <1>3, <1>5 DEF FdInv, FdCntCoversOpenFiles, OpenItems

(* item.drop closes one open item. *)
LEMMA DropCounts ==
  ASSUME TypeInv, OwnInv, FdInv, NEW g \in Goroutines, Drop(g)
  PROVE  FdInv'
<1> DEFINE v == dropping[g]
<1>1. v \in Calls /\ file[v] = "open"
  BY Zenon, OwnTypes DEF Drop, OwnInv, DroppedOnce
<1>2. OpenItems' = OpenItems \ {v} /\ v \in OpenItems /\ fdCnt' = fdCnt - 1 /\ fdCnt \in Int
  BY Zenon, <1>1, LockTypes DEF Drop, OpenItems, TypeInv, TypeOK, ItemTypeOK
<1>3. IsFiniteSet(OpenItems) /\ Cardinality(OpenItems) \in Nat
  BY Zenon, FS_CardinalityType DEF FdInv
<1>4. IsFiniteSet(OpenItems') /\ Cardinality(OpenItems') = Cardinality(OpenItems) - 1
  BY Zenon, <1>2, <1>3, FS_RemoveElement
<1>5. fdCnt >= Cardinality(OpenItems)
  BY Zenon DEF FdInv, FdCntCoversOpenFiles, OpenItems
<1>6. fdCnt' >= Cardinality(OpenItems')
  BY <1>2, <1>3, <1>4, <1>5
<1> QED
  BY Zenon, <1>4, <1>6 DEF FdInv, FdCntCoversOpenFiles, OpenItems

(* All other steps open and close no item; a failed newItem may count one. *)
LEMMA OtherStepsCount ==
  ASSUME [Next]_vars, fdCnt \in Int,
         ~\E c \in Calls : NewItem(c), ~\E g \in Goroutines : Drop(g)
  PROVE  file' = file /\ fdCnt' \in {fdCnt, fdCnt + 1}
<1>1. ASSUME NEW c \in Calls, CallStep(c) PROVE file' = file /\ fdCnt' \in {fdCnt, fdCnt + 1}
  BY Zenon, <1>1 DEF CallStep, GetHit, GetMiss, ExistsMiss, ExistsHit, RecheckHit, RecheckMiss, NewItemFails,
     SetQueued, SetRefused, SetReplaces, WaitForSet, StatFails, StatMatches, StatDiffers, RestatFails,
     RestatMatches, RestatDiffers, FetchSucceeds, FetchFails, Truncate, TruncateFails, Write,
     WriteFails, Relock, BytesStat, BytesPanics, Pread, ExistsStat, itemVars
<1>2. CASE PolicyStep
  BY Zenon, <1>2 DEF PolicyStep, Admit, AdmitEvicting, Reject, itemVars
<1>3. CASE UNCHANGED vars
  BY Zenon, <1>3 DEF vars, itemVars
<1> QED
  BY Zenon, <1>1, <1>2, <1>3 DEF Next, Quiet

(* fdCnt is never less than the number of open items, whatever fails. *)
THEOREM FdCntCovers == Spec => []FdCntCoversOpenFiles
<1>1. Init => FdInv
  <2> SUFFICES ASSUME Init PROVE FdInv
    BY Zenon
  <2>1. OpenItems = {} /\ fdCnt = 0
    BY Zenon DEF Init, OpenItems
  <2>2. IsFiniteSet(OpenItems) /\ Cardinality(OpenItems) = 0
    BY Zenon, <2>1, FS_EmptySet
  <2> QED
    BY <2>1, <2>2 DEF FdInv, FdCntCoversOpenFiles, OpenItems
<1>2. TypeInv /\ OwnInv /\ FdInv /\ [Next]_vars => FdInv'
  <2> SUFFICES ASSUME TypeInv, OwnInv, FdInv, [Next]_vars PROVE FdInv'
    BY Zenon
  <2>1. CASE (\E c \in Calls : NewItem(c)) \/ (\E g \in Goroutines : Drop(g))
    BY Zenon, <2>1, NewItemCounts, DropCounts
  <2>2. CASE ~((\E c \in Calls : NewItem(c)) \/ (\E g \in Goroutines : Drop(g)))
    <3>1. fdCnt \in Int
      BY Zenon DEF TypeInv, TypeOK, ItemTypeOK
    <3>2. file' = file /\ fdCnt' \in {fdCnt, fdCnt + 1}
      BY Zenon, <2>2, <3>1, OtherStepsCount
    <3>3. OpenItems' = OpenItems /\ Cardinality(OpenItems) \in Nat /\ fdCnt >= Cardinality(OpenItems)
      BY Zenon, <3>2, FS_CardinalityType DEF OpenItems, FdInv, FdCntCoversOpenFiles
    <3>4. fdCnt' >= Cardinality(OpenItems')
      BY <3>1, <3>2, <3>3
    <3> QED
      BY Zenon, <3>3, <3>4 DEF FdInv, FdCntCoversOpenFiles, OpenItems
  <2> QED
    BY Zenon, <2>1, <2>2
<1>3. FdInv => FdCntCoversOpenFiles
  BY Zenon DEF FdInv
<1> QED
  BY <1>1, <1>2, <1>3, InitTypeInv, NextTypeInv, OneOwner, PTL DEF Spec
=============================================================================
