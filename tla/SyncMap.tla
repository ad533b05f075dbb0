------------------------------- MODULE SyncMap -------------------------------
(***************************************************************************)
(* The bounded map of pkg/cache/syncmap.go, which fileCache uses as its    *)
(* metadata cache (Size and PutSize).  Every operation runs under the      *)
(* map's lock and is one action.                                           *)
(***************************************************************************)
EXTENDS Integers, FiniteSets

CONSTANTS
  Keys, Values,
  None,                \* no value
  maxEntries,          \* the argument of NewSyncMap
  evictionPercentage   \* 5 in NewSyncMap; the tests set others

ASSUME SyncMapAssumption ==
  /\ None \notin Values
  /\ IsFiniteSet(Keys)
  /\ maxEntries \in Int
  /\ evictionPercentage \in 0 .. 100

VARIABLES
  mapObj,   \* the entries
  last,     \* history: the value of the last Set or Delete of each key
  read      \* history: the key and the value that the last Get returned

mapVars == <<mapObj, last, read>>

(* NewSyncMap: a capacity that is not positive becomes 1. *)
Capacity == IF maxEntries <= 0 THEN 1 ELSE maxEntries

Entries(m) == {k \in Keys : m[k] # None}

NumToEvict(n) ==
  LET share == (n * evictionPercentage) \div 100
  IN IF share <= 1 THEN 1 ELSE share

(* Go ranges over a map in an unspecified order: any entries may go.  The
   loop ends early when the map is empty. *)
Victims(m) ==
  LET n == Cardinality(Entries(m))
  IN {E \in SUBSET Entries(m) :
        \/ Cardinality(E) = NumToEvict(n)
        \/ E = Entries(m) /\ n < NumToEvict(n)}

Without(m, E) == [k \in Keys |-> IF k \in E THEN None ELSE m[k]]

MapInit ==
  /\ mapObj = [k \in Keys |-> None]
  /\ last = [k \in Keys |-> None]
  /\ read = <<None, None>>

Get(k) ==
  /\ read' = <<k, mapObj[k]>>
  /\ UNCHANGED <<mapObj, last>>

IsFullAbove(m) == Cardinality(Entries(m)) > Capacity
IsFullEarly(m) == Cardinality(Entries(m)) + 1 >= Capacity
IsFull(m) == Cardinality(Entries(m)) >= Capacity

Update(k, v) ==
  /\ mapObj[k] # None
  /\ mapObj' = [mapObj EXCEPT ![k] = v]
  /\ last' = [last EXCEPT ![k] = v]
  /\ UNCHANGED read

Insert(k, v) ==
  /\ mapObj[k] = None
  /\ ~IsFull(mapObj)
  /\ mapObj' = [mapObj EXCEPT ![k] = v]
  /\ last' = [last EXCEPT ![k] = v]
  /\ UNCHANGED read

InsertEvicting(k, v) ==
  /\ mapObj[k] = None
  /\ IsFull(mapObj)
  /\ \E E \in Victims(mapObj) : mapObj' = [Without(mapObj, E) EXCEPT ![k] = v]
  /\ last' = [last EXCEPT ![k] = v]
  /\ UNCHANGED read

DeleteNothing(k) ==
  /\ last' = [last EXCEPT ![k] = None]
  /\ UNCHANGED <<mapObj, read>>

Delete(k) ==
  /\ mapObj' = [mapObj EXCEPT ![k] = None]
  /\ last' = [last EXCEPT ![k] = None]
  /\ UNCHANGED read

Set(k, v) == Update(k, v) \/ Insert(k, v) \/ InsertEvicting(k, v)

MapNext ==
  \E k \in Keys :
    \/ Get(k)
    \/ Delete(k)
    \/ \E v \in Values : Set(k, v)

MapSpec == MapInit /\ [][MapNext]_mapVars

-----------------------------------------------------------------------------
(* The entries are values of known keys. *)
MapTypeOK ==
  /\ mapObj \in [Keys -> Values \cup {None}]
  /\ last \in [Keys -> Values \cup {None}]
  /\ read \in (Keys \cup {None}) \X (Values \cup {None})

(* The map never holds more entries than its capacity: Set makes room before
   it inserts, whatever the eviction percentage rounds to. *)
WithinCapacity == Cardinality(Entries(mapObj)) <= Capacity

(* Eviction may forget a value but never brings an old one back: an entry is
   the value of the last Set of its key, and no Delete came after it. *)
NeverStale == \A k \in Keys : mapObj[k] \in {last[k], None}

(* A Set loses other keys' entries only from a full map, and at most
   NumToEvict of them; a Set of a key that is present loses none. *)
EvictsOnlyWhenFull ==
  [][LET lost == Entries(mapObj) \ Entries(mapObj')
     IN \/ lost = {}
        \/ \E k \in Keys : lost = {k} /\ last'[k] = None
        \/ /\ Cardinality(Entries(mapObj)) = Capacity
           /\ Cardinality(lost) <= NumToEvict(Capacity)
           /\ \E k \in Keys : mapObj[k] = None /\ mapObj'[k] # None]_mapVars
=============================================================================
