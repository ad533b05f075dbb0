------------------------------ MODULE Election -------------------------------
(***************************************************************************)
(* pkg/k8s/election on one node, and its user, the callback by which the   *)
(* router bootstraps the DHT (BootstrapPeersFunc in routing.NewRouter).    *)
(* client-go's elector is external: it watches the lease and calls         *)
(* onNewLeader in a goroutine of its own each time the holder that it sees *)
(* has changed.  kad-dht, external as well, calls the callback whenever it *)
(* has too few peers.                                                      *)
(***************************************************************************)
EXTENDS Integers, Sequences

CONSTANTS
  Self, Others,   \* identities of this node and of the others
  Unknown,        \* resourcelock.UnknownLeader, a lease that nobody holds
  Callers,        \* calls of the bootstrap callback
  MaxReports      \* bound on the calls of onNewLeader

ASSUME ElectionAssumption ==
  /\ Unknown \notin Others \cup {Self}
  /\ Self \notin Others
  /\ {"empty", "error"} \cap (Others \cup {Self}) = {}
  /\ MaxReports \in Nat

VARIABLES
  holder,     \* who holds the lease
  elector,    \* client-go's RunOrDie: "new", "run" or "ended"
  reports,    \* the identities reported so far, one per callback
  overlapped, \* history: a callback began before an earlier one had ended
  cb,         \* where each callback is: "select", "close", "set", "done", "panic"
  initClosed, \* initChan is closed
  id,         \* leaderElection.id; the zero value is the empty string
  pc,         \* where each bootstrap is: "idle", "wait", "read", "done"
  got,        \* what Leader returned to it
  events      \* the events that bootstraps emitted

electorVars == <<holder, elector, reports, overlapped>>
leaderVars == <<cb, initClosed, id>>
bootVars == <<pc, got, events>>
electionVars == <<electorVars, leaderVars, bootVars>>

Identities == Others \cup {Self}
NoId == "empty"
Error == "error"
Started == 1 .. Len(reports)
Reported == IF reports = << >> THEN Unknown ELSE reports[Len(reports)]
Known == {n \in Started : reports[n] # Unknown}

ElectionInit ==
  /\ holder = Unknown
  /\ elector = "new"
  /\ reports = << >>
  /\ overlapped = FALSE
  /\ cb = << >>
  /\ initClosed = FALSE
  /\ id = NoId
  /\ pc = [c \in Callers |-> "idle"]
  /\ got = [c \in Callers |-> NoId]
  /\ events = {}

-----------------------------------------------------------------------------
(***************************************************************************)
(* The elector and the lease.  This node gets the lease through its own    *)
(* elector only, and loses it to others when it does not renew in time.    *)
(***************************************************************************)
LeaseMoves ==
  /\ \E n \in Identities \cup {Unknown} :
       /\ n # holder
       /\ n = Self => elector = "run"
       /\ holder' = n
  /\ UNCHANGED <<elector, reports, overlapped, leaderVars, bootVars>>

(* The elector sees a holder that it has not reported yet. *)
Report ==
  /\ elector = "run"
  /\ holder # Reported
  /\ Len(reports) < MaxReports
  /\ reports' = Append(reports, holder)
  /\ cb' = Append(cb, "select")
  /\ overlapped' = (overlapped \/ \E n \in Started : cb[n] # "done")
  /\ UNCHANGED <<holder, elector, initClosed, id, bootVars>>

(* RunOrDie returns when its context ends, and when the leader cannot renew;
   nobody runs it again.  Both ways it gives the lease back (ReleaseOnCancel),
   if it can. *)
Released == IF holder = Self THEN Unknown ELSE holder

GivesUp ==
  /\ elector = "run"
  /\ Reported = Self
  /\ elector' = "ended"
  /\ holder' \in {holder, Released}
  /\ UNCHANGED <<reports, overlapped, leaderVars, bootVars>>

Cancelled ==
  /\ elector = "run"
  /\ elector' = "ended"
  /\ holder' = Released
  /\ UNCHANGED <<reports, overlapped, leaderVars, bootVars>>

-----------------------------------------------------------------------------
(***************************************************************************)
(* onNewLeader.                                                            *)
(***************************************************************************)
Ignore(n) ==
  /\ cb[n] = "select"
  /\ reports[n] = Unknown
  /\ cb' = [cb EXCEPT ![n] = "done"]
  /\ UNCHANGED <<electorVars, initClosed, id, bootVars>>

Select(n) ==
  /\ cb[n] = "select"
  /\ reports[n] # Unknown
  /\ cb' = [cb EXCEPT ![n] = IF initClosed THEN "set" ELSE "close"]
  /\ UNCHANGED <<electorVars, initClosed, id, bootVars>>

(* Closing a closed channel panics. *)
ClosedNot == initClosed
Closed == TRUE
CloseInit(n) ==
  /\ cb[n] = "close"
  /\ initClosed' = Closed
  /\ cb' = [cb EXCEPT ![n] = IF initClosed THEN "panic" ELSE "set"]
  /\ UNCHANGED <<electorVars, id, bootVars>>

IdFirst(n) == IF id = NoId THEN reports[n] ELSE id
Id(n) == reports[n]
SetId(n) ==
  /\ cb[n] = "set"
  /\ id' = Id(n)
  /\ cb' = [cb EXCEPT ![n] = "done"]
  /\ UNCHANGED <<electorVars, initClosed, bootVars>>

OnNewLeader(n) == Ignore(n) \/ Select(n) \/ CloseInit(n) \/ SetId(n)

-----------------------------------------------------------------------------
(***************************************************************************)
(* The bootstrap callback, which calls Leader first.                       *)
(***************************************************************************)
Bootstrap(c) ==
  /\ pc[c] = "idle"
  /\ pc' = [pc EXCEPT ![c] = "wait"]
  /\ UNCHANGED <<electorVars, leaderVars, got, events>>

InitReceivedAlways == TRUE
InitReceived == initClosed
AwaitInit(c) ==
  /\ pc[c] = "wait"
  /\ InitReceived
  /\ pc' = [pc EXCEPT ![c] = "read"]
  /\ UNCHANGED <<electorVars, leaderVars, got, events>>

(* The multiaddress of an empty string is an error, and the node reports that
   it is disconnected.  An address that names no peer is reported as neither;
   otherwise the node reports that it is connected, and either it is the leader
   or the leader is the peer to connect to. *)
Leader == IF id = NoId THEN Error ELSE id
BootstrapEnds(c) ==
  /\ pc[c] = "read"
  /\ got' = [got EXCEPT ![c] = Leader]
  /\ \/ Leader = Error /\ events' = events \cup {"Disconnected"}
     \/ Leader # Error /\ events' = events \cup {"Connected"}
     \/ Leader # Error /\ UNCHANGED events
  /\ pc' = [pc EXCEPT ![c] = "done"]
  /\ UNCHANGED <<electorVars, leaderVars>>

(* A panic in a callback ends the process; the lease lives on. *)
NoPanic == \A n \in Started : cb[n] # "panic"

Callback == \E n \in Started : OnNewLeader(n)
Bootstraps(c) == AwaitInit(c) \/ BootstrapEnds(c)
=============================================================================
