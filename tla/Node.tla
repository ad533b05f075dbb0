-------------------------------- MODULE Node ---------------------------------
(***************************************************************************)
(* The process of cmd/proxy: serverCommand builds the router, which starts *)
(* the elector, and then waits for a group of goroutines: the provider, an *)
(* HTTP and an HTTPS server, each with a goroutine that shuts it down, and *)
(* the metrics server.  The group has a context of its own, which ends     *)
(* with the process's context (SIGTERM) or with the first error of a       *)
(* member; the router, the store and the elector have the process's.       *)
(***************************************************************************)
EXTENDS Election

(* What may happen in a behaviour: how often the holder of the lease is
   reported, and whether servers may fail. *)
CONSTANT Scenarios

ASSUME NodeAssumption == Scenarios \subseteq [reports : 0 .. MaxReports, faults : BOOLEAN]

VARIABLES
  scenario,
  main,      \* serverCommand: "config", "router", "serve" or "exited"
  failed,    \* serverCommand returns an error
  sigterm,   \* the process's context is cancelled
  host,      \* the libp2p host of the router: "none", "open" or "closed"
  provider,  \* Provide: "none", "run" or "ok"
  server,    \* http and https: "none", "listen", "closed" or "err"
  stopper,   \* their shutdown goroutines: "none", "wait", "drain", "ok", "err"
  prom       \* the metrics server: "none", "listen" or "err"

mainVars == <<main, failed>>
groupVars == <<provider, server, stopper, prom>>
nodeVars == <<scenario, mainVars, sigterm, host, groupVars>>
vars == <<electionVars, nodeVars>>

Servers == {"http", "https"}

Init ==
  /\ ElectionInit
  /\ scenario \in Scenarios
  /\ main = "config" /\ failed = FALSE
  /\ sigterm = FALSE
  /\ host = "none"
  /\ provider = "none"
  /\ server = [s \in Servers |-> "none"]
  /\ stopper = [s \in Servers |-> "none"]
  /\ prom = "none"

Sigterm ==
  /\ main # "exited"
  /\ ~sigterm
  /\ sigterm' = TRUE
  /\ UNCHANGED <<scenario, electionVars, mainVars, host, groupVars>>

(* A return of serverCommand ends the process.  Failed is deferred once there
   is an event recorder. *)
Return(err, recorder) ==
  /\ main' = "exited"
  /\ failed' = err
  /\ events' = events \cup (IF err /\ recorder THEN {"Failed"} ELSE {})
  /\ UNCHANGED <<scenario, electorVars, leaderVars, pc, got, sigterm, host, groupVars>>

-----------------------------------------------------------------------------
(***************************************************************************)
(* The start of serverCommand.                                             *)
(***************************************************************************)
Configures ==
  /\ main = "config"
  /\ main' = "router"
  /\ events' = events \cup {"Initializing"}
  /\ UNCHANGED <<scenario, electorVars, leaderVars, pc, got, failed, sigterm, host, groupVars>>

ConfigFails == main = "config" /\ scenario.faults /\ Return(TRUE, FALSE)

(* NewRouter: the host is opened and the elector started ... *)
RouterElects ==
  /\ main = "router" /\ host = "none"
  /\ host' = "open"
  /\ elector' = "run"
  /\ UNCHANGED <<scenario, holder, reports, overlapped, leaderVars, bootVars, mainVars, sigterm, groupVars>>

(* ... before the DHT is made, which may fail as the host may. *)
RouterFails == main = "router" /\ scenario.faults /\ Return(TRUE, TRUE)

RouterStarts ==
  /\ main = "router" /\ host = "open"
  /\ main' = "serve"
  /\ provider' = "run"
  /\ server' = [s \in Servers |-> "listen"]
  /\ stopper' = [s \in Servers |-> "wait"]
  /\ prom' = "listen"
  /\ UNCHANGED <<scenario, electionVars, failed, sigterm, host>>

-----------------------------------------------------------------------------
(***************************************************************************)
(* The group.                                                              *)
(***************************************************************************)
Errors == "err" \in {prom} \cup {server[s] : s \in Servers} \cup {stopper[s] : s \in Servers}

GroupDoneOnSigterm == sigterm
GroupDone == sigterm \/ Errors

ProvideStops ==
  /\ provider = "run"
  /\ GroupDone
  /\ provider' = "ok"
  /\ UNCHANGED <<scenario, electionVars, mainVars, sigterm, host, server, stopper, prom>>

(* Listening or accepting fails. *)
ServerFails(s) ==
  /\ server[s] = "listen"
  /\ scenario.faults
  /\ server' = [server EXCEPT ![s] = "err"]
  /\ UNCHANGED <<scenario, electionVars, mainVars, sigterm, host, provider, stopper, prom>>

(* Shutdown makes ListenAndServe return ErrServerClosed, which is no error of
   the group, and then waits for the connections. *)
ShutsDown(s) ==
  /\ stopper[s] = "wait"
  /\ GroupDone
  /\ server' = [server EXCEPT ![s] = IF @ = "listen" THEN "closed" ELSE @]
  /\ stopper' = [stopper EXCEPT ![s] = "drain"]
  /\ UNCHANGED <<scenario, electionVars, mainVars, sigterm, host, provider, prom>>

(* All connections are idle, or 30 seconds have passed. *)
Drained(s) ==
  /\ stopper[s] = "drain"
  /\ \E r \in {"ok"} \cup (IF scenario.faults THEN {"err"} ELSE {}) : stopper' = [stopper EXCEPT ![s] = r]
  /\ UNCHANGED <<scenario, electionVars, mainVars, sigterm, host, provider, server, prom>>

(* The metrics server is that of the default mux: nobody shuts it down. *)
PromFails ==
  /\ prom = "listen"
  /\ scenario.faults
  /\ prom' = "err"
  /\ UNCHANGED <<scenario, electionVars, mainVars, sigterm, host, provider, server, stopper>>

Members == {provider, prom} \cup {server[s] : s \in Servers} \cup {stopper[s] : s \in Servers}
MembersButProm == {provider} \cup {server[s] : s \in Servers} \cup {stopper[s] : s \in Servers}
GroupEndsBut == MembersButProm \subseteq {"ok", "err", "closed"}
GroupEnds == Members \subseteq {"ok", "err", "closed"}

Waits == main = "serve" /\ GroupEnds /\ Return(Errors, TRUE)

(* The goroutine of NewFilesStore that waits for the process's context. *)
RouterCloses ==
  /\ main = "serve" /\ host = "open"
  /\ sigterm
  /\ host' = "closed"
  /\ UNCHANGED <<scenario, electionVars, mainVars, sigterm, groupVars>>

-----------------------------------------------------------------------------
Up == main # "exited" /\ NoPanic

Startup == Configures \/ ConfigFails \/ RouterElects \/ RouterFails \/ RouterStarts
Group ==
  \/ ProvideStops \/ PromFails \/ Waits \/ RouterCloses
  \/ \E s \in Servers : ServerFails(s) \/ ShutsDown(s) \/ Drained(s)

ElectorCtxDoneNever == FALSE
ElectorCtxDone == sigterm

ReportsLeader == Len(reports) < scenario.reports /\ Report

Electing ==
  /\ \/ ReportsLeader \/ GivesUp \/ Callback
     \/ ElectorCtxDone /\ Cancelled
     \/ \E c \in Callers : (host = "open" /\ Bootstrap(c)) \/ Bootstraps(c)
  /\ UNCHANGED nodeVars

Next ==
  \/ LeaseMoves /\ UNCHANGED nodeVars
  \/ Up /\ (Sigterm \/ Startup \/ Group \/ Electing)

Spec == Init /\ [][Next]_vars

(* Goroutines get to run, Shutdown returns by its timeout, and the elector
   polls the lease every RetryPeriod and watches its context.  Nothing makes a
   server fail, SIGTERM arrive, the lease move or the DHT bootstrap. *)
Fairness ==
  /\ WF_vars(Up /\ (ProvideStops \/ Waits \/ RouterCloses))
  /\ \A s \in Servers : WF_vars(Up /\ (ShutsDown(s) \/ Drained(s)))
  /\ WF_vars(Up /\ ReportsLeader /\ UNCHANGED nodeVars)
  /\ WF_vars(Up /\ ElectorCtxDone /\ Cancelled /\ UNCHANGED nodeVars)
  /\ \A n \in 1 .. MaxReports :
       WF_vars(Up /\ n \in Started /\ OnNewLeader(n) /\ UNCHANGED nodeVars)
  /\ \A c \in Callers : WF_vars(Up /\ Bootstraps(c) /\ UNCHANGED nodeVars)

FairSpec == Spec /\ Fairness

-----------------------------------------------------------------------------
(* The bootstrap does not get an address from Leader before the elector has
   reported a leader, and what it gets without an error was reported. *)
LeaderWaits ==
  \A c \in Callers : pc[c] \in {"read", "done"} =>
    /\ Known # {}
    /\ got[c] \in {NoId, Error} \cup {reports[n] : n \in Known}

(* While callbacks do not overlap, initChan is closed once only and, when none
   is under way, id is the leader that was reported last.  client-go starts
   each callback in a goroutine of its own; when two overlap the older one may
   set id last, and both may close initChan. *)
IdIsLatest ==
  ~overlapped =>
    /\ NoPanic
    /\ (Known # {} /\ \A n \in Started : cb[n] = "done") =>
         LET latest == CHOOSE n \in Known : \A m \in Known : m <= n
         IN id = reports[latest]

(* P2PDisconnected is never the word that there is no leader: Leader waits for
   one.  It is emitted only while onNewLeader has closed initChan and not yet
   set id, that is when a leader is already known. *)
DisconnectedInGap ==
  [][("Disconnected" \notin events /\ "Disconnected" \in events') =>
       /\ initClosed
       /\ \E n \in Known : cb[n] = "set"]_vars

(* Once a leader is known, every bootstrap ends while the process is up. *)
LeaderReturns ==
  \A c \in Callers : (pc[c] = "wait" /\ Known # {}) ~> (pc[c] = "done" \/ ~Up)

(* When one node keeps the lease, id ends up as that node: this node follows
   the election as long as its elector runs and callbacks do not overlap.  An
   elector that gave up is not run again, and id stays what it was. *)
FollowsLease ==
  \A n \in Identities :
    <>[](holder = n /\ elector = "run" /\ ~overlapped)
      => <>[](id = n \/ (Len(reports) = scenario.reports /\ Reported # n) \/ ~Up)

(* SIGTERM, and the failure of any server, stop both servers and their
   shutdown goroutines: no member of the group but the metrics server keeps
   running, and the node serves no blobs any more. *)
ServersStop ==
  (main = "serve" /\ (sigterm \/ Errors)) ~> (GroupEndsBut \/ ~Up)

(* After SIGTERM this node leaves the cluster: its host closes and its elector
   ends, also when it has to wait for nothing else to end. *)
LeavesCluster ==
  (main = "serve" /\ sigterm) ~> ((host = "closed" /\ elector = "ended") \/ ~Up)

(* Nothing but a failure of the metrics server lets serverCommand return once
   it serves: after SIGTERM, or when a server of blobs fails, the group waits
   for the metrics server, which nobody shuts down.  So serverCommand returns
   with an error whenever it returns, and P2PFailed is emitted with it. *)
EndsWithMetrics ==
  (main = "exited" /\ host # "none" /\ prom # "none") =>
    prom = "err" /\ failed /\ "Failed" \in events
=============================================================================
