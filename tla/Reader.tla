------------------------------- MODULE Reader --------------------------------
(***************************************************************************)
(* Reading a chunk from the network: files.FetchFile, reader.PreadRemote   *)
(* and doP2p (pkg/discovery/content/reader), and router.Resolve with its   *)
(* negative lookup cache (pkg/discovery/routing), on one node.             *)
(*                                                                         *)
(* Every read has a goroutine that turns providers found in the DHT into   *)
(* peers on peersCh, and a context that ends after resolveTimeout.  The    *)
(* DHT, the peers, the origin and the lookup cache (ristretto) are         *)
(* external.                                                               *)
(***************************************************************************)
EXTENDS Integers, Sequences, FiniteSets

CONSTANTS
  Reads,          \* calls of FetchFile
  Peers,          \* peers with one IPv4 address
  Self,           \* this node, which may provide the key as well
  Odd,            \* peers whose addresses Resolve does not accept
  None,
  Origin, Zero,   \* where a byte of a buffer comes from; Zero: never written
  BufLen,         \* bytes in the buffer of FetchFile
  Count,          \* ResolveRetries: providers asked for, capacity of peersCh
  Scenarios       \* which providers the key has, which reads serve a peer

ASSUME ReaderAssumption ==
  /\ BufLen \in Nat \ {0} /\ Count \in Nat \ {0}
  /\ Scenarios \subseteq [providers : SUBSET (Peers \cup Odd \cup {Self}),
                        fromPeer : SUBSET Reads]
  /\ Self \notin Peers \cup Odd /\ Odd \cap Peers = {}
  /\ None \notin Peers
  /\ Origin # Zero /\ Origin \notin Peers /\ Zero \notin Peers

VARIABLES
  scenario,
  negCache,   \* lookupCache: the key is cached as not found
  negQueued,  \* an entry set by negCacheCallback that has not landed yet
  resolver,   \* the goroutine of Resolve: "none", "run", "send", "report", "done"
  found,      \* the providers it has received
  sending,    \* the peer it is sending
  peersCh,    \* the channel of peers
  ctxDone,    \* resolveCtx has timed out or was cancelled
  active,     \* router.active
  activeSent, \* P2PActive events emitted
  pc, tried, buf, res   \* the locals of each read

lookupVars == <<negCache, negQueued>>
resolveVars == <<resolver, found, sending, peersCh>>
activeVars == <<active, activeSent>>
vars == <<scenario, lookupVars, resolveVars, ctxDone, activeVars, pc, tried, buf, res>>

Providers == Peers \cup Odd \cup {Self}

Init ==
  /\ scenario \in Scenarios
  /\ negCache = FALSE
  /\ negQueued = FALSE
  /\ resolver = [r \in Reads |-> "none"]
  /\ found = [r \in Reads |-> {}]
  /\ sending = [r \in Reads |-> None]
  /\ peersCh = [r \in Reads |-> << >>]
  /\ ctxDone = [r \in Reads |-> FALSE]
  /\ active = FALSE
  /\ activeSent = 0
  /\ pc = [r \in Reads |-> "start"]
  /\ tried = [r \in Reads |-> << >>]
  /\ buf = [r \in Reads |-> [n \in 1 .. BufLen |-> Zero]]
  /\ res = [r \in Reads |-> "none"]

Last(s) == s[Len(s)]
Goto(r, l) == pc' = [pc EXCEPT ![r] = l]

-----------------------------------------------------------------------------
(***************************************************************************)
(* doP2p.                                                                  *)
(***************************************************************************)

SkipsP2PIfCached(r) == negCache
(* A request from a peer is not passed on to another peer, and a key that is
   cached as not found is not looked up: both go to the origin. *)
SkipsP2P(r) == r \in scenario.fromPeer \/ negCache

GoesToOrigin(r) ==
  /\ pc[r] = "start"
  /\ SkipsP2P(r)
  /\ Goto(r, "origin")
  /\ UNCHANGED <<scenario, lookupVars, resolveVars, ctxDone, activeVars, tried, buf, res>>

Resolves(r) ==
  /\ pc[r] = "start"
  /\ ~SkipsP2P(r)
  /\ resolver' = [resolver EXCEPT ![r] = "run"]
  /\ Goto(r, "select")
  /\ UNCHANGED <<scenario, lookupVars, found, sending, peersCh, ctxDone, activeVars, tried, buf, res>>

TimesOut(r) ==
  /\ resolver[r] # "none"
  /\ ~ctxDone[r]
  /\ ctxDone' = [ctxDone EXCEPT ![r] = TRUE]
  /\ UNCHANGED <<scenario, lookupVars, resolveVars, activeVars, pc, tried, buf, res>>

(* select picks any of its cases that are ready.  The third one, a closed
   peersCh, never is: Resolve does not close the channel. *)
AfterTimeoutAgain == "select"
AfterTimeout == "origin"
SelectTimeout(r) ==
  /\ pc[r] = "select"
  /\ ctxDone[r]
  /\ negQueued' = TRUE
  /\ Goto(r, AfterTimeout)
  /\ UNCHANGED <<scenario, negCache, resolveVars, ctxDone, activeVars, tried, buf, res>>

SelectPeer(r) ==
  /\ pc[r] = "select"
  /\ peersCh[r] # << >>
  /\ tried' = [tried EXCEPT ![r] = Append(@, Head(peersCh[r]))]
  /\ peersCh' = [peersCh EXCEPT ![r] = Tail(@)]
  /\ Goto(r, "peer")
  /\ UNCHANGED <<scenario, lookupVars, resolver, found, sending, ctxDone, activeVars, buf, res>>

(* io.ReadFull puts the n bytes that arrived at the start of the buffer. *)
ReadFull(r, src, n) ==
  buf' = [buf EXCEPT ![r] = [b \in 1 .. BufLen |-> IF b <= n THEN src ELSE @[b]]]

(* io.ReadFull fails when fewer bytes arrive than the buffer takes. *)
IsFullIfAny(n) == n > 0
IsFull(n) == n = BufLen

(* Returning runs the deferred cancel of resolveCtx. *)
PeerAnswers(r, n) ==
  /\ pc[r] = "peer"
  /\ IsFull(n)
  /\ ReadFull(r, Last(tried[r]), n)
  /\ ctxDone' = [ctxDone EXCEPT ![r] = TRUE]
  /\ res' = [res EXCEPT ![r] = "ok"]
  /\ Goto(r, "done")
  /\ UNCHANGED <<scenario, lookupVars, resolveVars, activeVars, tried>>

(* The peer fails, or breaks off after n bytes: the next peer is tried. *)
PeerBreaksOff(r, n) ==
  /\ pc[r] = "peer"
  /\ ~IsFull(n)
  /\ ReadFull(r, Last(tried[r]), n)
  /\ Goto(r, "select")
  /\ UNCHANGED <<scenario, lookupVars, resolveVars, ctxDone, activeVars, tried, res>>

-----------------------------------------------------------------------------
(***************************************************************************)
(* PreadRemote's request to the origin, and what FetchFile makes of it.    *)
(***************************************************************************)
Finish(r, result) ==
  /\ pc[r] = "origin"
  /\ res' = [res EXCEPT ![r] = result]
  /\ Goto(r, "done")
  /\ UNCHANGED <<scenario, lookupVars, resolveVars, ctxDone, activeVars, tried>>

OriginAnswers(r, n) == IsFull(n) /\ ReadFull(r, Origin, n) /\ Finish(r, "ok")
OriginBreaksOff(r, n) == ~IsFull(n) /\ ReadFull(r, Origin, n) /\ Finish(r, "err")

(* io.ReadFull of an empty body returns io.EOF, which FetchFile takes for
   success: it returns what is in the buffer. *)
OriginEmpty(r) == UNCHANGED buf /\ Finish(r, "empty")

-----------------------------------------------------------------------------
(***************************************************************************)
(* The goroutine of Resolve.  FindProvidersAsync sends each provider once, *)
(* at most Count of them, and closes its channel when the search or the    *)
(* context ends; what is in the channel by then is still received.         *)
(***************************************************************************)
Accepts(p) == p # Self /\ p \notin Odd

FindsPeer(r, p) ==
  /\ resolver[r] = "run"
  /\ p \notin found[r] /\ Cardinality(found[r]) < Count
  /\ found' = [found EXCEPT ![r] = @ \cup {p}]
  /\ resolver' = [resolver EXCEPT ![r] = IF Accepts(p) THEN "send" ELSE "run"]
  /\ sending' = [sending EXCEPT ![r] = IF Accepts(p) THEN p ELSE None]
  /\ UNCHANGED <<scenario, lookupVars, peersCh, ctxDone, activeVars, pc, tried, buf, res>>

ChanCapOne == 1
ChanCap == Count

SendsPeer(r) ==
  /\ resolver[r] = "send"
  /\ Len(peersCh[r]) < ChanCap
  /\ peersCh' = [peersCh EXCEPT ![r] = Append(@, sending[r])]
  /\ resolver' = [resolver EXCEPT ![r] = "report"]
  /\ UNCHANGED <<scenario, lookupVars, found, sending, ctxDone, activeVars, pc, tried, buf, res>>

(* The first peer that this node ever sends is reported as P2PActive, unless
   events.NewRecorder fails. *)
FirstPeerAlways == TRUE
FirstPeer == ~active

Reports(r) ==
  /\ resolver[r] = "report"
  /\ active' = TRUE
  /\ activeSent' \in {activeSent} \cup (IF FirstPeer THEN {activeSent + 1} ELSE {})
  /\ resolver' = [resolver EXCEPT ![r] = "run"]
  /\ UNCHANGED <<scenario, lookupVars, found, sending, peersCh, ctxDone, pc, tried, buf, res>>

SearchEnds(r) ==
  /\ resolver[r] = "run"
  /\ resolver' = [resolver EXCEPT ![r] = "done"]
  /\ UNCHANGED <<scenario, lookupVars, found, sending, peersCh, ctxDone, activeVars, pc, tried, buf, res>>

(* lookupCache.SetWithTTL: the entry lands later, may be lost, and expires. *)
NegLands ==
  /\ negQueued
  /\ negQueued' = FALSE
  /\ negCache' \in {TRUE, negCache}
  /\ UNCHANGED <<scenario, resolveVars, ctxDone, activeVars, pc, tried, buf, res>>

NegExpires ==
  /\ negCache
  /\ negCache' = FALSE
  /\ UNCHANGED <<scenario, negQueued, resolveVars, ctxDone, activeVars, pc, tried, buf, res>>

-----------------------------------------------------------------------------
Started(r) ==
  \/ SelectTimeout(r) \/ SelectPeer(r) \/ OriginEmpty(r)
  \/ \E n \in 0 .. BufLen : \/ PeerAnswers(r, n) \/ PeerBreaksOff(r, n)
                           \/ OriginAnswers(r, n) \/ OriginBreaksOff(r, n)

Resolving(r) ==
  (\E p \in scenario.providers : FindsPeer(r, p)) \/ SendsPeer(r) \/ Reports(r) \/ SearchEnds(r)

Quiet ==
  /\ \A r \in Reads : pc[r] = "done" /\ resolver[r] \in {"none", "done"}
  /\ UNCHANGED vars

Next ==
  \/ \E r \in Reads : \/ GoesToOrigin(r) \/ Resolves(r) \/ TimesOut(r)
                      \/ Started(r) \/ Resolving(r)
  \/ NegLands \/ NegExpires
  \/ Quiet

Spec == Init /\ [][Next]_vars

(* Goroutines get to run, HTTP requests end by the client's timeout, the
   resolve context times out, and the DHT search ends with its context. *)
Fairness ==
  /\ \A r \in Reads : /\ WF_vars(Started(r)) /\ WF_vars(TimesOut(r))
                      /\ WF_vars(SendsPeer(r) \/ Reports(r) \/ SearchEnds(r))

FairSpec == Spec /\ Fairness

-----------------------------------------------------------------------------
(* The state of the reads, of the resolvers and of the router is typed. *)
TypeOK ==
  /\ scenario \in Scenarios
  /\ negCache \in BOOLEAN /\ negQueued \in BOOLEAN /\ active \in BOOLEAN
  /\ resolver \in [Reads -> {"none", "run", "send", "report", "done"}]
  /\ found \in [Reads -> SUBSET Providers]
  /\ sending \in [Reads -> Peers \cup {None}]
  /\ peersCh \in [Reads -> Seq(Peers)]
  /\ ctxDone \in [Reads -> BOOLEAN]
  /\ activeSent \in Nat
  /\ pc \in [Reads -> {"start", "select", "peer", "origin", "done"}]
  /\ tried \in [Reads -> Seq(Peers)]
  /\ buf \in [Reads -> [1 .. BufLen -> Peers \cup {Origin, Zero}]]
  /\ res \in [Reads -> {"none", "ok", "empty", "err"}]

(* FetchFile returns bytes of one server only: what is left in the buffer by
   peers that broke off is never mixed into a chunk that will be cached.  (An
   empty body of the origin is the exception, OriginEmpty.) *)
OneSource ==
  \A r \in Reads : res[r] = "ok" =>
    \E src \in Peers \cup {Origin} : \A n \in 1 .. BufLen : buf[r][n] = src

(* One read asks no peer twice, at most ResolveRetries peers, and none when
   it serves a peer: no chain of peers that ask each other can form. *)
AsksEachPeerOnce ==
  \A r \in Reads :
    /\ \A m, n \in 1 .. Len(tried[r]) : tried[r][m] = tried[r][n] => m = n
    /\ Len(tried[r]) + Len(peersCh[r]) <= Count
    /\ r \in scenario.fromPeer => tried[r] = << >>

(* The goroutine of Resolve never waits to send a peer: peersCh has room for
   all that FindProvidersAsync can send, so the goroutine cannot be left
   behind by a doP2p that has stopped receiving. *)
SenderNeverBlocks ==
  \A r \in Reads : resolver[r] = "send" => Len(peersCh[r]) < ChanCap

(* P2PActive is emitted at most once in the life of a router, however many
   lookups find their first peer at the same time. *)
ActiveOnce == activeSent <= 1

(* Every read returns: no set of slow, failing or missing peers keeps
   PreadRemote from getting to the origin. *)
EveryReadReturns == \A r \in Reads : pc[r] # "start" ~> pc[r] = "done"
=============================================================================
