---------------------------- MODULE ReaderProofs -----------------------------
(***************************************************************************)
(* Proofs about Reader for any number of reads, peers, retries and bytes.  *)
(***************************************************************************)
EXTENDS Reader, FiniteSetTheorems, SequenceTheorems, TLAPS

(***************************************************************************)
(* Types.  A read that waits for a peer has tried one, and its last one is *)
(* the peer that it waits for; a goroutine that sends has a peer to send.  *)
(***************************************************************************)
TypeInv ==
  /\ TypeOK
  /\ \A r \in Reads : /\ pc[r] = "peer" => tried[r] # << >>
                      /\ resolver[r] = "send" => sending[r] \in Peers

(* What io.ReadFull leaves in a buffer is typed, whoever the source is. *)
LEMMA ReadFullTypes ==
  ASSUME TypeOK, NEW r \in Reads, NEW src \in Peers \cup {Origin}, NEW n \in 0 .. BufLen,
         ReadFull(r, src, n)
  PROVE  buf' \in [Reads -> [1 .. BufLen -> Peers \cup {Origin, Zero}]]
  BY Zenon DEF TypeOK, ReadFull

(* SelectPeer takes the first peer from the channel and appends it to those
   that were tried. *)
LEMMA SelectPeerTypes ==
  ASSUME TypeInv, NEW r \in Reads, SelectPeer(r)
  PROVE  TypeInv'
<1>1. peersCh[r] \in Seq(Peers) /\ peersCh[r] # << >> /\ tried[r] \in Seq(Peers)
  BY DEF TypeInv, TypeOK, SelectPeer
<1>2. Head(peersCh[r]) \in Peers /\ Tail(peersCh[r]) \in Seq(Peers)
  BY <1>1
<1>3. /\ Append(tried[r], Head(peersCh[r])) \in Seq(Peers)
      /\ Append(tried[r], Head(peersCh[r])) # << >>
  BY <1>1, <1>2
<1>4. tried' \in [Reads -> Seq(Peers)] /\ peersCh' \in [Reads -> Seq(Peers)]
  BY <1>2, <1>3 DEF TypeInv, TypeOK, SelectPeer
<1>5. TypeOK'
  BY <1>4 DEF TypeInv, TypeOK, SelectPeer, Goto, lookupVars, activeVars
<1>6. /\ \A s \in Reads : tried'[s] # << >> \/ (tried'[s] = tried[s] /\ pc'[s] = pc[s])
      /\ resolver' = resolver /\ sending' = sending
  BY <1>3 DEF TypeInv, TypeOK, SelectPeer, Goto
<1> QED
  BY <1>5, <1>6 DEF TypeInv

(* The steps of doP2p, PreadRemote and FetchFile keep the types. *)
LEMMA ReadTypes ==
  ASSUME TypeInv, NEW r \in Reads, GoesToOrigin(r) \/ Resolves(r) \/ TimesOut(r) \/ Started(r)
  PROVE  TypeInv'
<1>1. CASE GoesToOrigin(r)
  BY <1>1 DEF TypeInv, TypeOK, GoesToOrigin, Goto, lookupVars, resolveVars, activeVars
<1>2. CASE Resolves(r)
  BY <1>2 DEF TypeInv, TypeOK, Resolves, Goto, lookupVars, activeVars
<1>3. CASE TimesOut(r)
  BY <1>3 DEF TypeInv, TypeOK, TimesOut, lookupVars, resolveVars, activeVars
<1>4. CASE SelectTimeout(r)
  BY <1>4 DEF TypeInv, TypeOK, SelectTimeout, AfterTimeout, Goto, resolveVars, activeVars
<1>5. CASE SelectPeer(r)
  BY <1>5, SelectPeerTypes
<1>6. ASSUME NEW n \in 0 .. BufLen, PeerAnswers(r, n) \/ PeerBreaksOff(r, n)
      PROVE  TypeInv'
  <2>1. pc[r] = "peer" /\ ReadFull(r, Last(tried[r]), n)
    BY <1>6 DEF PeerAnswers, PeerBreaksOff
  <2>2. tried[r] \in Seq(Peers) /\ tried[r] # << >>
    BY <2>1 DEF TypeInv, TypeOK
  <2>3. Last(tried[r]) \in Peers
    BY <2>2 DEF Last
  <2>4. buf' \in [Reads -> [1 .. BufLen -> Peers \cup {Origin, Zero}]]
    BY <2>1, <2>3, ReadFullTypes DEF TypeInv
  <2>5. CASE PeerAnswers(r, n)
    BY <2>4, <2>5 DEF TypeInv, TypeOK, PeerAnswers, Goto, lookupVars, resolveVars, activeVars
  <2>6. CASE PeerBreaksOff(r, n)
    BY <2>4, <2>6 DEF TypeInv, TypeOK, PeerBreaksOff, Goto, lookupVars, resolveVars, activeVars
  <2> QED
    BY <1>6, <2>5, <2>6
<1>7. ASSUME NEW n \in 0 .. BufLen, OriginAnswers(r, n) \/ OriginBreaksOff(r, n)
      PROVE  TypeInv'
  <2>1. buf' \in [Reads -> [1 .. BufLen -> Peers \cup {Origin, Zero}]]
    BY <1>7, ReadFullTypes DEF TypeInv, OriginAnswers, OriginBreaksOff
  <2>2. Finish(r, "ok") \/ Finish(r, "err")
    BY <1>7 DEF OriginAnswers, OriginBreaksOff
  <2> QED
    BY Zenon, <2>1, <2>2 DEF TypeInv, TypeOK, Finish, Goto, lookupVars, resolveVars, activeVars
<1>8. CASE OriginEmpty(r)
  BY <1>8 DEF TypeInv, TypeOK, OriginEmpty, Finish, Goto, lookupVars, resolveVars, activeVars
<1> QED
  BY <1>1, <1>2, <1>3, <1>4, <1>5, <1>6, <1>7, <1>8 DEF Started

(* The steps of the goroutine of Resolve keep the types. *)
LEMMA ResolveTypes ==
  ASSUME TypeInv, NEW r \in Reads, Resolving(r)
  PROVE  TypeInv'
<1>1. ASSUME NEW p \in scenario.providers, FindsPeer(r, p)
      PROVE  TypeInv'
  <2>1. p \in Providers
    BY ReaderAssumption DEF TypeInv, TypeOK, Providers
  <2>2. Accepts(p) => p \in Peers
    BY <2>1 DEF Accepts, Providers
  <2> QED
    BY <1>1, <2>1, <2>2 DEF TypeInv, TypeOK, FindsPeer, lookupVars, activeVars
<1>2. CASE SendsPeer(r)
  <2>1. sending[r] \in Peers
    BY <1>2 DEF TypeInv, SendsPeer
  <2>2. Append(peersCh[r], sending[r]) \in Seq(Peers)
    BY <2>1 DEF TypeInv, TypeOK
  <2> QED
    BY <1>2, <2>2 DEF TypeInv, TypeOK, SendsPeer, lookupVars, activeVars
<1>3. CASE Reports(r)
  BY <1>3 DEF TypeInv, TypeOK, Reports, FirstPeer, lookupVars
<1>4. CASE SearchEnds(r)
  BY <1>4 DEF TypeInv, TypeOK, SearchEnds, lookupVars, activeVars
<1> QED
  BY <1>1, <1>2, <1>3, <1>4 DEF Resolving

(* The reads, the resolvers and the router keep their types. *)
THEOREM TypeCorrect == Spec => []TypeInv
<1>1. ASSUME Init PROVE TypeInv
  <2>1. << >> \in Seq(Peers)
    OBVIOUS
  <2>2. tried \in [Reads -> Seq(Peers)] /\ peersCh \in [Reads -> Seq(Peers)]
    BY <1>1, <2>1 DEF Init
  <2>3. buf \in [Reads -> [1 .. BufLen -> Peers \cup {Origin, Zero}]]
    BY <1>1 DEF Init
  <2>4. TypeOK
    BY Zenon, <1>1, <2>2, <2>3 DEF Init, TypeOK
  <2>5. \A r \in Reads : pc[r] = "start" /\ resolver[r] = "none"
    BY <1>1 DEF Init
  <2> QED
    BY <2>4, <2>5 DEF TypeInv
<1>2. TypeInv /\ [Next]_vars => TypeInv'
  <2> SUFFICES ASSUME TypeInv, [Next]_vars
               PROVE  TypeInv'
    OBVIOUS
  <2>1. ASSUME NEW r \in Reads, GoesToOrigin(r) \/ Resolves(r) \/ TimesOut(r) \/ Started(r)
        PROVE  TypeInv'
    BY <2>1, ReadTypes
  <2>2. ASSUME NEW r \in Reads, Resolving(r)
        PROVE  TypeInv'
    BY <2>2, ResolveTypes
  <2>3. CASE NegLands
    BY Zenon, <2>3 DEF TypeInv, TypeOK, NegLands, resolveVars, activeVars
  <2>4. CASE NegExpires
    BY Zenon, <2>4 DEF TypeInv, TypeOK, NegExpires, resolveVars, activeVars
  <2>5. CASE UNCHANGED vars
    BY <2>5 DEF TypeInv, TypeOK, vars, lookupVars, resolveVars, activeVars
  <2> QED
    BY <2>1, <2>2, <2>3, <2>4, <2>5 DEF Next, Quiet
<1> QED
  BY <1>1, <1>2, PTL DEF Spec

-----------------------------------------------------------------------------
(***************************************************************************)
(* P2PActive.  The flag is set before the event is sent, and never reset.  *)
(***************************************************************************)
ActiveInv == activeSent <= 1 /\ (~active => activeSent = 0)

(* No step but Reports touches the flag or the events. *)
LEMMA ActiveFrame ==
  ASSUME [Next]_vars
  PROVE  UNCHANGED activeVars \/ \E r \in Reads : Reports(r)
<1>1. ASSUME NEW r \in Reads, GoesToOrigin(r) \/ Resolves(r) \/ TimesOut(r)
      PROVE  UNCHANGED activeVars
  BY <1>1 DEF GoesToOrigin, Resolves, TimesOut
<1>2. ASSUME NEW r \in Reads, Started(r)
      PROVE  UNCHANGED activeVars
  BY <1>2 DEF Started, SelectTimeout, SelectPeer, OriginEmpty, PeerAnswers, PeerBreaksOff,
              OriginAnswers, OriginBreaksOff, Finish
<1>3. ASSUME NEW r \in Reads, Resolving(r)
      PROVE  UNCHANGED activeVars \/ Reports(r)
  BY <1>3 DEF Resolving, FindsPeer, SendsPeer, SearchEnds
<1>4. NegLands \/ NegExpires \/ UNCHANGED vars => UNCHANGED activeVars
  BY Zenon DEF NegLands, NegExpires, vars
<1> QED
  BY <1>1, <1>2, <1>3, <1>4 DEF Next, Quiet

(* However many lookups find their first peer at once, router.Resolve emits
   P2PActive at most once. *)
THEOREM ActiveAtMostOnce == Spec => []ActiveOnce
<1>1. Init => ActiveInv
  BY DEF Init, ActiveInv
<1>2. TypeInv /\ ActiveInv /\ [Next]_vars => ActiveInv'
  <2> SUFFICES ASSUME TypeInv, ActiveInv, [Next]_vars
               PROVE  ActiveInv'
    OBVIOUS
  <2>1. CASE UNCHANGED activeVars
    BY <2>1 DEF ActiveInv, activeVars
  <2>2. ASSUME NEW r \in Reads, Reports(r)
        PROVE  ActiveInv'
    BY <2>2 DEF ActiveInv, Reports, FirstPeer, TypeInv, TypeOK
  <2> QED
    BY <2>1, <2>2, ActiveFrame
<1>3. ActiveInv => ActiveOnce
  BY DEF ActiveInv, ActiveOnce
<1> QED
  BY <1>1, <1>2, <1>3, TypeCorrect, PTL DEF Spec

-----------------------------------------------------------------------------
(***************************************************************************)
(* The buffer.  Only a read that has not returned writes to its own.       *)
(***************************************************************************)
Single(r) == \E src \in Peers \cup {Origin} : \A n \in 1 .. BufLen : buf[r][n] = src
SourceInv == \A r \in Reads : res[r] = "ok" => pc[r] = "done" /\ Single(r)

(* A read whose locals do not change keeps its source. *)
LEMMA SourceFrame ==
  ASSUME SourceInv, NEW s \in Reads, pc'[s] = pc[s], res'[s] = res[s], buf'[s] = buf[s]
  PROVE  res'[s] = "ok" => pc'[s] = "done" /\ Single(s)'
<1>1. Single(s) => Single(s)'
  BY DEF Single
<1> QED
  BY Zenon, <1>1 DEF SourceInv

(* A step of one read leaves the locals of the others alone. *)
LEMMA SourceOthers ==
  ASSUME TypeInv, [Next]_vars, NEW r \in Reads,
         GoesToOrigin(r) \/ Resolves(r) \/ TimesOut(r) \/ Started(r),
         NEW s \in Reads, s # r
  PROVE  pc'[s] = pc[s] /\ res'[s] = res[s] /\ buf'[s] = buf[s]
<1>1. CASE GoesToOrigin(r) \/ Resolves(r) \/ TimesOut(r)
  BY <1>1 DEF GoesToOrigin, Resolves, TimesOut, Goto, TypeInv, TypeOK
<1>2. CASE SelectTimeout(r) \/ SelectPeer(r) \/ OriginEmpty(r)
  BY <1>2 DEF SelectTimeout, SelectPeer, OriginEmpty, Finish, Goto, TypeInv, TypeOK
<1>3. ASSUME NEW n \in 0 .. BufLen, PeerAnswers(r, n) \/ PeerBreaksOff(r, n)
      PROVE  pc'[s] = pc[s] /\ res'[s] = res[s] /\ buf'[s] = buf[s]
  BY <1>3 DEF PeerAnswers, PeerBreaksOff, ReadFull, Goto, TypeInv, TypeOK
<1>4. ASSUME NEW n \in 0 .. BufLen, OriginAnswers(r, n) \/ OriginBreaksOff(r, n)
      PROVE  pc'[s] = pc[s] /\ res'[s] = res[s] /\ buf'[s] = buf[s]
  BY <1>4 DEF OriginAnswers, OriginBreaksOff, ReadFull, Finish, Goto, TypeInv, TypeOK
<1> QED
  BY <1>1, <1>2, <1>3, <1>4 DEF Started

(* A full read puts one source in all of the buffer. *)
LEMMA FullReadIsSingle ==
  ASSUME TypeInv, NEW r \in Reads, NEW src \in Peers \cup {Origin}, NEW n \in 0 .. BufLen,
         IsFull(n), ReadFull(r, src, n)
  PROVE  Single(r)'
<1>1. \A b \in 1 .. BufLen : buf'[r][b] = src
  BY DEF IsFull, ReadFull, TypeInv, TypeOK
<1> QED
  BY <1>1 DEF Single

(* A read that has returned takes no further step, and one that succeeds has
   just read its whole buffer from one server. *)
LEMMA SourceSelf ==
  ASSUME TypeInv, SourceInv, NEW r \in Reads,
         GoesToOrigin(r) \/ Resolves(r) \/ TimesOut(r) \/ Started(r)
  PROVE  res'[r] = "ok" => pc'[r] = "done" /\ Single(r)'
<1>1. CASE GoesToOrigin(r) \/ Resolves(r) \/ SelectTimeout(r) \/ SelectPeer(r)
  <2>1. pc[r] # "done" /\ res' = res
    BY <1>1 DEF GoesToOrigin, Resolves, SelectTimeout, SelectPeer
  <2> QED
    BY <2>1 DEF SourceInv
<1>2. CASE TimesOut(r)
  BY <1>2, SourceFrame DEF TimesOut
<1>3. ASSUME NEW n \in 0 .. BufLen, PeerAnswers(r, n)
      PROVE  pc'[r] = "done" /\ Single(r)'
  <2>1. Last(tried[r]) \in Peers
    BY <1>3 DEF PeerAnswers, TypeInv, TypeOK, Last
  <2>2. Single(r)'
    BY <1>3, <2>1, FullReadIsSingle DEF PeerAnswers
  <2> QED
    BY <1>3, <2>2 DEF PeerAnswers, Goto, TypeInv, TypeOK
<1>4. ASSUME NEW n \in 0 .. BufLen, PeerBreaksOff(r, n)
      PROVE  res'[r] # "ok"
  BY <1>4 DEF PeerBreaksOff, SourceInv
<1>5. ASSUME NEW n \in 0 .. BufLen, OriginAnswers(r, n)
      PROVE  pc'[r] = "done" /\ Single(r)'
  <2>1. Single(r)'
    BY <1>5, FullReadIsSingle DEF OriginAnswers
  <2> QED
    BY <1>5, <2>1 DEF OriginAnswers, Finish, Goto, TypeInv, TypeOK
<1>6. ASSUME NEW n \in 0 .. BufLen, OriginBreaksOff(r, n)
      PROVE  res'[r] # "ok"
  BY <1>6 DEF OriginBreaksOff, Finish, TypeInv, TypeOK
<1>7. CASE OriginEmpty(r)
  BY <1>7 DEF OriginEmpty, Finish, TypeInv, TypeOK
<1> QED
  BY <1>1, <1>2, <1>3, <1>4, <1>5, <1>6, <1>7 DEF Started

(* Bytes that a failed peer left in the buffer of FetchFile are never part of
   a chunk that is returned: all of it comes from one server. *)
THEOREM SourceIsOne == Spec => []OneSource
<1>1. Init => SourceInv
  BY DEF Init, SourceInv
<1>2. TypeInv /\ SourceInv /\ [Next]_vars => SourceInv'
  <2> SUFFICES ASSUME TypeInv, SourceInv, [Next]_vars, NEW s \in Reads
               PROVE  res'[s] = "ok" => pc'[s] = "done" /\ Single(s)'
    BY DEF SourceInv
  <2>1. ASSUME NEW r \in Reads, GoesToOrigin(r) \/ Resolves(r) \/ TimesOut(r) \/ Started(r)
        PROVE  res'[s] = "ok" => pc'[s] = "done" /\ Single(s)'
    BY <2>1, SourceOthers, SourceSelf, SourceFrame
  <2>2. ASSUME NEW r \in Reads, Resolving(r)
        PROVE  UNCHANGED <<pc, res, buf>>
    BY <2>2 DEF Resolving, FindsPeer, SendsPeer, Reports, SearchEnds
  <2>3. NegLands \/ NegExpires \/ UNCHANGED vars => UNCHANGED <<pc, res, buf>>
    BY Zenon DEF NegLands, NegExpires, vars
  <2>4. CASE UNCHANGED <<pc, res, buf>>
    BY <2>4, SourceFrame
  <2> QED
    BY <2>1, <2>2, <2>3, <2>4 DEF Next, Quiet
<1>3. SourceInv => OneSource
  BY DEF SourceInv, OneSource, Single
<1> QED
  BY <1>1, <1>2, <1>3, TypeCorrect, PTL DEF Spec

-----------------------------------------------------------------------------
(***************************************************************************)
(* The peers of a read: those tried and those in the channel are different *)
(* providers that were found, and a peer about to be sent is one more.     *)
(***************************************************************************)
Queue(r) == tried[r] \o peersCh[r]
Sending(r) == IF resolver[r] = "send" THEN 1 ELSE 0

QueueInv(r) ==
  /\ IsFiniteSet(found[r]) /\ Cardinality(found[r]) <= Count
  /\ Len(Queue(r)) + Sending(r) <= Cardinality(found[r])
  /\ \A n \in 1 .. Len(Queue(r)) : Queue(r)[n] \in found[r]
  /\ \A m, n \in 1 .. Len(Queue(r)) : Queue(r)[m] = Queue(r)[n] => m = n
  /\ resolver[r] = "send" =>
       sending[r] \in found[r] /\ \A n \in 1 .. Len(Queue(r)) : Queue(r)[n] # sending[r]

(* Appending the head of a sequence and concatenating its tail concatenates
   the sequence. *)
LEMMA HeadMoves ==
  ASSUME NEW S, NEW t \in Seq(S), NEW c \in Seq(S), c # << >>
  PROVE  Append(t, Head(c)) \o Tail(c) = t \o c
<1>1. Head(c) \in S /\ Tail(c) \in Seq(S) /\ <<Head(c)>> \in Seq(S)
  OBVIOUS
<1>2. Append(t, Head(c)) = t \o <<Head(c)>>
  BY <1>1, AppendIsConcat
<1>3. <<Head(c)>> \o Tail(c) = c
  OBVIOUS
<1>4. (t \o <<Head(c)>>) \o Tail(c) = t \o (<<Head(c)>> \o Tail(c))
  BY <1>1, ConcatAssociative
<1> QED
  BY <1>2, <1>3, <1>4

(* Appending to the second of two sequences appends to their concatenation. *)
LEMMA AppendMoves ==
  ASSUME NEW S, NEW t \in Seq(S), NEW c \in Seq(S), NEW e \in S
  PROVE  t \o Append(c, e) = Append(t \o c, e)
<1>1. <<e>> \in Seq(S) /\ t \o c \in Seq(S)
  OBVIOUS
<1>2. Append(c, e) = c \o <<e>> /\ Append(t \o c, e) = (t \o c) \o <<e>>
  BY <1>1, AppendIsConcat
<1>3. (t \o c) \o <<e>> = t \o (c \o <<e>>)
  BY <1>1, ConcatAssociative
<1> QED
  BY <1>2, <1>3

(* What a step that neither finds, sends nor receives a peer keeps. *)
QueueKept(r) ==
  /\ tried'[r] = tried[r] /\ peersCh'[r] = peersCh[r]
  /\ found'[r] = found[r] /\ sending'[r] = sending[r]
  /\ resolver'[r] = "send" => resolver[r] = "send"

(* Only three steps change the peers of a read. *)
LEMMA QueueSteps ==
  ASSUME TypeInv, [Next]_vars, NEW s \in Reads
  PROVE  \/ QueueKept(s) \/ SelectPeer(s) \/ SendsPeer(s)
         \/ \E p \in scenario.providers : FindsPeer(s, p)
<1>1. ASSUME NEW r \in Reads, GoesToOrigin(r) \/ Resolves(r) \/ TimesOut(r)
      PROVE  QueueKept(s)
  BY <1>1 DEF GoesToOrigin, Resolves, TimesOut, resolveVars, QueueKept, TypeInv, TypeOK
<1>2. ASSUME NEW r \in Reads, Started(r)
      PROVE  QueueKept(s) \/ SelectPeer(s)
  <2>1. CASE SelectPeer(r)
    BY Zenon, <2>1 DEF SelectPeer, QueueKept, TypeInv, TypeOK
  <2>2. CASE ~SelectPeer(r)
    BY <1>2, <2>2 DEF Started, SelectTimeout, OriginEmpty, PeerAnswers, PeerBreaksOff,
                      OriginAnswers, OriginBreaksOff, Finish, resolveVars, QueueKept
  <2> QED
    BY <2>1, <2>2
<1>3. ASSUME NEW r \in Reads, NEW p \in scenario.providers, FindsPeer(r, p)
      PROVE  QueueKept(s) \/ FindsPeer(s, p)
  BY Zenon, <1>3 DEF FindsPeer, QueueKept, TypeInv, TypeOK
<1>4. ASSUME NEW r \in Reads, SendsPeer(r)
      PROVE  QueueKept(s) \/ SendsPeer(s)
  BY Zenon, <1>4 DEF SendsPeer, QueueKept, TypeInv, TypeOK
<1>5. ASSUME NEW r \in Reads, Reports(r) \/ SearchEnds(r)
      PROVE  QueueKept(s)
  BY <1>5 DEF Reports, SearchEnds, QueueKept, TypeInv, TypeOK
<1>6. NegLands \/ NegExpires \/ UNCHANGED vars => QueueKept(s)
  BY Zenon DEF NegLands, NegExpires, vars, resolveVars, QueueKept
<1> QED
  BY <1>1, <1>2, <1>3, <1>4, <1>5, <1>6 DEF Next, Resolving, Quiet

(* A step that leaves the peers of a read alone keeps the invariant. *)
LEMMA KeptQueue ==
  ASSUME TypeInv, NEW s \in Reads, QueueInv(s), QueueKept(s)
  PROVE  QueueInv(s)'
<1>1. Queue(s)' = Queue(s)
  BY DEF QueueKept, Queue
<1>2. Len(Queue(s)) \in Nat /\ (IsFiniteSet(found[s]) => Cardinality(found[s]) \in Nat)
  BY FS_CardinalityType DEF Queue, TypeInv, TypeOK
<1>3. Sending(s)' <= Sending(s) /\ Sending(s) \in Nat /\ Sending(s)' \in Nat
  BY DEF QueueKept, Sending
<1> QED
  BY <1>1, <1>2, <1>3 DEF QueueInv, QueueKept

(* SelectPeer moves a peer from the head of the channel to the end of those
   that were tried: the queue stays as it is. *)
LEMMA SelectKeepsQueue ==
  ASSUME TypeInv, NEW s \in Reads, QueueInv(s), SelectPeer(s)
  PROVE  QueueInv(s)'
<1>1. tried[s] \in Seq(Peers) /\ peersCh[s] \in Seq(Peers) /\ peersCh[s] # << >>
  BY DEF TypeInv, TypeOK, SelectPeer
<1>2. Append(tried[s], Head(peersCh[s])) \o Tail(peersCh[s]) = tried[s] \o peersCh[s]
  BY Zenon, <1>1, HeadMoves
<1>3. Queue(s)' = Queue(s)
  BY <1>2 DEF Queue, SelectPeer, TypeInv, TypeOK
<1>4. found' = found /\ sending' = sending /\ resolver' = resolver
  BY DEF SelectPeer
<1> QED
  BY <1>3, <1>4 DEF QueueInv, Sending

(* SendsPeer moves the peer that was being sent to the end of the queue. *)
LEMMA SendKeepsQueue ==
  ASSUME TypeInv, NEW s \in Reads, QueueInv(s), SendsPeer(s)
  PROVE  QueueInv(s)'
<1>1. tried[s] \in Seq(Peers) /\ peersCh[s] \in Seq(Peers) /\ sending[s] \in Peers
  BY DEF TypeInv, TypeOK, SendsPeer
<1>2. tried[s] \o Append(peersCh[s], sending[s]) = Append(tried[s] \o peersCh[s], sending[s])
  <2>1. \A t, c \in Seq(Peers) : \A e \in Peers : t \o Append(c, e) = Append(t \o c, e)
    BY AppendMoves
  <2> QED
    BY <1>1, <2>1, Zenon
<1>3. Queue(s)' = Append(Queue(s), sending[s]) /\ Queue(s) \in Seq(Peers)
  BY <1>1, <1>2 DEF Queue, SendsPeer, TypeInv, TypeOK
<1>4. /\ Len(Queue(s)') = Len(Queue(s)) + 1 /\ Len(Queue(s)) \in Nat
      /\ Queue(s)'[Len(Queue(s)) + 1] = sending[s]
      /\ \A n \in 1 .. Len(Queue(s)) : Queue(s)'[n] = Queue(s)[n]
  BY <1>1, <1>3
<1>5. /\ found' = found /\ sending' = sending
      /\ Sending(s) = 1 /\ Sending(s)' = 0 /\ resolver[s] = "send" /\ resolver'[s] # "send"
  BY DEF SendsPeer, Sending, TypeInv, TypeOK
<1>6. Len(Queue(s)') + Sending(s)' = Len(Queue(s)) + Sending(s)
  BY <1>4, <1>5
<1>7. \A n \in 1 .. Len(Queue(s)') : n \in 1 .. Len(Queue(s)) \/ n = Len(Queue(s)) + 1
  BY <1>4
<1> QED
  BY <1>4, <1>5, <1>6, <1>7 DEF QueueInv

(* FindsPeer adds a provider, and sends it when it is an acceptable peer. *)
LEMMA FindKeepsQueue ==
  ASSUME TypeInv, NEW s \in Reads, QueueInv(s), NEW p \in scenario.providers, FindsPeer(s, p)
  PROVE  QueueInv(s)'
<1>1. /\ found'[s] = found[s] \cup {p} /\ p \notin found[s] /\ Cardinality(found[s]) < Count
      /\ resolver[s] = "run" /\ (resolver'[s] = "send" => sending'[s] = p)
  BY DEF FindsPeer, TypeInv, TypeOK
<1>2. /\ IsFiniteSet(found'[s]) /\ Cardinality(found'[s]) = Cardinality(found[s]) + 1
      /\ Cardinality(found[s]) \in Nat
  BY <1>1, FS_AddElement, FS_CardinalityType DEF QueueInv
<1>3. Queue(s)' = Queue(s) /\ Len(Queue(s)) \in Nat
  BY DEF Queue, FindsPeer, TypeInv, TypeOK
<1>4. Sending(s) = 0 /\ Sending(s)' \in 0 .. 1
  BY <1>1 DEF Sending
<1> QED
  BY <1>1, <1>2, <1>3, <1>4, ReaderAssumption DEF QueueInv

(* The queue bounds its two parts, and its first part has no repetitions. *)
LEMMA QueueBounds ==
  ASSUME TypeInv, NEW r \in Reads, QueueInv(r)
  PROVE  /\ Len(tried[r]) + Len(peersCh[r]) <= Count
         /\ Sending(r) = 1 => Len(peersCh[r]) < Count
         /\ \A m, n \in 1 .. Len(tried[r]) : tried[r][m] = tried[r][n] => m = n
<1>1. SUFFICES ASSUME NEW t \in Seq(Peers), t = tried[r], NEW c \in Seq(Peers), c = peersCh[r],
                      NEW d \in Nat, d = Sending(r), NEW k \in Nat, k = Cardinality(found[r])
               PROVE  /\ Len(t) + Len(c) <= Count
                      /\ d = 1 => Len(c) < Count
                      /\ \A m, n \in 1 .. Len(t) : t[m] = t[n] => m = n
  <2>1. tried[r] \in Seq(Peers) /\ peersCh[r] \in Seq(Peers)
    BY DEF TypeInv, TypeOK
  <2>2. Sending(r) \in Nat
    BY DEF Sending
  <2>3. Cardinality(found[r]) \in Nat
    BY FS_CardinalityType DEF QueueInv
  <2> QED
    BY Zenon, <2>1, <2>2, <2>3
<1>2. /\ Len(t \o c) + d <= k /\ k <= Count
      /\ \A m, n \in 1 .. Len(t \o c) : (t \o c)[m] = (t \o c)[n] => m = n
  BY Zenon, <1>1 DEF QueueInv, Queue
<1>3. /\ Len(t \o c) = Len(t) + Len(c) /\ Len(t) \in Nat /\ Len(c) \in Nat
      /\ \A n \in 1 .. Len(t) : n \in 1 .. Len(t \o c) /\ (t \o c)[n] = t[n]
  OBVIOUS
<1>4. Count \in Nat
  BY ReaderAssumption
<1>5. Len(t) + Len(c) <= Count /\ (d = 1 => Len(c) < Count)
  BY <1>2, <1>3, <1>4
<1>6. \A m, n \in 1 .. Len(t) : t[m] = t[n] => m = n
  BY <1>2, <1>3
<1> QED
  BY <1>5, <1>6

(* The invariant of the queues holds for every read. *)
THEOREM QueuesHold == Spec => [](\A r \in Reads : QueueInv(r))
<1>1. ASSUME Init, NEW r \in Reads PROVE QueueInv(r)
  <2>1. found[r] = {} /\ tried[r] = << >> /\ peersCh[r] = << >> /\ resolver[r] = "none"
    BY <1>1 DEF Init
  <2>2. IsFiniteSet(found[r]) /\ Cardinality(found[r]) = 0
    BY <2>1, FS_EmptySet
  <2>3. Len(Queue(r)) = 0 /\ Sending(r) = 0
    BY <2>1 DEF Queue, Sending
  <2> QED
    BY <2>1, <2>2, <2>3, ReaderAssumption DEF QueueInv
<1>2. ASSUME TypeInv, [Next]_vars, NEW r \in Reads, QueueInv(r)
      PROVE  QueueInv(r)'
  BY <1>2, QueueSteps, KeptQueue, SelectKeepsQueue, SendKeepsQueue, FindKeepsQueue
<1>3. TypeInv /\ (\A r \in Reads : QueueInv(r)) /\ [Next]_vars => (\A r \in Reads : QueueInv(r))'
  BY <1>2
<1>4. Init => \A r \in Reads : QueueInv(r)
  BY <1>1
<1> QED
  BY <1>3, <1>4, TypeCorrect, PTL DEF Spec

(* The goroutine of Resolve is never left behind on a full peersCh, however
   early doP2p stops receiving. *)
THEOREM SenderIsNeverBlocked == Spec => []SenderNeverBlocks
<1>1. ASSUME TypeInv, NEW r \in Reads, QueueInv(r), resolver[r] = "send"
      PROVE  Len(peersCh[r]) < ChanCap
  BY Zenon, <1>1, QueueBounds DEF Sending, ChanCap
<1>2. TypeInv /\ (\A r \in Reads : QueueInv(r)) => SenderNeverBlocks
  BY <1>1 DEF SenderNeverBlocks
<1> QED
  BY <1>2, TypeCorrect, QueuesHold, PTL

-----------------------------------------------------------------------------
(***************************************************************************)
(* Requests of peers never get as far as the channel.                      *)
(***************************************************************************)
FromPeerInv ==
  \A r \in Reads : r \in scenario.fromPeer =>
    tried[r] = << >> /\ pc[r] \in {"start", "origin", "done"}

(* A read for a peer goes straight to the origin. *)
THEOREM PeersAskNobody == Spec => []FromPeerInv
<1>1. Init => FromPeerInv
  BY DEF Init, FromPeerInv
<1>2. TypeInv /\ FromPeerInv /\ [Next]_vars => FromPeerInv'
  <2> SUFFICES ASSUME TypeInv, FromPeerInv, [Next]_vars
               PROVE  FromPeerInv'
    OBVIOUS
  <2>1. ASSUME NEW r \in Reads, GoesToOrigin(r) \/ Resolves(r) \/ TimesOut(r)
        PROVE  FromPeerInv'
    BY <2>1 DEF GoesToOrigin, Resolves, TimesOut, SkipsP2P, Goto, FromPeerInv, TypeInv, TypeOK
  <2>2. ASSUME NEW r \in Reads, SelectTimeout(r) \/ SelectPeer(r) \/ OriginEmpty(r)
        PROVE  FromPeerInv'
    BY Zenon, <2>2 DEF SelectTimeout, SelectPeer, OriginEmpty, Finish, Goto, FromPeerInv, TypeInv, TypeOK
  <2>3. ASSUME NEW r \in Reads, NEW n \in 0 .. BufLen,
               \/ PeerAnswers(r, n) \/ PeerBreaksOff(r, n)
               \/ OriginAnswers(r, n) \/ OriginBreaksOff(r, n)
        PROVE  FromPeerInv'
    BY Zenon, <2>3 DEF PeerAnswers, PeerBreaksOff, OriginAnswers, OriginBreaksOff, Finish, Goto,
                FromPeerInv, TypeInv, TypeOK
  <2>4. ASSUME NEW r \in Reads, Resolving(r)
        PROVE  UNCHANGED <<scenario, pc, tried>>
    BY <2>4 DEF Resolving, FindsPeer, SendsPeer, Reports, SearchEnds
  <2>5. NegLands \/ NegExpires \/ UNCHANGED vars => UNCHANGED <<scenario, pc, tried>>
    BY Zenon DEF NegLands, NegExpires, vars
  <2>6. CASE UNCHANGED <<scenario, pc, tried>>
    BY <2>6 DEF FromPeerInv
  <2> QED
    BY <2>1, <2>2, <2>3, <2>4, <2>5, <2>6 DEF Next, Started, Quiet
<1> QED
  BY <1>1, <1>2, TypeCorrect, PTL DEF Spec

(* One read asks no peer twice and at most ResolveRetries of them, and a read
   that serves a peer asks none. *)
THEOREM EachPeerAskedOnce == Spec => []AsksEachPeerOnce
<1>1. ASSUME TypeInv, NEW r \in Reads, QueueInv(r)
      PROVE  /\ \A m, n \in 1 .. Len(tried[r]) : tried[r][m] = tried[r][n] => m = n
             /\ Len(tried[r]) + Len(peersCh[r]) <= Count
  BY Zenon, <1>1, QueueBounds
<1>2. TypeInv /\ (\A r \in Reads : QueueInv(r)) /\ FromPeerInv => AsksEachPeerOnce
  BY Zenon, <1>1 DEF AsksEachPeerOnce, FromPeerInv
<1> QED
  BY <1>2, TypeCorrect, QueuesHold, PeersAskNobody, PTL
=============================================================================
