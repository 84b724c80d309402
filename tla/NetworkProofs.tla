---------------------------- MODULE NetworkProofs -----------------------------
(***************************************************************************)
(* The safety properties of the parts of MCNetwork, each an invariant of   *)
(* its own part for all values of the constants.                           *)
(***************************************************************************)
EXTENDS MCNetwork, FiniteSetTheorems, SequenceTheorems, TLAPS

-----------------------------------------------------------------------------
(* Exchanges: the reads of a stream wait for what was asked, in order.     *)

ExchangeType ==
  /\ asked \in Nat /\ waiting \in Nat
  /\ sent \in Seq(Nat) /\ answers \in Seq(Nat) /\ reads \in Seq(Nat)

\* The requests that were read for are those whose answers are on their way, and after them
\* those that were not answered yet.
InOrder == reads = answers \o sent

ExchangeInv == ExchangeType /\ InOrder /\ AnswerIsOwn

\* A sequence is its head before its tail, and the other way round.
LEMMA HeadFirst ==
  ASSUME NEW s \in Seq(Nat), s # <<>>
  PROVE  /\ Head(s) \in Nat /\ Tail(s) \in Seq(Nat)
         /\ s = <<Head(s)>> \o Tail(s)
<1>1. /\ Head(s) \in Nat /\ Tail(s) \in Seq(Nat) /\ Len(s) \in Nat \ {0} /\ Len(Tail(s)) = Len(s) - 1
      /\ \A i \in 1..Len(Tail(s)) : Tail(s)[i] = s[i + 1]
  BY HeadTailProperties, EmptySeq
<1> DEFINE h == <<Head(s)>>
           t == Tail(s)
<1>2. h \in Seq(Nat) /\ Len(h) = 1 /\ h[1] = Head(s)
  BY <1>1
<1>3. /\ h \o t \in Seq(Nat) /\ Len(h \o t) = Len(h) + Len(t)
      /\ \A i \in 1..Len(h) + Len(t) : (h \o t)[i] = IF i <= Len(h) THEN h[i] ELSE t[i - Len(h)]
  BY <1>1, <1>2, ConcatProperties
<1>4. Head(s) = s[1]
  OBVIOUS
<1> HIDE DEF h, t
<1>5. \A i \in 1..Len(s) : s[i] = (h \o t)[i]
  BY <1>1, <1>2, <1>3, <1>4 DEF t
<1>6. s = h \o t
  BY <1>1, <1>2, <1>3, <1>5, SeqEqual DEF t
<1> QED BY <1>1, <1>6 DEF h, t

LEMMA FirstOut ==
  ASSUME NEW x \in Nat, NEW t \in Seq(Nat)
  PROVE  Head(<<x>> \o t) = x /\ Tail(<<x>> \o t) = t
<1> DEFINE h == <<x>>
           s == h \o t
<1>1. h \in Seq(Nat) /\ Len(h) = 1 /\ h[1] = x
  OBVIOUS
<1>2. /\ s \in Seq(Nat) /\ Len(s) = 1 + Len(t)
      /\ \A i \in 1..1 + Len(t) : s[i] = IF i <= 1 THEN h[i] ELSE t[i - 1]
  BY <1>1, ConcatProperties
<1>3. Len(t) \in Nat
  OBVIOUS
<1> HIDE DEF h, s
<1>4. s # <<>>
  BY <1>2, <1>3
<1>5. /\ Tail(s) \in Seq(Nat) /\ Len(Tail(s)) = Len(s) - 1
      /\ \A i \in 1..Len(Tail(s)) : Tail(s)[i] = s[i + 1]
  BY <1>2, <1>4, HeadTailProperties
<1>6. ASSUME NEW i \in 1..Len(t) PROVE Tail(s)[i] = t[i]
  <2>1. i + 1 \in 1..1 + Len(t) /\ ~(i + 1 <= 1) /\ (i + 1) - 1 = i
    BY <1>3
  <2>2. s[i + 1] = t[i]
    BY <1>2, <2>1
  <2>3. i \in 1..Len(Tail(s))
    BY <1>2, <1>3, <1>5
  <2> QED BY <1>5, <2>2, <2>3
<1>7. Tail(s) = t
  BY <1>2, <1>3, <1>5, <1>6, SeqEqual
<1>8. Head(s) = x
  BY <1>1, <1>2, <1>3, <1>4
<1> QED BY <1>7, <1>8 DEF h, s

\* Appending to the second of two sequences, taking the first element from it to the first, and
\* taking the head of both.
LEMMA OrderKept ==
  ASSUME NEW a \in Seq(Nat), NEW s \in Seq(Nat)
  PROVE  /\ \A n \in Nat : Append(a \o s, n) = a \o Append(s, n)
         /\ s # <<>> => Append(a, Head(s)) \o Tail(s) = a \o s
         /\ a # <<>> => Head(a \o s) = Head(a) /\ Tail(a \o s) = Tail(a) \o s
<1>1. ASSUME NEW n \in Nat PROVE Append(a \o s, n) = a \o Append(s, n)
  <2>1. a \o s \in Seq(Nat) /\ <<n>> \in Seq(Nat)
    BY ConcatProperties
  <2>2. Append(a \o s, n) = (a \o s) \o <<n>> /\ Append(s, n) = s \o <<n>>
    BY <2>1, AppendIsConcat
  <2> QED BY <2>1, <2>2, ConcatAssociative
<1>2. ASSUME s # <<>> PROVE Append(a, Head(s)) \o Tail(s) = a \o s
  <2>1. Head(s) \in Nat /\ Tail(s) \in Seq(Nat) /\ s = <<Head(s)>> \o Tail(s) /\ <<Head(s)>> \in Seq(Nat)
    BY <1>2, HeadFirst
  <2>2. Append(a, Head(s)) = a \o <<Head(s)>>
    BY <2>1, AppendIsConcat
  <2> DEFINE h == <<Head(s)>>
             t == Tail(s)
  <2> HIDE DEF h, t
  <2>3. (a \o h) \o t = a \o (h \o t)
    <3>1. h \in Seq(Nat) /\ t \in Seq(Nat)
      BY <2>1 DEF h, t
    <3> QED BY <3>1, ConcatAssociative, SMTT(30)
  <2> QED BY <2>1, <2>2, <2>3 DEF h, t
<1>3. ASSUME a # <<>> PROVE Head(a \o s) = Head(a) /\ Tail(a \o s) = Tail(a) \o s
  <2>1. Head(a) \in Nat /\ Tail(a) \in Seq(Nat) /\ a = <<Head(a)>> \o Tail(a) /\ <<Head(a)>> \in Seq(Nat)
    BY <1>3, HeadFirst
  <2>2. a \o s = <<Head(a)>> \o (Tail(a) \o s)
    BY <2>1, ConcatAssociative
  <2>3. Tail(a) \o s \in Seq(Nat)
    BY <2>1, ConcatProperties
  <2> QED BY <2>1, <2>2, <2>3, FirstOut
<1> QED BY <1>1, <1>2, <1>3

\* Nobody is given the answer to an earlier question (lish-protocol.ts, LISHClient).
LEMMA ExchangeHolds == ExchangeSpec => []ExchangeInv
<1>1. ExchangeInit => ExchangeInv
  BY DEF ExchangeInit, ExchangeInv, ExchangeType, InOrder, AnswerIsOwn
<1>2. ExchangeInv /\ [ExchangeNext]_exchangeVars => ExchangeInv'
  <2> SUFFICES ASSUME ExchangeInv, [ExchangeNext]_exchangeVars PROVE ExchangeInv'
    OBVIOUS
  <2> USE DEF ExchangeInv, ExchangeType, InOrder, AnswerIsOwn
  <2>1. CASE Ask
    <3>1. /\ asked' = asked + 1 /\ waiting' = asked + 1 /\ UNCHANGED <<answers, got>>
          /\ sent' = Append(sent, asked + 1) /\ reads' = Append(reads, asked + 1)
      BY <2>1 DEF Ask
    <3>2. Append(answers \o sent, asked + 1) = answers \o Append(sent, asked + 1)
      BY OrderKept
    <3>3. Append(sent, asked + 1) \in Seq(Nat) /\ Append(reads, asked + 1) \in Seq(Nat)
      BY AppendProperties
    <3>4. InOrder'
      BY <3>1, <3>2
    <3>5. ExchangeType'
      BY <3>1, <3>3
    <3>6. AnswerIsOwn'
      BY <3>1
    <3> QED BY <3>4, <3>5, <3>6
  <2>2. CASE AnswerNext
    <3>1. /\ sent # <<>> /\ sent' = Tail(sent) /\ answers' = Append(answers, Head(sent))
          /\ UNCHANGED <<asked, reads, waiting, got>>
      BY <2>2 DEF AnswerNext
    <3>2. Append(answers, Head(sent)) \o Tail(sent) = answers \o sent
      BY <3>1, OrderKept
    <3>3. Head(sent) \in Nat /\ Tail(sent) \in Seq(Nat)
      BY <3>1, HeadFirst
    <3>4. Append(answers, Head(sent)) \in Seq(Nat)
      BY <3>3, AppendProperties
    <3>5. InOrder'
      BY <3>1, <3>2
    <3>6. ExchangeType'
      BY <3>1, <3>3, <3>4
    <3> QED BY <3>1, <3>5, <3>6
  <2>3. CASE Receive
    <3>1. /\ answers # <<>> /\ answers' = Tail(answers) /\ reads' = Tail(reads)
          /\ waiting' \in {0, waiting} /\ got' \in {got, <<Head(reads), Head(answers)>>}
          /\ UNCHANGED <<asked, sent>>
      BY <2>3 DEF Receive
    <3>2. Head(reads) = Head(answers) /\ Tail(reads) = Tail(answers) \o sent
      BY <3>1, OrderKept
    <3>3. Head(answers) \in Nat /\ Tail(answers) \in Seq(Nat) /\ Tail(answers) \o sent \in Seq(Nat)
      BY <3>1, HeadFirst, ConcatProperties
    <3>4. InOrder'
      BY <3>1, <3>2
    <3>5. ExchangeType'
      BY <3>1, <3>2, <3>3
    <3>6. AnswerIsOwn'
      BY <3>1, <3>2, <3>3
    <3> QED BY <3>4, <3>5, <3>6
  <2>4. CASE AskTimesOut
    BY <2>4 DEF AskTimesOut
  <2>5. CASE LinkEnds
    BY <2>5 DEF LinkEnds
  <2>6. CASE UNCHANGED exchangeVars
    BY <2>6 DEF exchangeVars
  <2> QED BY <2>1, <2>2, <2>3, <2>4, <2>5, <2>6 DEF ExchangeNext
<1> QED BY <1>1, <1>2, PTL DEF ExchangeSpec

-----------------------------------------------------------------------------
(* Searches: who was queried is never in the line again.                   *)

SearchType == dialed \in [Responders -> Nat] /\ replied \in [Responders -> Nat]

\* A peer that was not brought up yet was not dialed, nor one that waits in the line, where
\* only peers are that were brought up.
DialedFromLine ==
  /\ line \subseteq queried
  /\ \A p \in Responders : p \notin queried \/ p \in line => dialed[p] = 0
\* A peer answers what it has not seen.
RepliedIfSeen == \A p \in Responders : p \notin seen => replied[p] = 0

SearchInv == SearchType /\ DialedFromLine /\ RepliedIfSeen /\ AskedOnce

\* A peer is asked once and answers once (search.ts, lish-handlers.ts).
LEMMA SearchHolds == SearchSpec => []SearchInv
<1>1. SearchInit => SearchInv
  BY DEF SearchInit, SearchInv, SearchType, DialedFromLine, RepliedIfSeen, AskedOnce, None
<1>2. SearchInv /\ [SearchNext]_searchVars => SearchInv'
  <2> SUFFICES ASSUME SearchInv, [SearchNext]_searchVars PROVE SearchInv'
    OBVIOUS
  <2> USE DEF SearchInv, SearchType, DialedFromLine, RepliedIfSeen, AskedOnce, Add, wire, unicast
  <2>1. CASE StartSearch
    BY <2>1 DEF StartSearch
  <2>2. CASE AskConnected
    BY <2>2 DEF AskConnected
  <2>3. CASE WorkerTakes
    BY <2>3 DEF WorkerTakes
  <2>4. CASE EndSearch
    BY <2>4 DEF EndSearch
  <2>5. ASSUME NEW t \in Topics, Broadcast(t) PROVE SearchInv'
    BY <2>5 DEF Broadcast
  <2>6. ASSUME NEW p \in Responders, DialAnswered(p) PROVE SearchInv'
    BY <2>6 DEF DialAnswered
  <2>7. ASSUME NEW p \in Responders, Heard(p) PROVE SearchInv'
    BY <2>7 DEF Heard
  <2>8. ASSUME NEW p \in Responders, ReplyArrives(p) PROVE SearchInv'
    BY <2>8 DEF ReplyArrives
  <2>9. ASSUME NEW p \in Responders, PeerConnects(p) PROVE SearchInv'
    BY <2>9 DEF PeerConnects
  <2>10. ASSUME NEW p \in Responders, PeerGoes(p) PROVE SearchInv'
    BY <2>10 DEF PeerGoes
  <2>11. ASSUME NEW p \in Responders, Repeats(p) PROVE SearchInv'
    BY <2>11 DEF Repeats
  <2>12. CASE UNCHANGED searchVars
    BY <2>12 DEF searchVars
  <2> QED BY <2>1, <2>2, <2>3, <2>4, <2>5, <2>6, <2>7, <2>8, <2>9, <2>10, <2>11, <2>12 DEF SearchNext
<1> QED BY <1>1, <1>2, PTL DEF SearchSpec

\* An answer belongs to its question, on a stream and in a search.
THEOREM AnswersHold == ExchangeSpec /\ SearchSpec => []AnswersBelong
<1>1. ExchangeInv /\ SearchInv => AnswersBelong
  BY DEF ExchangeInv, SearchInv, AnswersBelong
<1> QED BY <1>1, ExchangeHolds, SearchHolds, PTL

-----------------------------------------------------------------------------
(* Announcements: the chain of the current start.                          *)

AnnounceType ==
  /\ gen \in 0..MaxStarts /\ stopped \in BOOLEAN
  /\ chain \in [Starts -> {"none", "reading", "waiting", "emitting", "sending"}]

\* A node that runs has its chain; a timer is that of the current start, and is remembered.
ChainGoesOn == gen = 0 \/ stopped \/ chain[gen] # "none"
TimerIsKnown == \A g \in Starts : chain[g] = "waiting" => g = gen /\ ~stopped /\ timer = g

AnnounceInv == AnnounceType /\ ChainGoesOn /\ TimerIsKnown

\* A node that runs has one chain of announcements (peer-announce.ts).
LEMMA AnnounceHolds == AnnounceSpec => []AnnounceInv
<1>1. AnnounceInit => AnnounceInv
  <2> SUFFICES ASSUME AnnounceInit PROVE AnnounceInv
    OBVIOUS
  <2>1. gen = 0 /\ chain = [g \in Starts |-> "none"]
    BY DEF AnnounceInit
  <2>2. stopped \in BOOLEAN
    BY DEF AnnounceInit
  <2>3. AnnounceType /\ ChainGoesOn
    BY <2>1, <2>2, AnnounceAssumption DEF AnnounceType, ChainGoesOn
  <2>4. TimerIsKnown
    BY <2>1 DEF TimerIsKnown
  <2> QED BY <2>3, <2>4 DEF AnnounceInv
<1>2. AnnounceInv /\ [AnnounceNext]_announceVars => AnnounceInv'
  <2> SUFFICES ASSUME AnnounceInv, [AnnounceNext]_announceVars PROVE AnnounceInv'
    OBVIOUS
  <2> USE AnnounceAssumption DEF AnnounceInv, AnnounceType, ChainGoesOn, TimerIsKnown, Starts, Superseded, Chain
  <2>1. CASE Start
    <3>1. gen < MaxStarts /\ gen' = gen + 1 /\ chain' = [chain EXCEPT ![gen + 1] = "reading"] /\ UNCHANGED timer
      BY <2>1 DEF Start
    <3>2. stopped' \in BOOLEAN
      BY <2>1 DEF Start
    <3>3. gen = 0 \/ stopped
      BY <2>1 DEF Start
    <3>4. gen + 1 \in Starts
      BY <3>1
    <3>5. AnnounceType'
      BY <3>1, <3>2, <3>4
    <3>6. chain'[gen'] # "none"
      BY <3>1, <3>4
    <3>7. ASSUME NEW g \in Starts PROVE chain[g] # "waiting"
      BY <3>3
    <3>8. TimerIsKnown'
      BY <3>1, <3>4, <3>7
    <3> QED BY <3>5, <3>6, <3>8
  <2>2. CASE Stop
    BY <2>2 DEF Stop
  <2>3. ASSUME NEW g \in Starts, SchedulesNext(g) PROVE AnnounceInv'
    BY <2>3 DEF SchedulesNext
  <2>4. ASSUME NEW g \in Starts, Fires(g) PROVE AnnounceInv'
    BY <2>4 DEF Fires
  <2>5. ASSUME NEW g \in Starts, Emits(g) PROVE AnnounceInv'
    BY <2>5 DEF Emits
  <2>6. ASSUME NEW g \in Starts, SendReturns(g) PROVE AnnounceInv'
    BY <2>6 DEF SendReturns
  <2>7. CASE UNCHANGED <<gen, stopped, chain, timer>>
    BY <2>7
  <2>8. ASSUME NEW n \in Nets, JoinsNet(n) \/ LeavesNet(n) PROVE AnnounceInv'
    BY <2>7, <2>8 DEF JoinsNet, LeavesNet
  <2>9. ASSUME NEW n \in Nets, NEW p \in Sources, NoteMember(n, p) PROVE AnnounceInv'
    BY <2>7, <2>9 DEF NoteMember
  <2>10. ASSUME NEW m \in recent, Expires(m) PROVE AnnounceInv'
    BY <2>7, <2>10 DEF Expires
  <2>11. ASSUME NEW source \in Sources, NEW raw \in 1..MaxRaw, NEW refill \in 0..1, Handle(source, raw, refill)
         PROVE  AnnounceInv'
    BY <2>7, <2>11 DEF Handle
  <2>12. CASE UNCHANGED announceVars
    BY <2>7, <2>12 DEF announceVars
  <2> QED BY <2>1, <2>2, <2>3, <2>4, <2>5, <2>6, <2>8, <2>9, <2>10, <2>11, <2>12 DEF AnnounceNext
<1> QED BY <1>1, <1>2, PTL DEF AnnounceSpec

-----------------------------------------------------------------------------
(* Upkeep of a peer: a purge that finds the peer back puts it back, and a  *)
(* tick of a run keeps the next one out.                                   *)

JobAt == {"idle", "reading", "redialing", "closing", "deleting", "restoring", "recovery", "recovering",
          "promotion", "probing", "promoting", "ending", "dialing", "hangingUp", "untagging"}
JobType == [at : JobAt, epoch : Nat, seen : BOOLEAN]
NodeType == [epoch : Nat, running : BOOLEAN, ticking : BOOLEAN, joined : BOOLEAN]
PeerType == [link : {"none", "wanted", "unwanted"}, stored : BOOLEAN, fails : Nat,
             quarantine : {"no", "young", "old"}, left : BOOLEAN,
             shares : BOOLEAN, configured : BOOLEAN, known : BOOLEAN, boot : BOOLEAN]

\* A peer that was left has no connection that is wanted.
Sound(p) == p \in PeerType /\ (p.left => p.link # "wanted")
\* Nothing but a purge takes a peer with a wanted connection from the store.
Keeps(p, q) == q.link = "wanted" => q.stored \/ (p.link = "wanted" /\ p.stored = q.stored)

Fine(p, q) == Sound(q) /\ Keeps(p, q)

UpkeepType == Sound(peer) /\ node \in NodeType /\ job \in [Jobs -> JobType]
Holds(j) == job[j].at # "idle" /\ Current(j)
TicksHold == \A j \in Ticks : Holds(j) => node.ticking
NoJobAhead == \A j \in Jobs : job[j].epoch <= node.epoch
\* What a purge took from the store although it is wanted is being put back by the current run.
Restored(j) == job[j].at = "restoring" /\ Current(j)
PutBack == peer.link = "wanted" => peer.stored \/ \E j \in Jobs : Restored(j)

UpkeepInv == UpkeepType /\ TicksHold /\ NoJobAhead /\ OneTick /\ PutBack

\* The three kinds of steps that are no purge, tick or stop: a job goes on, a job that is no tick
\* starts, or no job moves.
GoesOn == \E j \in Jobs, at \in JobAt :
  /\ job[j].at # "idle" /\ (Restored(j) => peer'.stored) /\ Goes(j, at)
  /\ UNCHANGED node /\ Fine(peer, peer')
StartsOne == \E j \in Jobs \ Ticks, at \in JobAt \ {"idle"} :
  /\ Starting(j, at) /\ node' \in NodeType /\ node'.epoch = node.epoch /\ node'.ticking = node.ticking
  /\ Fine(peer, peer')
Stays == 
  /\ UNCHANGED job /\ node' \in NodeType /\ node'.epoch = node.epoch /\ node'.ticking = node.ticking
  /\ Fine(peer, peer')

LEMMA GoesOnKeeps == UpkeepInv /\ GoesOn => UpkeepInv'
<1> SUFFICES ASSUME UpkeepInv, NEW j \in Jobs, NEW at \in JobAt,
                    job[j].at # "idle", Restored(j) => peer'.stored, Goes(j, at),
                    UNCHANGED node, Sound(peer'), Keeps(peer, peer')
             PROVE  UpkeepInv'
  BY DEF GoesOn, Fine
<1>1. job' = [job EXCEPT ![j].at = at] /\ job \in [Jobs -> JobType]
  BY DEF Goes, UpkeepInv, UpkeepType
<1>2. job' \in [Jobs -> JobType]
  BY <1>1 DEF JobType
<1>3. \A k \in Jobs : job'[k].epoch = job[k].epoch /\ (k # j => job'[k].at = job[k].at)
  BY <1>1 DEF JobType
<1>4. UpkeepType'
  BY <1>2 DEF UpkeepInv, UpkeepType
<1>5. \A k \in Jobs : Holds(k)' => Holds(k)
  BY <1>3 DEF Holds, Current
<1>6. TicksHold' /\ OneTick'
  BY <1>5 DEF UpkeepInv, TicksHold, OneTick, Holds, Ticks, Jobs
<1>7. NoJobAhead'
  BY <1>3 DEF UpkeepInv, NoJobAhead
<1>8. \A k \in Jobs : Restored(k) => Restored(k)' \/ peer'.stored
  BY <1>3 DEF Restored, Current
<1>9. PutBack'
  BY <1>8 DEF UpkeepInv, PutBack, Keeps
<1> QED BY <1>4, <1>6, <1>7, <1>9 DEF UpkeepInv

LEMMA StartsKeeps == UpkeepInv /\ StartsOne => UpkeepInv'
<1> SUFFICES ASSUME UpkeepInv, NEW j \in Jobs \ Ticks, NEW at \in JobAt \ {"idle"}, Starting(j, at),
                    node' \in NodeType, node'.epoch = node.epoch, node'.ticking = node.ticking,
                    Sound(peer'), Keeps(peer, peer')
             PROVE  UpkeepInv'
  BY DEF StartsOne, Fine
<1>1. /\ job' = [job EXCEPT ![j] = [at |-> at, epoch |-> node.epoch, seen |-> peer.link # "none"]]
      /\ job[j].at = "idle" /\ job \in [Jobs -> JobType] /\ node \in NodeType
  BY DEF Starting, Awaits, UpkeepInv, UpkeepType
<1>2. (peer.link # "none") \in BOOLEAN /\ node.epoch \in Nat
  BY <1>1 DEF NodeType
<1>3. [at |-> at, epoch |-> node.epoch, seen |-> peer.link # "none"] \in JobType
  BY <1>2 DEF JobType
<1>4. job' \in [Jobs -> JobType]
  BY <1>1, <1>3
<1>5. \A k \in Jobs : IF k = j THEN job'[k].epoch = node.epoch ELSE job'[k] = job[k]
  BY <1>1
<1>6. UpkeepType'
  BY <1>4 DEF UpkeepInv, UpkeepType
<1>7. \A k \in Ticks : job'[k] = job[k]
  BY <1>5 DEF Ticks, Jobs
<1>8. TicksHold' /\ OneTick'
  BY <1>7 DEF UpkeepInv, TicksHold, OneTick, Holds, Current
<1>9. NoJobAhead'
  BY <1>2, <1>5 DEF UpkeepInv, NoJobAhead
<1>10. \A k \in Jobs : Restored(k) => Restored(k)'
  BY <1>1, <1>5 DEF Restored, Current
<1>11. PutBack'
  BY <1>10 DEF UpkeepInv, PutBack, Keeps
<1> QED BY <1>6, <1>8, <1>9, <1>11 DEF UpkeepInv

LEMMA StaysKeeps == UpkeepInv /\ Stays => UpkeepInv'
<1> SUFFICES ASSUME UpkeepInv, Stays PROVE UpkeepInv'
  OBVIOUS
<1>1. UpkeepType'
  BY DEF UpkeepInv, UpkeepType, Stays, Fine
<1>2. TicksHold' /\ OneTick' /\ NoJobAhead'
  BY DEF UpkeepInv, TicksHold, OneTick, NoJobAhead, Holds, Current, Stays
<1>3. \A k \in Jobs : Restored(k) => Restored(k)'
  BY DEF Restored, Current, Stays
<1>4. PutBack'
  BY <1>3 DEF UpkeepInv, PutBack, Keeps, Stays, Fine
<1> QED BY <1>1, <1>2, <1>4 DEF UpkeepInv

\* What a connection, a failure and a purge make of a peer.
LEMMA PeerMoves ==
  ASSUME NEW p, Sound(p)
  PROVE  /\ Fine(p, Connected(p))
         /\ Fine(p, NotedFailure(p))
         /\ Fine(p, Purged(p))
<1>a. p \in PeerType
  BY DEF Sound
<1>b. p.left => p.link # "wanted"
  BY DEF Sound
<1>1. Fine(p, Connected(p))
  <2>1. CASE p.link # "none"
    BY <2>1 DEF Connected, Keeps, Fine
  <2>2. CASE p.link = "none" /\ p.left /\ ~p.shares
    <3>0. [p EXCEPT !.link = "unwanted", !.quarantine = "no", !.fails = 0, !.left = TRUE, !.stored = TRUE] \in PeerType
      BY <1>a DEF PeerType
    <3>1. Connected(p) = [p EXCEPT !.link = "unwanted", !.quarantine = "no", !.fails = 0, !.left = TRUE, !.stored = TRUE]
      BY <2>2 DEF Connected
    <3>2. Connected(p) \in PeerType
      BY <3>0, <3>1
    <3>3. Connected(p).link = "unwanted"
      BY <1>a, <3>1 DEF PeerType
    <3> QED BY <3>2, <3>3 DEF Sound, Keeps, Fine
  <2>3. CASE p.link = "none" /\ ~(p.left /\ ~p.shares)
    <3>0. [p EXCEPT !.link = "wanted", !.quarantine = "no", !.fails = 0, !.left = FALSE, !.stored = TRUE] \in PeerType
      BY <1>a DEF PeerType
    <3>1. Connected(p) = [p EXCEPT !.link = "wanted", !.quarantine = "no", !.fails = 0, !.left = FALSE, !.stored = TRUE]
      BY <2>3 DEF Connected
    <3>2. Connected(p) \in PeerType
      BY <3>0, <3>1
    <3>3. Connected(p).left = FALSE
      BY <1>a, <3>1 DEF PeerType
    <3>4. Connected(p).stored = TRUE
      BY <1>a, <3>1 DEF PeerType
    <3> QED BY <3>2, <3>3, <3>4 DEF Sound, Keeps, Fine
  <2> QED BY <2>1, <2>2, <2>3
<1>2. Fine(p, NotedFailure(p))
  BY <1>a, <1>b DEF NotedFailure, Sound, Keeps, Fine, PeerType
<1>3. Fine(p, Purged(p))
  BY <1>a, <1>b DEF Purged, Sound, Keeps, Fine, PeerType
<1> QED BY <1>1, <1>2, <1>3

\* What the steps set of it.
LEMMA PeerSets ==
  ASSUME NEW p, Sound(p)
  PROVE  /\ Fine(p, [p EXCEPT !.left = FALSE])
         /\ Fine(p, [p EXCEPT !.link = "none", !.shares = FALSE])
         /\ Fine(p, [p EXCEPT !.fails = 0, !.quarantine = "no", !.left = p.left /\ ~p.shares])
         /\ Fine(p, [p EXCEPT !.configured = TRUE, !.left = FALSE, !.known = TRUE, !.boot = TRUE])
         /\ Fine(p, [p EXCEPT !.left = TRUE, !.link = "unwanted"])
         /\ Fine(p, [p EXCEPT !.left = TRUE, !.shares = FALSE, !.link = "unwanted"])
         /\ Fine(p, [p EXCEPT !.configured = FALSE, !.boot = FALSE, !.known = FALSE])
         /\ Fine(p, [p EXCEPT !.shares = TRUE])
         /\ Fine(p, [p EXCEPT !.boot = TRUE, !.stored = TRUE, !.known = TRUE])
         /\ Fine(p, [p EXCEPT !.stored = TRUE, !.known = TRUE, !.boot = TRUE])
         /\ \A n \in Nat : Fine(p, [p EXCEPT !.fails = n])
         /\ \A x \in {"no", "young", "old"} : Fine(p, [p EXCEPT !.quarantine = x])
         /\ \A b \in BOOLEAN : Fine(p, [p EXCEPT !.boot = TRUE, !.stored = TRUE, !.known = p.known \/ b])
<1>a. p \in PeerType
  BY DEF Sound
<1>b. p.left => p.link # "wanted"
  BY DEF Sound
<1>1. Fine(p, [p EXCEPT !.left = FALSE])
  <2>1. [p EXCEPT !.left = FALSE] \in PeerType
    BY <1>a DEF PeerType
  <2>2. [p EXCEPT !.left = FALSE].left => [p EXCEPT !.left = FALSE].link # "wanted"
    BY <1>a, <1>b DEF PeerType
  <2>3. Keeps(p, [p EXCEPT !.left = FALSE])
    BY <1>a DEF PeerType, Keeps
  <2> QED BY <2>1, <2>2, <2>3 DEF Fine, Sound
<1>2. Fine(p, [p EXCEPT !.link = "none", !.shares = FALSE])
  <2>1. [p EXCEPT !.link = "none", !.shares = FALSE] \in PeerType
    BY <1>a DEF PeerType
  <2>2. [p EXCEPT !.link = "none", !.shares = FALSE].left => [p EXCEPT !.link = "none", !.shares = FALSE].link # "wanted"
    BY <1>a, <1>b DEF PeerType
  <2>3. Keeps(p, [p EXCEPT !.link = "none", !.shares = FALSE])
    BY <1>a DEF PeerType, Keeps
  <2> QED BY <2>1, <2>2, <2>3 DEF Fine, Sound
<1>3. Fine(p, [p EXCEPT !.fails = 0, !.quarantine = "no", !.left = p.left /\ ~p.shares])
  <2>1. [p EXCEPT !.fails = 0, !.quarantine = "no", !.left = p.left /\ ~p.shares] \in PeerType
    BY <1>a DEF PeerType
  <2>2. [p EXCEPT !.fails = 0, !.quarantine = "no", !.left = p.left /\ ~p.shares].left => [p EXCEPT !.fails = 0, !.quarantine = "no", !.left = p.left /\ ~p.shares].link # "wanted"
    BY <1>a, <1>b DEF PeerType
  <2>3. Keeps(p, [p EXCEPT !.fails = 0, !.quarantine = "no", !.left = p.left /\ ~p.shares])
    BY <1>a DEF PeerType, Keeps
  <2> QED BY <2>1, <2>2, <2>3 DEF Fine, Sound
<1>4. Fine(p, [p EXCEPT !.configured = TRUE, !.left = FALSE, !.known = TRUE, !.boot = TRUE])
  <2>1. [p EXCEPT !.configured = TRUE, !.left = FALSE, !.known = TRUE, !.boot = TRUE] \in PeerType
    BY <1>a DEF PeerType
  <2>2. [p EXCEPT !.configured = TRUE, !.left = FALSE, !.known = TRUE, !.boot = TRUE].left => [p EXCEPT !.configured = TRUE, !.left = FALSE, !.known = TRUE, !.boot = TRUE].link # "wanted"
    BY <1>a, <1>b DEF PeerType
  <2>3. Keeps(p, [p EXCEPT !.configured = TRUE, !.left = FALSE, !.known = TRUE, !.boot = TRUE])
    BY <1>a DEF PeerType, Keeps
  <2> QED BY <2>1, <2>2, <2>3 DEF Fine, Sound
<1>5. Fine(p, [p EXCEPT !.left = TRUE, !.link = "unwanted"])
  <2>1. [p EXCEPT !.left = TRUE, !.link = "unwanted"] \in PeerType
    BY <1>a DEF PeerType
  <2>2. [p EXCEPT !.left = TRUE, !.link = "unwanted"].left => [p EXCEPT !.left = TRUE, !.link = "unwanted"].link # "wanted"
    BY <1>a, <1>b DEF PeerType
  <2>3. Keeps(p, [p EXCEPT !.left = TRUE, !.link = "unwanted"])
    BY <1>a DEF PeerType, Keeps
  <2> QED BY <2>1, <2>2, <2>3 DEF Fine, Sound
<1>6. Fine(p, [p EXCEPT !.left = TRUE, !.shares = FALSE, !.link = "unwanted"])
  <2>1. [p EXCEPT !.left = TRUE, !.shares = FALSE, !.link = "unwanted"] \in PeerType
    BY <1>a DEF PeerType
  <2>2. [p EXCEPT !.left = TRUE, !.shares = FALSE, !.link = "unwanted"].left => [p EXCEPT !.left = TRUE, !.shares = FALSE, !.link = "unwanted"].link # "wanted"
    BY <1>a, <1>b DEF PeerType
  <2>3. Keeps(p, [p EXCEPT !.left = TRUE, !.shares = FALSE, !.link = "unwanted"])
    BY <1>a DEF PeerType, Keeps
  <2> QED BY <2>1, <2>2, <2>3 DEF Fine, Sound
<1>7. Fine(p, [p EXCEPT !.configured = FALSE, !.boot = FALSE, !.known = FALSE])
  <2>1. [p EXCEPT !.configured = FALSE, !.boot = FALSE, !.known = FALSE] \in PeerType
    BY <1>a DEF PeerType
  <2>2. [p EXCEPT !.configured = FALSE, !.boot = FALSE, !.known = FALSE].left => [p EXCEPT !.configured = FALSE, !.boot = FALSE, !.known = FALSE].link # "wanted"
    BY <1>a, <1>b DEF PeerType
  <2>3. Keeps(p, [p EXCEPT !.configured = FALSE, !.boot = FALSE, !.known = FALSE])
    BY <1>a DEF PeerType, Keeps
  <2> QED BY <2>1, <2>2, <2>3 DEF Fine, Sound
<1>8. Fine(p, [p EXCEPT !.shares = TRUE])
  <2>1. [p EXCEPT !.shares = TRUE] \in PeerType
    BY <1>a DEF PeerType
  <2>2. [p EXCEPT !.shares = TRUE].left => [p EXCEPT !.shares = TRUE].link # "wanted"
    BY <1>a, <1>b DEF PeerType
  <2>3. Keeps(p, [p EXCEPT !.shares = TRUE])
    BY <1>a DEF PeerType, Keeps
  <2> QED BY <2>1, <2>2, <2>3 DEF Fine, Sound
<1>9. Fine(p, [p EXCEPT !.boot = TRUE, !.stored = TRUE, !.known = TRUE])
  <2>1. [p EXCEPT !.boot = TRUE, !.stored = TRUE, !.known = TRUE] \in PeerType
    BY <1>a DEF PeerType
  <2>2. [p EXCEPT !.boot = TRUE, !.stored = TRUE, !.known = TRUE].left => [p EXCEPT !.boot = TRUE, !.stored = TRUE, !.known = TRUE].link # "wanted"
    BY <1>a, <1>b DEF PeerType
  <2>3. Keeps(p, [p EXCEPT !.boot = TRUE, !.stored = TRUE, !.known = TRUE])
    BY <1>a DEF PeerType, Keeps
  <2> QED BY <2>1, <2>2, <2>3 DEF Fine, Sound
<1>10. Fine(p, [p EXCEPT !.stored = TRUE, !.known = TRUE, !.boot = TRUE])
  <2>1. [p EXCEPT !.stored = TRUE, !.known = TRUE, !.boot = TRUE] \in PeerType
    BY <1>a DEF PeerType
  <2>2. [p EXCEPT !.stored = TRUE, !.known = TRUE, !.boot = TRUE].left => [p EXCEPT !.stored = TRUE, !.known = TRUE, !.boot = TRUE].link # "wanted"
    BY <1>a, <1>b DEF PeerType
  <2>3. Keeps(p, [p EXCEPT !.stored = TRUE, !.known = TRUE, !.boot = TRUE])
    BY <1>a DEF PeerType, Keeps
  <2> QED BY <2>1, <2>2, <2>3 DEF Fine, Sound
<1>11. ASSUME NEW n \in Nat PROVE Fine(p, [p EXCEPT !.fails = n])
  <2>1. [p EXCEPT !.fails = n] \in PeerType
    BY <1>a DEF PeerType
  <2>2. [p EXCEPT !.fails = n].left => [p EXCEPT !.fails = n].link # "wanted"
    BY <1>a, <1>b DEF PeerType
  <2>3. Keeps(p, [p EXCEPT !.fails = n])
    BY <1>a DEF PeerType, Keeps
  <2> QED BY <2>1, <2>2, <2>3 DEF Fine, Sound
<1>12. ASSUME NEW x \in {"no", "young", "old"} PROVE Fine(p, [p EXCEPT !.quarantine = x])
  <2>1. [p EXCEPT !.quarantine = x] \in PeerType
    BY <1>a DEF PeerType
  <2>2. [p EXCEPT !.quarantine = x].left => [p EXCEPT !.quarantine = x].link # "wanted"
    BY <1>a, <1>b DEF PeerType
  <2>3. Keeps(p, [p EXCEPT !.quarantine = x])
    BY <1>a DEF PeerType, Keeps
  <2> QED BY <2>1, <2>2, <2>3 DEF Fine, Sound
<1>13. ASSUME NEW b \in BOOLEAN PROVE Fine(p, [p EXCEPT !.boot = TRUE, !.stored = TRUE, !.known = p.known \/ b])
  <2>1. [p EXCEPT !.boot = TRUE, !.stored = TRUE, !.known = p.known \/ b] \in PeerType
    BY <1>a DEF PeerType
  <2>2. [p EXCEPT !.boot = TRUE, !.stored = TRUE, !.known = p.known \/ b].left => [p EXCEPT !.boot = TRUE, !.stored = TRUE, !.known = p.known \/ b].link # "wanted"
    BY <1>a, <1>b DEF PeerType
  <2>3. Keeps(p, [p EXCEPT !.boot = TRUE, !.stored = TRUE, !.known = p.known \/ b])
    BY <1>a DEF PeerType, Keeps
  <2> QED BY <2>1, <2>2, <2>3 DEF Fine, Sound
<1> QED BY <1>1, <1>2, <1>3, <1>4, <1>5, <1>6, <1>7, <1>8, <1>9, <1>10, <1>11, <1>12, <1>13

LEMMA FineTwice ==
  ASSUME NEW p, NEW q, NEW r, Fine(p, q), Fine(q, r)
  PROVE  Fine(p, r)
  BY DEF Fine, Keeps

LEMMA FineSame == ASSUME NEW p, Sound(p) PROVE Fine(p, p)
  BY DEF Fine, Keeps

LEMMA AtKinds ==
  /\ {"idle", "recovery", "ending", "closing", "deleting", "restoring", "redialing", "recovering"} \subseteq JobAt
  /\ {"promotion", "probing", "promoting", "hangingUp", "untagging", "reading", "dialing"} \subseteq JobAt
  BY DEF JobAt

\* A job that waits somewhere, and is putting nothing back, goes on.
LEMMA Going ==
  ASSUME UpkeepInv, NEW j \in Jobs, NEW from, Awaits(j, from), from # "idle", from # "restoring",
         UNCHANGED node, Fine(peer, peer'), \E at \in JobAt : Goes(j, at)
  PROVE  UpkeepInv'
<1>1. GoesOn
  BY DEF GoesOn, Awaits, Restored
<1> QED BY <1>1, GoesOnKeeps

LEMMA JobsKinds == Ticks \subseteq Jobs /\ {"leave", "intake", "found"} = Jobs \ Ticks
  BY DEF Jobs, Ticks

\* A job that is no tick begins.
LEMMA Beginning ==
  ASSUME UpkeepInv, NEW j \in Jobs \ Ticks, NEW at \in JobAt \ {"idle"}, Starting(j, at),
         node' \in NodeType, node'.epoch = node.epoch, node'.ticking = node.ticking, Fine(peer, peer')
  PROVE  UpkeepInv'
<1>1. StartsOne
  BY DEF StartsOne
<1> QED BY <1>1, StartsKeeps

LEMMA Staying ==
  ASSUME UpkeepInv, UNCHANGED job, Fine(peer, peer'),
         node' \in NodeType, node'.epoch = node.epoch, node'.ticking = node.ticking
  PROVE  UpkeepInv'
<1>1. Stays
  BY DEF Stays
<1> QED BY <1>1, StaysKeeps

LEMMA PeerIsSound == UpkeepInv => Sound(peer) /\ node \in NodeType /\ job \in [Jobs -> JobType]
  BY DEF UpkeepInv, UpkeepType

LEMMA StepCloses ==
  ASSUME UpkeepInv, NEW j \in Jobs, Closes(j)
  PROVE  UpkeepInv'
<1>1. Awaits(j, "closing") /\ UNCHANGED node /\ j \in Jobs
  BY JobsKinds DEF Closes, SameNode
<1>2. Sound(peer)
  BY PeerIsSound
<1>3. Fine(peer, peer')
  BY <1>2, PeerSets DEF Closes
<1>4. \E at \in JobAt : Goes(j, at)
  BY AtKinds DEF Closes
<1> QED BY <1>1, <1>3, <1>4, Going

LEMMA StepChooses ==
  ASSUME UpkeepInv, NEW j \in Ticks, Chooses(j)
  PROVE  UpkeepInv'
<1>1. Awaits(j, "reading") /\ UNCHANGED node /\ j \in Jobs
  BY JobsKinds DEF Chooses, SameNode
<1>2. Sound(peer)
  BY PeerIsSound
<1>3. Fine(peer, peer')
  <2>1. \/ UNCHANGED peer
        \/ peer' = [peer EXCEPT !.fails = 0]
        \/ peer' = [peer EXCEPT !.fails = 0, !.quarantine = "no", !.left = peer.left /\ ~peer.shares]
    BY DEF Chooses
  <2>2. Fine(peer, peer)
    BY <1>2, FineSame
  <2>3. Fine(peer, [peer EXCEPT !.fails = 0])
    BY <1>2, PeerSets
  <2>4. Fine(peer, [peer EXCEPT !.fails = 0, !.quarantine = "no", !.left = peer.left /\ ~peer.shares])
    BY <1>2, PeerSets
  <2> QED BY <2>1, <2>2, <2>3, <2>4
<1>4. \E at \in JobAt : Goes(j, at)
  BY AtKinds DEF Chooses
<1> QED BY <1>1, <1>3, <1>4, Going

LEMMA StepRecovers ==
  ASSUME UpkeepInv, NEW j \in Ticks, Recovers(j)
  PROVE  UpkeepInv'
<1>1. Awaits(j, "recovery") /\ UNCHANGED node /\ j \in Jobs
  BY JobsKinds DEF Recovers, SameNode
<1>2. Sound(peer)
  BY PeerIsSound
<1>3. Fine(peer, peer')
  BY <1>2, FineSame DEF Recovers
<1>4. \E at \in JobAt : Goes(j, at)
  BY AtKinds DEF Recovers
<1> QED BY <1>1, <1>3, <1>4, Going

LEMMA StepRecovered ==
  ASSUME UpkeepInv, NEW j \in Ticks, Recovered(j)
  PROVE  UpkeepInv'
<1>1. Awaits(j, "recovering") /\ UNCHANGED node /\ j \in Jobs
  BY JobsKinds DEF Recovered, SameNode
<1>2. Sound(peer)
  BY PeerIsSound
<1>3. Fine(peer, peer')
  BY <1>2, PeerMoves, FineSame DEF Recovered
<1>4. \E at \in JobAt : Goes(j, at)
  BY AtKinds DEF Recovered
<1> QED BY <1>1, <1>3, <1>4, Going

LEMMA StepProbes ==
  ASSUME UpkeepInv, NEW j \in Ticks, Probes(j)
  PROVE  UpkeepInv'
<1>1. Awaits(j, "promotion") /\ UNCHANGED node /\ j \in Jobs
  BY JobsKinds DEF Probes, SameNode
<1>2. Sound(peer)
  BY PeerIsSound
<1>3. Fine(peer, peer')
  BY <1>2, FineSame DEF Probes
<1>4. \E at \in JobAt : Goes(j, at)
  BY AtKinds DEF Probes
<1> QED BY <1>1, <1>3, <1>4, Going

LEMMA StepProbed ==
  ASSUME UpkeepInv, NEW j \in Ticks, Probed(j)
  PROVE  UpkeepInv'
<1>1. Awaits(j, "probing") /\ UNCHANGED node /\ j \in Jobs
  BY JobsKinds DEF Probed, SameNode
<1>2. Sound(peer)
  BY PeerIsSound
<1>3. Fine(peer, peer')
  BY <1>2, PeerMoves, FineSame DEF Probed
<1>4. \E at \in JobAt : Goes(j, at)
  BY AtKinds DEF Probed
<1> QED BY <1>1, <1>3, <1>4, Going

LEMMA StepPromotes ==
  ASSUME UpkeepInv, NEW j \in Ticks, Promotes(j)
  PROVE  UpkeepInv'
<1>1. Awaits(j, "promotion") /\ UNCHANGED node /\ j \in Jobs
  BY JobsKinds DEF Promotes, SameNode
<1>2. Sound(peer)
  BY PeerIsSound
<1>3. Fine(peer, peer')
  BY <1>2, FineSame DEF Promotes
<1>4. \E at \in JobAt : Goes(j, at)
  BY AtKinds DEF Promotes
<1> QED BY <1>1, <1>3, <1>4, Going

LEMMA StepPromoted ==
  ASSUME UpkeepInv, NEW j \in Ticks, Promoted(j)
  PROVE  UpkeepInv'
<1>1. Awaits(j, "promoting") /\ UNCHANGED node /\ j \in Jobs
  BY JobsKinds DEF Promoted, SameNode
<1>2. Sound(peer)
  BY PeerIsSound
<1>3. Fine(peer, peer')
  <2>1. CASE peer' = NotedFailure(peer)
    BY <1>2, <2>1, PeerMoves
  <2>2. CASE peer' = [Connected(peer) EXCEPT !.boot = TRUE, !.stored = TRUE, !.known = TRUE]
    <3>1. Fine(peer, Connected(peer)) /\ Sound(Connected(peer))
      BY <1>2, PeerMoves DEF Fine
    <3>2. Fine(Connected(peer), peer')
      BY <2>2, <3>1, PeerSets
    <3> QED BY <3>1, <3>2, FineTwice
  <2> QED BY <2>1, <2>2 DEF Promoted
<1>4. \E at \in JobAt : Goes(j, at)
  BY AtKinds DEF Promoted
<1> QED BY <1>1, <1>3, <1>4, Going

LEMMA StepRedialed ==
  ASSUME UpkeepInv, NEW j \in Ticks, Redialed(j)
  PROVE  UpkeepInv'
<1>1. Awaits(j, "redialing") /\ UNCHANGED node /\ j \in Jobs
  BY JobsKinds DEF Redialed, SameNode
<1>2. Sound(peer)
  BY PeerIsSound
<1>3. Fine(peer, peer')
  <2>1. CASE peer' = [Connected(peer) EXCEPT !.fails = 0]
    <3>1. Fine(peer, Connected(peer)) /\ Sound(Connected(peer))
      BY <1>2, PeerMoves DEF Fine
    <3>2. Fine(Connected(peer), peer')
      BY <2>1, <3>1, PeerSets
    <3> QED BY <3>1, <3>2, FineTwice
  <2>2. CASE \E fails \in Nat : peer' = [peer EXCEPT !.fails = fails]
    <3>1. PICK n \in Nat : peer' = [peer EXCEPT !.fails = n]
      BY <2>2
    <3>2. Fine(peer, [peer EXCEPT !.fails = n])
      BY <1>2, PeerSets
    <3> QED BY <3>1, <3>2
  <2>3. CASE peer' = [Purged(peer) EXCEPT !.quarantine = "young"]
    <3>1. Fine(peer, Purged(peer)) /\ Sound(Purged(peer))
      BY <1>2, PeerMoves DEF Fine
    <3>2. Fine(Purged(peer), peer')
      BY <2>3, <3>1, PeerSets
    <3> QED BY <3>1, <3>2, FineTwice
  <2>4. peer.fails \in Nat
    BY <1>2 DEF Sound, PeerType
  <2>5. \A others \in BOOLEAN : (IF ~others THEN 0 ELSE IF peer.fails < EvictAt THEN peer.fails + 1 ELSE EvictAt) \in Nat
    BY <2>4, UpkeepAssumption
  <2> QED BY <2>1, <2>2, <2>3, <2>5 DEF Redialed
<1>4. \E at \in JobAt : Goes(j, at)
  BY AtKinds DEF Redialed, PurgeAt
<1> QED BY <1>1, <1>3, <1>4, Going

LEMMA StepUntagged ==
  ASSUME UpkeepInv, NEW j \in Jobs, Untagged(j)
  PROVE  UpkeepInv'
<1>1. Awaits(j, "untagging") /\ UNCHANGED node /\ j \in Jobs
  BY JobsKinds DEF Untagged, SameNode
<1>2. Sound(peer)
  BY PeerIsSound
<1>3. Fine(peer, peer')
  BY <1>2, PeerSets, FineSame DEF Untagged
<1>4. \E at \in JobAt : Goes(j, at)
  BY AtKinds DEF Untagged
<1> QED BY <1>1, <1>3, <1>4, Going

LEMMA StepHungUp ==
  ASSUME UpkeepInv, NEW j \in Jobs, HungUp(j)
  PROVE  UpkeepInv'
<1>1. Awaits(j, "hangingUp") /\ UNCHANGED node /\ j \in Jobs
  BY JobsKinds DEF HungUp, SameNode
<1>2. Sound(peer)
  BY PeerIsSound
<1>3. Fine(peer, peer')
  <2>1. PICK p \in {peer, [peer EXCEPT !.link = "none", !.shares = FALSE]} :
               peer' \in {[p EXCEPT !.left = FALSE], Purged(p)}
    BY DEF HungUp
  <2>2. Fine(peer, p) /\ Sound(p)
    BY <1>2, <2>1, PeerSets, FineSame DEF Fine
  <2>a. Fine(p, [p EXCEPT !.left = FALSE])
    BY <2>2, PeerSets
  <2>b. Fine(p, Purged(p))
    BY <2>2, PeerMoves
  <2>3. Fine(p, peer')
    BY <2>1, <2>a, <2>b
  <2> QED BY <2>2, <2>3, FineTwice
<1>4. \E at \in JobAt : Goes(j, at)
  BY AtKinds DEF HungUp, PurgeAt
<1> QED BY <1>1, <1>3, <1>4, Going

LEMMA StepFound ==
  ASSUME UpkeepInv, Found
  PROVE  UpkeepInv'
<1>1. Awaits("found", "dialing") /\ UNCHANGED node /\ "found" \in Jobs
  BY JobsKinds DEF Found, SameNode
<1>2. Sound(peer)
  BY PeerIsSound
<1>3. Fine(peer, peer')
  BY <1>2, PeerMoves DEF Found
<1>4. \E at \in JobAt : Goes("found", at)
  BY AtKinds DEF Found
<1> QED BY <1>1, <1>3, <1>4, Going

LEMMA StepFoundHangsUp ==
  ASSUME UpkeepInv, FoundHangsUp
  PROVE  UpkeepInv'
<1>1. Awaits("found", "hangingUp") /\ UNCHANGED node /\ "found" \in Jobs
  BY JobsKinds DEF FoundHangsUp, SameNode
<1>2. Sound(peer)
  BY PeerIsSound
<1>3. Fine(peer, peer')
  BY <1>2, PeerSets DEF FoundHangsUp
<1>4. \E at \in JobAt : Goes("found", at)
  BY AtKinds DEF FoundHangsUp
<1> QED BY <1>1, <1>3, <1>4, Going

LEMMA StepTakenIn ==
  ASSUME UpkeepInv, TakenIn
  PROVE  UpkeepInv'
<1>1. Awaits("intake", "dialing") /\ UNCHANGED node /\ "intake" \in Jobs
  BY JobsKinds DEF TakenIn, SameNode
<1>2. Sound(peer)
  BY PeerIsSound
<1>3. Fine(peer, peer')
  <2>1. Fine(peer, Connected(peer)) /\ Sound(Connected(peer))
    BY <1>2, PeerMoves DEF Fine
  <2>2. Connected(peer).known = peer.known
    BY <1>2 DEF Connected, Sound, PeerType
  <2>3. \/ peer' = [Connected(peer) EXCEPT !.left = TRUE, !.link = "unwanted"]
        \/ \E b \in BOOLEAN : peer' = [Connected(peer) EXCEPT !.boot = TRUE, !.stored = TRUE, !.known = Connected(peer).known \/ b]
    BY DEF TakenIn
  <2> DEFINE p == Connected(peer)
  <2>4. Sound(p) /\ Fine(peer, p)
    BY <2>1
  <2>5. \/ peer' = [p EXCEPT !.left = TRUE, !.link = "unwanted"]
        \/ \E b \in BOOLEAN : peer' = [p EXCEPT !.boot = TRUE, !.stored = TRUE, !.known = p.known \/ b]
    BY <2>3
  <2> HIDE DEF p
  <2>6. /\ Fine(p, [p EXCEPT !.left = TRUE, !.link = "unwanted"])
        /\ \A b \in BOOLEAN : Fine(p, [p EXCEPT !.boot = TRUE, !.stored = TRUE, !.known = p.known \/ b])
    BY <2>4, PeerSets
  <2>7. Fine(p, peer')
    BY <2>5, <2>6
  <2> QED BY <2>4, <2>7, FineTwice
<1>4. \E at \in JobAt : Goes("intake", at)
  BY AtKinds DEF TakenIn
<1> QED BY <1>1, <1>3, <1>4, Going

LEMMA StepIntakeFails ==
  ASSUME UpkeepInv, IntakeFails
  PROVE  UpkeepInv'
<1>1. Awaits("intake", "dialing") /\ UNCHANGED node /\ "intake" \in Jobs
  BY JobsKinds DEF IntakeFails, SameNode
<1>2. Sound(peer)
  BY PeerIsSound
<1>3. Fine(peer, peer')
  <2>1. peer' = NotedFailure(peer) \/ peer' = [peer EXCEPT !.quarantine = "young"] \/ peer' = peer \/ peer' = Purged(peer)
    BY DEF IntakeFails
  <2>2. Fine(peer, NotedFailure(peer)) /\ Fine(peer, Purged(peer))
    BY <1>2, PeerMoves
  <2>3. Fine(peer, [peer EXCEPT !.quarantine = "young"])
    BY <1>2, PeerSets
  <2>4. Fine(peer, peer)
    BY <1>2 DEF Fine, Keeps
  <2> QED BY <2>1, <2>2, <2>3, <2>4
<1>4. \E at \in JobAt : Goes("intake", at)
  BY AtKinds DEF IntakeFails
<1> QED BY <1>1, <1>3, <1>4, Going

LEMMA StepOutdated ==
  ASSUME UpkeepInv, NEW j \in Jobs, Outdated(j)
  PROVE  UpkeepInv'
<1>1. Sound(peer)
  BY PeerIsSound
<1>2. Fine(peer, peer')
  BY <1>1, FineSame DEF Outdated
<1>3. job[j].at # "idle" /\ ~Restored(j) /\ UNCHANGED node
  BY DEF Outdated, Restored, SameNode
<1>4. \E at \in JobAt : Goes(j, at)
  BY AtKinds DEF Outdated, After
<1>5. GoesOn
  BY <1>2, <1>3, <1>4 DEF GoesOn
<1> QED BY <1>5, GoesOnKeeps

LEMMA StepRestores ==
  ASSUME UpkeepInv, NEW j \in Jobs, Restores(j)
  PROVE  UpkeepInv'
<1>1. Sound(peer)
  BY PeerIsSound
<1>2. Fine(peer, peer')
  BY <1>1, PeerSets DEF Restores
<1>3. job[j].at # "idle" /\ UNCHANGED node
  BY DEF Restores, SameNode, Awaits
<1>4. \E at \in JobAt : Goes(j, at)
  BY AtKinds DEF Restores, AfterPurge
<1>5. peer'.stored
  BY <1>1 DEF Restores, Sound, PeerType
<1>6. GoesOn
  BY <1>2, <1>3, <1>4, <1>5 DEF GoesOn
<1> QED BY <1>6, GoesOnKeeps

\* Whoever finds the peer back in the middle of a purge puts it back.
LEMMA StepDeletes ==
  ASSUME UpkeepInv, NEW j \in Jobs, Deletes(j)
  PROVE  UpkeepInv'
<1> DEFINE back == peer.link # "none" /\ ~peer.left
<1>1. Sound(peer) /\ peer \in PeerType /\ job \in [Jobs -> JobType]
  BY PeerIsSound DEF Sound
<1>2. /\ job[j].at = "deleting" /\ Current(j) /\ UNCHANGED node
      /\ \E at \in JobAt : Goes(j, at) /\ (back => at = "restoring")
  BY AtKinds DEF Deletes, Awaits, SameNode, AfterPurge
<1>3. \/ peer' = [peer EXCEPT !.stored = FALSE, !.quarantine = "no"]
      \/ peer' = [peer EXCEPT !.stored = FALSE, !.quarantine = peer.quarantine]
  BY DEF Deletes
<1>4. /\ [peer EXCEPT !.stored = FALSE, !.quarantine = "no"] \in PeerType
      /\ [peer EXCEPT !.stored = FALSE, !.quarantine = peer.quarantine] \in PeerType
  BY <1>1 DEF PeerType
<1>5. peer' \in PeerType
  BY <1>3, <1>4
<1>6. peer'.link = peer.link /\ peer'.left = peer.left
  BY <1>1, <1>3 DEF PeerType
<1>7. Sound(peer')
  BY <1>1, <1>5, <1>6 DEF Sound
<1>8. PICK at \in JobAt : job' = [job EXCEPT ![j].at = at] /\ (back => at = "restoring")
  BY <1>2 DEF Goes
<1>9. job' \in [Jobs -> JobType]
  BY <1>1, <1>8 DEF JobType
<1>10. \A k \in Jobs : job'[k].epoch = job[k].epoch /\ (k # j => job'[k].at = job[k].at)
  BY <1>1, <1>8 DEF JobType
<1>11. job'[j].at = at
  BY <1>1, <1>8 DEF JobType
<1>12. UpkeepType'
  BY <1>2, <1>7, <1>9, PeerIsSound DEF UpkeepType
<1>13. \A k \in Jobs : Holds(k)' => Holds(k)
  BY <1>2, <1>10 DEF Holds, Current
<1>14. TicksHold' /\ OneTick' /\ NoJobAhead'
  BY <1>2, <1>10, <1>13, JobsKinds DEF UpkeepInv, TicksHold, OneTick, NoJobAhead, Holds
<1>15. PutBack'
  <2> SUFFICES ASSUME peer'.link = "wanted" PROVE Restored(j)'
    BY DEF PutBack
  <2>1. back
    BY <1>1, <1>6 DEF Sound
  <2> QED BY <1>2, <1>8, <1>10, <1>11, <2>1 DEF Restored, Current
<1> QED BY <1>12, <1>14, <1>15 DEF UpkeepInv

\* A tick begins when no tick of its run is under way.
LEMMA StepTickFires ==
  ASSUME UpkeepInv, NEW j \in Ticks, TickFires(j)
  PROVE  UpkeepInv'
<1>1. /\ job' = [job EXCEPT ![j] = [at |-> "reading", epoch |-> node.epoch, seen |-> peer.link # "none"]]
      /\ job[j].at = "idle" /\ UNCHANGED peer
  BY DEF TickFires, Starting, Awaits
<1>2. ~node.ticking
  BY DEF TickFires
<1>3. node' = [node EXCEPT !.ticking = TRUE]
  BY DEF TickFires
<1>4. Sound(peer) /\ node \in NodeType /\ job \in [Jobs -> JobType] /\ j \in Jobs
  BY PeerIsSound, JobsKinds
<1>5. node' \in NodeType /\ node'.epoch = node.epoch /\ node.epoch \in Nat
  BY <1>3, <1>4 DEF NodeType
<1>6. node'.ticking
  BY <1>3, <1>4 DEF NodeType
<1>7. (peer.link # "none") \in BOOLEAN
  OBVIOUS
<1>8. [at |-> "reading", epoch |-> node.epoch, seen |-> peer.link # "none"] \in JobType
  BY <1>5, <1>7, AtKinds DEF JobType
<1>9. job' \in [Jobs -> JobType]
  BY <1>1, <1>4, <1>8
<1>10. \A k \in Jobs : k # j => job'[k] = job[k]
  BY <1>1, <1>4
<1>11. job'[j].epoch = node.epoch /\ job'[j].at = "reading"
  BY <1>1, <1>4
<1>12. UpkeepType' /\ TicksHold'
  BY <1>1, <1>4, <1>5, <1>6, <1>9 DEF UpkeepType, TicksHold
<1>13. \A k \in Ticks : ~Holds(k)
  BY <1>2 DEF UpkeepInv, TicksHold
<1>14. \A k \in Ticks : k # j => ~Holds(k)'
  BY <1>5, <1>10, <1>13, JobsKinds DEF Holds, Current
<1>15. OneTick'
  BY <1>14 DEF OneTick, Holds
<1>16. NoJobAhead'
  BY <1>5, <1>10, <1>11 DEF UpkeepInv, NoJobAhead
<1>17. \A k \in Jobs : Restored(k) => Restored(k)'
  BY <1>1, <1>5, <1>10 DEF Restored, Current
<1>18. PutBack'
  BY <1>1, <1>17 DEF UpkeepInv, PutBack
<1> QED BY <1>12, <1>15, <1>16, <1>18 DEF UpkeepInv

LEMMA StepTickEnds ==
  ASSUME UpkeepInv, NEW j \in Ticks, TickEnds(j)
  PROVE  UpkeepInv'
<1>1. job[j].at = "ending" /\ job' = [job EXCEPT ![j] = NoJob] /\ UNCHANGED peer
  BY DEF TickEnds, Awaits
<1>2. node' = IF Current(j) THEN [node EXCEPT !.ticking = FALSE] ELSE [node EXCEPT !.ticking = node.ticking]
  BY DEF TickEnds
<1>3. Sound(peer) /\ node \in NodeType /\ job \in [Jobs -> JobType] /\ j \in Jobs
  BY PeerIsSound, JobsKinds
<1>4. [node EXCEPT !.ticking = FALSE] \in NodeType /\ [node EXCEPT !.ticking = node.ticking] \in NodeType
  BY <1>3 DEF NodeType
<1>5. node' \in NodeType /\ node'.epoch = node.epoch /\ node.epoch \in Nat
  BY <1>2, <1>3, <1>4 DEF NodeType
<1>6. ~Current(j) => node'.ticking = node.ticking
  BY <1>2, <1>3 DEF NodeType
<1>7. NoJob \in JobType
  BY AtKinds DEF JobType, NoJob
<1>8. job' \in [Jobs -> JobType]
  BY <1>1, <1>3, <1>7
<1>9. \A k \in Jobs : k # j => job'[k] = job[k]
  BY <1>1, <1>3
<1>10. job'[j].at = "idle" /\ job'[j].epoch = 0
  BY <1>1, <1>3 DEF NoJob
<1>11. UpkeepType'
  BY <1>1, <1>3, <1>5, <1>8 DEF UpkeepType
<1>12. ~Holds(j)' /\ \A k \in Jobs : k # j /\ Holds(k)' => Holds(k)
  BY <1>5, <1>9, <1>10 DEF Holds, Current
<1>13. OneTick'
  BY <1>12, JobsKinds DEF UpkeepInv, OneTick, Holds
<1>14. TicksHold'
  <2> SUFFICES ASSUME NEW k \in Ticks, Holds(k)' PROVE node'.ticking
    BY DEF TicksHold
  <2>1. k # j /\ Holds(k)
    BY <1>12, JobsKinds
  <2>2. node.ticking
    BY <2>1 DEF UpkeepInv, TicksHold
  <2>3. ~Current(j)
    BY <1>1, <2>1 DEF UpkeepInv, OneTick, Holds
  <2> QED BY <1>6, <2>2, <2>3
<1>15. NoJobAhead'
  BY <1>5, <1>9, <1>10 DEF UpkeepInv, NoJobAhead
<1>16. \A k \in Jobs : Restored(k) => Restored(k)'
  BY <1>1, <1>5, <1>9 DEF Restored, Current
<1>17. PutBack'
  BY <1>1, <1>16 DEF UpkeepInv, PutBack
<1> QED BY <1>11, <1>13, <1>14, <1>15, <1>17 DEF UpkeepInv

\* After a stop no job belongs to the run that comes.
LEMMA StepStopNode == UpkeepInv /\ StopNode => UpkeepInv'
<1> SUFFICES ASSUME UpkeepInv, StopNode PROVE UpkeepInv'
  OBVIOUS
<1>1. /\ peer' = [NewPeer EXCEPT !.stored = peer.stored] /\ UNCHANGED job
      /\ node' = [epoch |-> node.epoch + 1, running |-> FALSE, ticking |-> FALSE, joined |-> FALSE]
  BY DEF StopNode
<1>2. Sound(peer) /\ node \in NodeType /\ job \in [Jobs -> JobType]
  BY PeerIsSound
<1>3. peer.stored \in BOOLEAN
  BY <1>2 DEF Sound, PeerType
<1>4. NewPeer \in PeerType
  BY DEF NewPeer, PeerType
<1>5. peer' \in PeerType
  BY <1>1, <1>3, <1>4 DEF PeerType
<1>6. peer'.link = "none"
  BY <1>1 DEF NewPeer
<1>7. node'.epoch = node.epoch + 1 /\ node.epoch \in Nat /\ node' \in NodeType
  BY <1>1, <1>2 DEF NodeType
<1>8. UpkeepType'
  BY <1>1, <1>2, <1>5, <1>6, <1>7 DEF UpkeepType, Sound
<1>9. \A j \in Jobs : job[j].epoch \in Nat /\ job[j].epoch <= node.epoch
  BY <1>2 DEF UpkeepInv, NoJobAhead, JobType
<1>10. \A j \in Jobs : ~Holds(j)'
  BY <1>1, <1>7, <1>9 DEF Holds, Current
<1>11. TicksHold' /\ OneTick'
  BY <1>10, JobsKinds DEF TicksHold, OneTick, Holds
<1>12. NoJobAhead'
  BY <1>1, <1>7, <1>9 DEF NoJobAhead
<1>13. PutBack'
  BY <1>6 DEF PutBack
<1> QED BY <1>8, <1>11, <1>12, <1>13 DEF UpkeepInv

LEMMA StepDiscovers == UpkeepInv /\ Discovers => UpkeepInv'
<1> SUFFICES ASSUME UpkeepInv, Discovers PROVE UpkeepInv'
  OBVIOUS
<1>1. Sound(peer) /\ node \in NodeType
  BY PeerIsSound
<1>2. Starting("found", "dialing")
  BY DEF Discovers
<1>3. node' \in NodeType /\ node'.epoch = node.epoch /\ node'.ticking = node.ticking
  BY <1>1 DEF Discovers, SameNode
<1>4. Fine(peer, peer')
  BY <1>1, FineSame DEF Discovers
<1>5. "found" \in Jobs \ Ticks /\ "dialing" \in JobAt \ {"idle"}
  BY AtKinds DEF Jobs, Ticks
<1> QED BY <1>5, <1>2, <1>3, <1>4, Beginning

LEMMA StepTakesAnnounced == UpkeepInv /\ TakesAnnounced => UpkeepInv'
<1> SUFFICES ASSUME UpkeepInv, TakesAnnounced PROVE UpkeepInv'
  OBVIOUS
<1>1. Sound(peer) /\ node \in NodeType
  BY PeerIsSound
<1>2. Starting("intake", "dialing")
  BY DEF TakesAnnounced
<1>3. node' \in NodeType /\ node'.epoch = node.epoch /\ node'.ticking = node.ticking
  BY <1>1 DEF TakesAnnounced, SameNode
<1>4. Fine(peer, peer')
  BY <1>1, PeerSets DEF TakesAnnounced
<1>5. "intake" \in Jobs \ Ticks /\ "dialing" \in JobAt \ {"idle"}
  BY AtKinds DEF Jobs, Ticks
<1> QED BY <1>5, <1>2, <1>3, <1>4, Beginning

LEMMA StepTakesConfigured == UpkeepInv /\ TakesConfigured => UpkeepInv'
<1> SUFFICES ASSUME UpkeepInv, TakesConfigured PROVE UpkeepInv'
  OBVIOUS
<1>1. Sound(peer) /\ node \in NodeType
  BY PeerIsSound
<1>2. Starting("intake", "dialing")
  BY DEF TakesConfigured
<1>3. node' \in NodeType /\ node'.epoch = node.epoch /\ node'.ticking = node.ticking
  BY <1>1 DEF TakesConfigured, SameNode
<1>4. Fine(peer, peer')
  BY <1>1, PeerSets DEF TakesConfigured
<1>5. "intake" \in Jobs \ Ticks /\ "dialing" \in JobAt \ {"idle"}
  BY AtKinds DEF Jobs, Ticks
<1> QED BY <1>5, <1>2, <1>3, <1>4, Beginning

LEMMA StepLeaves == UpkeepInv /\ Leaves => UpkeepInv'
<1> SUFFICES ASSUME UpkeepInv, Leaves PROVE UpkeepInv'
  OBVIOUS
<1>1. Sound(peer) /\ node \in NodeType
  BY PeerIsSound
<1>2. Starting("leave", "untagging")
  BY DEF Leaves
<1>3. node' \in NodeType /\ node'.epoch = node.epoch /\ node'.ticking = node.ticking
  BY <1>1 DEF Leaves, NodeType
<1>4. Fine(peer, peer')
  BY <1>1, PeerSets DEF Leaves
<1>5. "leave" \in Jobs \ Ticks /\ "untagging" \in JobAt \ {"idle"}
  BY AtKinds DEF Jobs, Ticks
<1> QED BY <1>5, <1>2, <1>3, <1>4, Beginning

LEMMA StepJoins == UpkeepInv /\ Joins => UpkeepInv'
<1> SUFFICES ASSUME UpkeepInv, Joins PROVE UpkeepInv'
  OBVIOUS
<1>1. Sound(peer) /\ node \in NodeType
  BY PeerIsSound
<1>2. UNCHANGED job
  BY DEF Joins
<1>3. node' \in NodeType /\ node'.epoch = node.epoch /\ node'.ticking = node.ticking
  BY <1>1 DEF Joins, NodeType
<1>4. Fine(peer, peer')
  BY <1>1, PeerSets DEF Joins
<1> QED BY <1>2, <1>3, <1>4, Staying

LEMMA StepUnconfigures == UpkeepInv /\ Unconfigures => UpkeepInv'
<1> SUFFICES ASSUME UpkeepInv, Unconfigures PROVE UpkeepInv'
  OBVIOUS
<1>1. Sound(peer) /\ node \in NodeType
  BY PeerIsSound
<1>2. UNCHANGED job
  BY DEF Unconfigures
<1>3. node' \in NodeType /\ node'.epoch = node.epoch /\ node'.ticking = node.ticking
  BY <1>1 DEF Unconfigures, SameNode
<1>4. Fine(peer, peer')
  BY <1>1, PeerSets DEF Unconfigures
<1> QED BY <1>2, <1>3, <1>4, Staying

LEMMA StepPeerDialsIn == UpkeepInv /\ PeerDialsIn => UpkeepInv'
<1> SUFFICES ASSUME UpkeepInv, PeerDialsIn PROVE UpkeepInv'
  OBVIOUS
<1>1. Sound(peer) /\ node \in NodeType
  BY PeerIsSound
<1>2. UNCHANGED job
  BY DEF PeerDialsIn
<1>3. node' \in NodeType /\ node'.epoch = node.epoch /\ node'.ticking = node.ticking
  BY <1>1 DEF PeerDialsIn, SameNode
<1>4. Fine(peer, peer')
  BY <1>1, PeerMoves DEF PeerDialsIn
<1> QED BY <1>2, <1>3, <1>4, Staying

LEMMA StepPeerDisconnects == UpkeepInv /\ PeerDisconnects => UpkeepInv'
<1> SUFFICES ASSUME UpkeepInv, PeerDisconnects PROVE UpkeepInv'
  OBVIOUS
<1>1. Sound(peer) /\ node \in NodeType
  BY PeerIsSound
<1>2. UNCHANGED job
  BY DEF PeerDisconnects
<1>3. node' \in NodeType /\ node'.epoch = node.epoch /\ node'.ticking = node.ticking
  BY <1>1 DEF PeerDisconnects, SameNode
<1>4. Fine(peer, peer')
  BY <1>1, PeerSets DEF PeerDisconnects
<1> QED BY <1>2, <1>3, <1>4, Staying

LEMMA StepPeerShares == UpkeepInv /\ PeerShares => UpkeepInv'
<1> SUFFICES ASSUME UpkeepInv, PeerShares PROVE UpkeepInv'
  OBVIOUS
<1>1. Sound(peer) /\ node \in NodeType
  BY PeerIsSound
<1>2. UNCHANGED job
  BY DEF PeerShares
<1>3. node' \in NodeType /\ node'.epoch = node.epoch /\ node'.ticking = node.ticking
  BY <1>1 DEF PeerShares, SameNode
<1>4. Fine(peer, peer')
  BY <1>1, PeerSets DEF PeerShares
<1> QED BY <1>2, <1>3, <1>4, Staying

LEMMA StepQuarantineAges == UpkeepInv /\ QuarantineAges => UpkeepInv'
<1> SUFFICES ASSUME UpkeepInv, QuarantineAges PROVE UpkeepInv'
  OBVIOUS
<1>1. Sound(peer) /\ node \in NodeType
  BY PeerIsSound
<1>2. UNCHANGED job
  BY DEF QuarantineAges
<1>3. node' \in NodeType /\ node'.epoch = node.epoch /\ node'.ticking = node.ticking
  BY <1>1 DEF QuarantineAges, SameNode
<1>4. Fine(peer, peer')
  BY <1>1, PeerSets DEF QuarantineAges
<1> QED BY <1>2, <1>3, <1>4, Staying

LEMMA StepStartNode == UpkeepInv /\ StartNode => UpkeepInv'
<1> SUFFICES ASSUME UpkeepInv, StartNode PROVE UpkeepInv'
  OBVIOUS
<1>1. Sound(peer) /\ node \in NodeType
  BY PeerIsSound
<1>2. UNCHANGED job
  BY DEF StartNode
<1>3. node' \in NodeType /\ node'.epoch = node.epoch /\ node'.ticking = node.ticking
  BY <1>1 DEF StartNode, NodeType
<1>4. Fine(peer, peer')
  BY <1>1, FineSame DEF StartNode
<1> QED BY <1>2, <1>3, <1>4, Staying

LEMMA UpkeepHoldsAlways == UpkeepSpec => []UpkeepInv
<1>1. UpkeepInit => UpkeepInv
  <2> SUFFICES ASSUME UpkeepInit PROVE UpkeepInv
    OBVIOUS
  <2>1. peer = NewPeer /\ job = [j \in Jobs |-> NoJob]
        /\ node = [epoch |-> 0, running |-> TRUE, ticking |-> FALSE, joined |-> TRUE]
    BY DEF UpkeepInit
  <2>2. Sound(peer) /\ peer.link = "none"
    BY <2>1 DEF NewPeer, Sound, PeerType
  <2>3. NoJob \in JobType
    BY AtKinds DEF NoJob, JobType
  <2>4. node \in NodeType /\ node.epoch = 0
    BY <2>1 DEF NodeType
  <2>5. \A j \in Jobs : job[j].at = "idle" /\ job[j].epoch = 0
    BY <2>1 DEF NoJob
  <2>6. UpkeepType
    BY <2>1, <2>2, <2>3, <2>4 DEF UpkeepType
  <2>7. TicksHold /\ OneTick /\ NoJobAhead
    BY <2>4, <2>5, JobsKinds DEF TicksHold, OneTick, NoJobAhead, Holds
  <2>8. PutBack
    BY <2>2 DEF PutBack
  <2> QED BY <2>6, <2>7, <2>8 DEF UpkeepInv
<1>2. UpkeepInv /\ [UpkeepNext]_upkeepVars => UpkeepInv'
  <2> SUFFICES ASSUME UpkeepInv, [UpkeepNext]_upkeepVars PROVE UpkeepInv'
    OBVIOUS
  <2>1. ASSUME NEW j \in Jobs, Outdated(j) \/ Closes(j) \/ Deletes(j) \/ Restores(j) PROVE UpkeepInv'
    BY <2>1, StepOutdated, StepCloses, StepDeletes, StepRestores
  <2>2. ASSUME NEW j \in Ticks, TickFires(j) \/ TickEnds(j) \/ Chooses(j) \/ Redialed(j) \/ Recovers(j) PROVE UpkeepInv'
    BY <2>2, StepTickFires, StepTickEnds, StepChooses, StepRedialed, StepRecovers
  <2>3. ASSUME NEW j \in Ticks, Recovered(j) \/ Probes(j) \/ Probed(j) \/ Promotes(j) \/ Promoted(j) PROVE UpkeepInv'
    BY <2>3, StepRecovered, StepProbes, StepProbed, StepPromotes, StepPromoted
  <2>4. ASSUME NEW j \in {"leave", "intake"}, Untagged(j) \/ HungUp(j) PROVE UpkeepInv'
    BY <2>4, JobsKinds, StepUntagged, StepHungUp
  <2>5. CASE Discovers \/ Found \/ FoundHangsUp \/ TakesAnnounced \/ TakesConfigured \/ TakenIn \/ IntakeFails \/ Leaves
    BY <2>5, StepDiscovers, StepFound, StepFoundHangsUp, StepTakesAnnounced, StepTakesConfigured, StepTakenIn, StepIntakeFails, StepLeaves
  <2>6. CASE Joins \/ Unconfigures \/ PeerDialsIn \/ PeerDisconnects \/ PeerShares \/ QuarantineAges \/ StopNode \/ StartNode
    BY <2>6, StepJoins, StepUnconfigures, StepPeerDialsIn, StepPeerDisconnects, StepPeerShares, StepQuarantineAges, StepStopNode, StepStartNode
  <2>7. CASE UNCHANGED upkeepVars
    <3>1. UNCHANGED <<peer, node, job>>
      BY <2>7 DEF upkeepVars
    <3>2. Sound(peer) /\ node \in NodeType
      BY PeerIsSound
    <3>3. Fine(peer, peer')
      BY <3>1, <3>2, FineSame
    <3> QED BY <3>1, <3>2, <3>3, Staying
  <2> QED BY <2>1, <2>2, <2>3, <2>4, <2>5, <2>6, <2>7 DEF UpkeepNext
<1> QED BY <1>1, <1>2, PTL DEF UpkeepSpec

\* The background work of the node is there once, and nothing it keeps of a connected peer is
\* deleted for good (peer-announce.ts, network.ts).
THEOREM UpkeepCorrect == AnnounceSpec /\ UpkeepSpec => []UpkeepHolds
<1>1. AnnounceInv => OneChain
  <2> SUFFICES ASSUME AnnounceInv PROVE OneChain
    OBVIOUS
  <2>1. \A g \in Starts : chain[g] = "waiting" => g = gen /\ ~stopped /\ g # 0
    BY DEF AnnounceInv, TimerIsKnown, Starts
  <2>2. gen = 0 \/ stopped \/ chain[gen] # "none"
    BY DEF AnnounceInv, ChainGoesOn
  <2> QED BY <2>1, <2>2 DEF OneChain
<1>2. UpkeepInv => KeptWhileConnected /\ OneTick
  BY DEF UpkeepInv, PutBack, KeptWhileConnected, Restored
<1> QED BY <1>1, <1>2, AnnounceHolds, UpkeepHoldsAlways, PTL DEF UpkeepHolds

-----------------------------------------------------------------------------
(* Bootstrap statuses: the rows, and what observers were told of them.     *)

Row == [origin : {"configured", "discovered"}, status : {"pending", "connected", "error"},
        hidden : BOOLEAN, proven : StatusPeers \cup {Nobody}]
RowShows(row) == row.origin = "configured" => ~row.hidden
\* Finitely many rows, of which those the user configured are shown.
Rows(r) ==
  /\ IsFiniteSet(DOMAIN r) /\ r = [a \in DOMAIN r |-> r[a]]
  /\ \A a \in DOMAIN r : r[a] \in Row /\ RowShows(r[a])
Fits(r) == Cardinality(Discovered(r)) <= MaxDiscovered

\* Outside a frame nothing is left to be told; what was told and has not changed since is there.
FrameType == frame = [id |-> frame.id, dirty |-> frame.dirty] /\ frame.dirty \in BOOLEAN
NothingHeldBack == frame.id = 0 => ~frame.dirty
Told == ~frame.dirty /\ shown # Untold => shown = Visible(rows)

StatusInv == Rows(rows) /\ Fits(rows) /\ FrameType /\ NothingHeldBack /\ Told

LEMMA DiscoveredFinite ==
  ASSUME NEW r, IsFiniteSet(DOMAIN r)
  PROVE  IsFiniteSet(Discovered(r)) /\ Cardinality(Discovered(r)) \in Nat
<1>1. Discovered(r) \in SUBSET (DOMAIN r)
  BY DEF Discovered
<1> QED BY <1>1, FS_Subset, FS_CardinalityType

LEMMA FewerFit ==
  ASSUME NEW r, NEW q, Rows(r), Fits(r), Discovered(q) \subseteq Discovered(r)
  PROVE  Fits(q)
<1>1. IsFiniteSet(Discovered(r)) /\ Cardinality(Discovered(r)) \in Nat
  BY DiscoveredFinite DEF Rows
<1>2. IsFiniteSet(Discovered(q)) /\ Cardinality(Discovered(q)) <= Cardinality(Discovered(r))
  BY <1>1, FS_Subset
<1>3. Cardinality(Discovered(q)) \in Nat
  BY <1>2, FS_CardinalityType
<1> QED BY <1>1, <1>2, <1>3, StatusAssumption DEF Fits

\* Rows that change without one coming.
LEMMA RowsChange ==
  ASSUME Rows(rows), Fits(rows), NEW D \in SUBSET (DOMAIN rows), NEW q, q = [a \in D |-> q[a]],
         \A a \in D : q[a] \in Row /\ RowShows(q[a]) /\ q[a].origin = rows[a].origin
  PROVE  Rows(q) /\ Fits(q)
<1>1. DOMAIN q = D
  OBVIOUS
<1>2. IsFiniteSet(D)
  BY FS_Subset DEF Rows
<1>3. Rows(q)
  BY <1>1, <1>2 DEF Rows
<1>4. Discovered(q) \subseteq Discovered(rows)
  BY <1>1 DEF Discovered
<1> QED BY <1>3, <1>4, FewerFit

\* A change is told at once, or left to the frame.
LEMMA ChangeHolds ==
  ASSUME StatusInv, NEW r, Rows(r), Fits(r), Changed(r)
  PROVE  StatusInv'
<1>1. rows' = r
  BY DEF Changed
<1>2. CASE frame.id # 0
  <2>1. frame' = [frame EXCEPT !.dirty = TRUE]
    BY <1>2 DEF Changed, Notify
  <2>2. frame' = [id |-> frame.id, dirty |-> TRUE]
    BY <2>1 DEF StatusInv, FrameType
  <2>3. frame'.id # 0 /\ frame'.dirty = TRUE
    BY <1>2, <2>2
  <2>4. FrameType'
    BY <2>2 DEF FrameType
  <2>5. NothingHeldBack' /\ Told'
    BY <2>3 DEF NothingHeldBack, Told
  <2> QED BY <1>1, <2>4, <2>5 DEF StatusInv, Rows, Fits
<1>3. CASE frame.id = 0
  <2>1. frame' = frame /\ shown' = Visible(rows')
    BY <1>1, <1>3 DEF Changed, Notify
  <2> QED BY <1>1, <2>1 DEF StatusInv, FrameType, NothingHeldBack, Told, Rows, Fits
<1> QED BY <1>2, <1>3

\* One row comes, or changes; then there may be one too many of those that were discovered.
LEMMA WithHolds ==
  ASSUME Rows(rows), Fits(rows), NEW a, NEW row \in Row, RowShows(row)
  PROVE  /\ Rows(With(a, row)) /\ Cardinality(Discovered(With(a, row))) <= MaxDiscovered + 1
<1> DEFINE w == With(a, row)
<1>1. DOMAIN w = DOMAIN rows \cup {a} /\ w = [b \in DOMAIN w |-> w[b]]
  BY DEF With
<1>2. \A b \in DOMAIN w : w[b] = IF b = a THEN row ELSE rows[b]
  BY DEF With
<1>3. IsFiniteSet(DOMAIN w)
  BY <1>1, FS_AddElement DEF Rows
<1> HIDE DEF w
<1>4. \A b \in DOMAIN w : w[b] \in Row /\ RowShows(w[b])
  BY <1>1, <1>2 DEF Rows
<1>5. Rows(w)
  BY <1>1, <1>3, <1>4 DEF Rows
<1>6. Discovered(w) \subseteq Discovered(rows) \cup {a}
  BY <1>1, <1>2 DEF Discovered
<1>7. IsFiniteSet(Discovered(rows)) /\ Cardinality(Discovered(rows)) \in Nat
  BY DiscoveredFinite DEF Rows
<1>8. /\ IsFiniteSet(Discovered(rows) \cup {a})
      /\ Cardinality(Discovered(rows) \cup {a}) <= Cardinality(Discovered(rows)) + 1
      /\ Cardinality(Discovered(rows) \cup {a}) \in Nat
  BY <1>7, FS_AddElement, FS_CardinalityType
<1>9. Cardinality(Discovered(w)) <= Cardinality(Discovered(rows) \cup {a}) /\ Cardinality(Discovered(w)) \in Nat
  BY <1>6, <1>8, FS_Subset, FS_CardinalityType
<1>10. Cardinality(Discovered(w)) <= MaxDiscovered + 1
  BY <1>7, <1>8, <1>9, StatusAssumption DEF Fits
<1> QED BY <1>5, <1>10 DEF w

\* capDiscovered takes it out again.
LEMMA CappedHolds ==
  ASSUME NEW r, Rows(r), Cardinality(Discovered(r)) <= MaxDiscovered + 1, NEW q \in Capped(r)
  PROVE  Rows(q) /\ Fits(q)
<1>1. CASE Cardinality(Discovered(r)) <= MaxDiscovered
  BY <1>1 DEF Capped, Fits
<1>2. CASE ~(Cardinality(Discovered(r)) <= MaxDiscovered)
  <2>1. PICK a \in Discovered(r) : q = Restrict(r, DOMAIN r \ {a})
    BY <1>2 DEF Capped
  <2>2. q = [b \in DOMAIN r \ {a} |-> r[b]]
    BY <2>1 DEF Restrict
  <2>3. DOMAIN q = DOMAIN r \ {a} /\ \A b \in DOMAIN q : q[b] = r[b]
    BY <2>2
  <2>4. IsFiniteSet(DOMAIN q) /\ q = [b \in DOMAIN q |-> q[b]]
    BY <2>2, <2>3, FS_RemoveElement DEF Rows
  <2>5. Rows(q)
    BY <2>3, <2>4 DEF Rows
  <2>6. Discovered(q) = Discovered(r) \ {a}
    BY <2>3 DEF Discovered
  <2>7. IsFiniteSet(Discovered(r)) /\ Cardinality(Discovered(r)) \in Nat
    BY DiscoveredFinite DEF Rows
  <2>8. Cardinality(Discovered(q)) = Cardinality(Discovered(r)) - 1
    BY <2>1, <2>6, <2>7, FS_RemoveElement
  <2> QED BY <2>5, <2>7, <2>8, StatusAssumption DEF Fits
<1> QED BY <1>1, <1>2

LEMMA WasIsRow == ASSUME Rows(rows), NEW a PROVE Was(a) \in Row /\ RowShows(Was(a))
  BY DEF Was, Rows, Row, RowShows

LEMMA MarkHolds ==
  ASSUME StatusInv, NEW a, NEW o \in {"configured", "discovered"}, MarkPending(a, o)
  PROVE  StatusInv'
<1> DEFINE row == [origin |-> Origin(a, o), status |-> "pending", proven |-> Was(a).proven,
                   hidden |-> HiddenFor(Origin(a, o), Was(a).hidden)]
<1>1. Was(a) \in Row
  BY WasIsRow DEF StatusInv
<1>2. Origin(a, o) \in {"configured", "discovered"} /\ Was(a).proven \in StatusPeers \cup {Nobody}
  BY <1>1 DEF Origin, Row
<1>3. HiddenFor(Origin(a, o), Was(a).hidden) \in BOOLEAN
  BY DEF HiddenFor
<1>4. row \in Row
  BY <1>2, <1>3 DEF Row
<1>5. row.origin = Origin(a, o) /\ (row.hidden <=> HiddenFor(Origin(a, o), Was(a).hidden))
  OBVIOUS
<1>6. RowShows(row)
  BY <1>5 DEF RowShows, HiddenFor
<1>7. PICK r \in Capped(With(a, row)) : Changed(r)
  BY DEF MarkPending
<1> HIDE DEF row
<1>8. Rows(r) /\ Fits(r)
  BY <1>4, <1>6, <1>7, WithHolds, CappedHolds DEF StatusInv
<1> QED BY <1>7, <1>8, ChangeHolds

LEMMA OutcomeHolds ==
  ASSUME StatusInv, NEW a, NEW o \in {"configured", "discovered"}, NEW status \in {"connected", "error"},
         NEW who \in StatusPeers \cup {Nobody}, NEW verified \in BOOLEAN, RecordOutcome(a, o, status, who, verified)
  PROVE  StatusInv'
<1> DEFINE proven == IF who # Nobody THEN who ELSE Was(a).proven
           reveals == status = "connected" /\ (verified \/ proven \in members)
           row == [origin |-> Origin(a, o), status |-> status, proven |-> proven,
                   hidden |-> HiddenFor(Origin(a, o), ~reveals /\ Was(a).hidden)]
<1>1. Was(a) \in Row
  BY WasIsRow DEF StatusInv
<1>2. Origin(a, o) \in {"configured", "discovered"} /\ proven \in StatusPeers \cup {Nobody}
  BY <1>1 DEF Origin, Row
<1>3. HiddenFor(Origin(a, o), ~reveals /\ Was(a).hidden) \in BOOLEAN
  BY DEF HiddenFor
<1>4. PICK r \in Capped(With(a, row)) : Changed(r)
  BY DEF RecordOutcome
<1> HIDE DEF proven, reveals
<1>5. row \in Row
  BY <1>2, <1>3 DEF Row
<1>6. row.origin = Origin(a, o) /\ (row.hidden <=> HiddenFor(Origin(a, o), ~reveals /\ Was(a).hidden))
  OBVIOUS
<1>7. RowShows(row)
  BY <1>6 DEF RowShows, HiddenFor
<1> HIDE DEF row
<1>8. Rows(r) /\ Fits(r)
  BY <1>4, <1>5, <1>7, WithHolds, CappedHolds DEF StatusInv
<1> QED BY <1>4, <1>8, ChangeHolds

\* A discovered row may be hidden or shown.
LEMMA HidingHolds ==
  ASSUME NEW row \in Row, RowShows(row), row.origin = "discovered"
  PROVE  /\ [row EXCEPT !.hidden = FALSE] \in Row /\ RowShows([row EXCEPT !.hidden = FALSE])
         /\ [row EXCEPT !.hidden = FALSE].origin = row.origin
         /\ [row EXCEPT !.hidden = TRUE] \in Row /\ RowShows([row EXCEPT !.hidden = TRUE])
         /\ [row EXCEPT !.hidden = TRUE].origin = row.origin
<1>1. [row EXCEPT !.hidden = FALSE] \in Row /\ [row EXCEPT !.hidden = FALSE].origin = row.origin
  BY DEF Row
<1>2. [row EXCEPT !.hidden = TRUE] \in Row /\ [row EXCEPT !.hidden = TRUE].origin = row.origin
  BY DEF Row
<1> QED BY <1>1, <1>2 DEF RowShows

LEMMA MemberHolds ==
  ASSUME StatusInv, NEW p, RecordNetworkMember(p)
  PROVE  StatusInv'
<1> DEFINE its == {a \in Discovered(rows) : rows[a].proven = p}
           r == [a \in DOMAIN rows |-> IF a \in its THEN [rows[a] EXCEPT !.hidden = FALSE] ELSE rows[a]]
<1>1. CASE UNCHANGED statusVars
  BY <1>1 DEF statusVars, StatusInv, Rows, Fits, FrameType, NothingHeldBack, Told
<1>2. CASE Changed(r)
  <2>1. \A a \in DOMAIN rows : r[a] \in Row /\ RowShows(r[a]) /\ r[a].origin = rows[a].origin
    BY HidingHolds DEF Discovered, StatusInv, Rows
  <2> HIDE DEF its
  <2>2. r = [a \in DOMAIN rows |-> r[a]]
    OBVIOUS
  <2> HIDE DEF r
  <2>3. Rows(r) /\ Fits(r)
    BY <2>1, <2>2, RowsChange DEF StatusInv
  <2> QED BY <1>2, <2>3, ChangeHolds
<1> QED BY <1>1, <1>2 DEF RecordNetworkMember

LEMMA AddressHolds ==
  ASSUME StatusInv, NEW a, NEW status \in {"connected", "error"}, RecordAddress(a, status)
  PROVE  StatusInv'
<1> DEFINE r == [rows EXCEPT ![a].status = status]
<1>1. a \in DOMAIN rows /\ Changed(r)
  BY DEF RecordAddress
<1>2. rows[a] \in Row /\ RowShows(rows[a])
  BY <1>1 DEF StatusInv, Rows
<1>3. [rows[a] EXCEPT !.status = status] \in Row
  BY <1>2 DEF Row
<1>4. /\ [rows[a] EXCEPT !.status = status].origin = rows[a].origin
      /\ [rows[a] EXCEPT !.status = status].hidden = rows[a].hidden
  BY <1>2 DEF Row
<1>5. RowShows([rows[a] EXCEPT !.status = status])
  BY <1>2, <1>4 DEF RowShows
<1>6. r = [b \in DOMAIN rows |-> IF b = a THEN [rows[a] EXCEPT !.status = status] ELSE rows[b]]
  BY <1>1 DEF StatusInv, Rows
<1> HIDE DEF r
<1>7. \A b \in DOMAIN rows : r[b] \in Row /\ RowShows(r[b]) /\ r[b].origin = rows[b].origin
  BY <1>3, <1>4, <1>5, <1>6 DEF StatusInv, Rows
<1>8. r = [b \in DOMAIN rows |-> r[b]]
  BY <1>6
<1>9. Rows(r) /\ Fits(r)
  BY <1>7, <1>8, RowsChange DEF StatusInv
<1> QED BY <1>1, <1>9, ChangeHolds

LEMMA RemovedHolds ==
  ASSUME StatusInv, NEW gone, Changed(Removed(rows, gone))
  PROVE  StatusInv'
<1> DEFINE D == DOMAIN rows \ {b \in gone : rows[b].origin = "configured"}
           r == Removed(rows, gone)
<1>1. r = [a \in D |-> IF a \in gone THEN [rows[a] EXCEPT !.hidden = TRUE] ELSE rows[a]]
  BY DEF Removed
<1>2. \A a \in D : rows[a] \in Row /\ RowShows(rows[a]) /\ (a \in gone => rows[a].origin = "discovered")
  BY DEF StatusInv, Rows, Row
<1>3. D \in SUBSET (DOMAIN rows)
  OBVIOUS
<1> HIDE DEF r, D
<1>4. \A a \in D : r[a] \in Row /\ RowShows(r[a]) /\ r[a].origin = rows[a].origin
  BY <1>1, <1>2, HidingHolds
<1>5. r = [a \in D |-> r[a]]
  BY <1>1
<1>6. Rows(r) /\ Fits(r)
  BY <1>3, <1>4, <1>5, RowsChange DEF StatusInv
<1> QED BY <1>6, ChangeHolds DEF r

LEMMA SweepHolds ==
  ASSUME StatusInv, SweepStale
  PROVE  StatusInv'
<1>1. CASE UNCHANGED statusVars
  BY <1>1 DEF statusVars, StatusInv, Rows, Fits, FrameType, NothingHeldBack, Told
<1>2. CASE ~UNCHANGED statusVars
  <2>1. PICK old \in SUBSET Discovered(rows) :
          LET ofMembers == {a \in Discovered(rows) : rows[a].proven \in members}
              hides == {a \in old \ ofMembers : ~rows[a].hidden}
              r == [a \in DOMAIN rows |-> IF a \in ofMembers THEN [rows[a] EXCEPT !.hidden = FALSE]
                                          ELSE IF a \in hides THEN [rows[a] EXCEPT !.hidden = TRUE] ELSE rows[a]]
          IN  Changed(r)
    BY <1>2 DEF SweepStale
  <2> DEFINE ofMembers == {a \in Discovered(rows) : rows[a].proven \in members}
             hides == {a \in old \ ofMembers : ~rows[a].hidden}
             r == [a \in DOMAIN rows |-> IF a \in ofMembers THEN [rows[a] EXCEPT !.hidden = FALSE]
                                         ELSE IF a \in hides THEN [rows[a] EXCEPT !.hidden = TRUE] ELSE rows[a]]
  <2>2. Changed(r)
    BY <2>1
  <2>3. \A a \in ofMembers \cup hides : rows[a].origin = "discovered"
    BY DEF Discovered
  <2> HIDE DEF ofMembers, hides
  <2>4. \A a \in DOMAIN rows : r[a] \in Row /\ RowShows(r[a]) /\ r[a].origin = rows[a].origin
    BY <2>3, HidingHolds DEF StatusInv, Rows
  <2>5. r = [a \in DOMAIN rows |-> r[a]]
    OBVIOUS
  <2> HIDE DEF r
  <2>6. Rows(r) /\ Fits(r)
    BY <2>4, <2>5, RowsChange DEF StatusInv
  <2> QED BY <2>2, <2>6, ChangeHolds
<1> QED BY <1>1, <1>2

LEMMA PruneHolds ==
  ASSUME StatusInv, NEW keep, PruneEntries(keep)
  PROVE  StatusInv'
<1> DEFINE D == {a \in DOMAIN rows : rows[a].origin # "configured" \/ a \in keep}
           r == Restrict(rows, D)
<1>1. Changed(r) /\ D \in SUBSET (DOMAIN rows)
  BY DEF PruneEntries
<1>2. r = [a \in D |-> rows[a]]
  BY DEF Restrict
<1> HIDE DEF r, D
<1>3. \A a \in D : r[a] \in Row /\ RowShows(r[a]) /\ r[a].origin = rows[a].origin
  BY <1>1, <1>2 DEF StatusInv, Rows
<1>4. r = [a \in D |-> r[a]]
  BY <1>2
<1>5. Rows(r) /\ Fits(r)
  BY <1>1, <1>3, <1>4, RowsChange DEF StatusInv
<1> QED BY <1>1, <1>5, ChangeHolds

LEMMA NoRows == Rows(<<>>) /\ Fits(<<>>)
<1>1. DOMAIN <<>> = {} /\ <<>> = [a \in DOMAIN <<>> |-> <<>>[a]]
  OBVIOUS
<1>2. Discovered(<<>>) = {}
  BY <1>1 DEF Discovered
<1> QED BY <1>1, <1>2, FS_EmptySet, StatusAssumption DEF Rows, Fits

\* The frames: opened, flushed, closed, or lost with the node.
LEMMA FramesHold ==
  ASSUME StatusInv, NEW d \in Dialers, OpenFrame(d) \/ Flush(d) \/ CloseFrame(d)
  PROVE  StatusInv'
<1> USE DEF StatusInv, FrameType, NothingHeldBack, Told, NoFrame
<1>1. UNCHANGED rows
  BY DEF OpenFrame, Flush, CloseFrame
<1>2. (Rows(rows) /\ Fits(rows))'
  BY <1>1 DEF Rows, Fits
<1>3. CASE OpenFrame(d)
  <2>1. shown' = shown
    BY <1>3 DEF OpenFrame
  <2>2. CASE frame.id # 0
    <3>1. frame' = frame
      BY <1>3, <2>2 DEF OpenFrame
    <3> QED BY <1>1, <1>2, <2>1, <3>1
  <2>3. CASE frame.id = 0
    <3>1. PICK n : frame' = [id |-> n, dirty |-> FALSE]
      BY <1>3, <2>3 DEF OpenFrame
    <3>2. frame'.dirty = FALSE /\ frame' = [id |-> frame'.id, dirty |-> frame'.dirty]
      BY <3>1
    <3>3. ~frame.dirty
      BY <2>3
    <3>4. Told'
      BY <1>1, <2>1, <3>3
    <3> QED BY <1>2, <3>2, <3>4
  <2> QED BY <2>2, <2>3
<1>4. CASE Flush(d)
  <2>1. frame' = [frame EXCEPT !.dirty = FALSE] /\ shown' = Visible(rows)
    BY <1>4 DEF Flush
  <2>2. frame' = [id |-> frame.id, dirty |-> FALSE]
    BY <2>1
  <2>3. frame'.dirty = FALSE /\ frame' = [id |-> frame'.id, dirty |-> frame'.dirty]
    BY <2>2
  <2>4. Told'
    BY <1>1, <2>1
  <2> QED BY <1>2, <2>3, <2>4
<1>5. CASE CloseFrame(d)
  <2>1. CASE UNCHANGED <<frame, shown>>
    BY <1>1, <1>2, <2>1
  <2>2. CASE frame' = NoFrame /\ shown' = IF frame.dirty THEN Visible(rows) ELSE shown
    <3>1. frame'.dirty = FALSE /\ frame' = [id |-> frame'.id, dirty |-> frame'.dirty]
      BY <2>2
    <3>2. Told'
      BY <1>1, <2>2
    <3> QED BY <1>2, <3>1, <3>2
  <2> QED BY <1>5, <2>1, <2>2 DEF CloseFrame
<1> QED BY <1>3, <1>4, <1>5

LEMMA StatusHoldsAlways == StatusSpec => []StatusInv
<1>1. StatusInit => StatusInv
  <2> SUFFICES ASSUME StatusInit PROVE StatusInv
    OBVIOUS
  <2>1. rows = <<>> /\ frame = NoFrame /\ shown = Untold
    BY DEF StatusInit
  <2>2. FrameType /\ NothingHeldBack /\ Told
    BY <2>1 DEF FrameType, NothingHeldBack, Told, NoFrame
  <2> QED BY <2>1, <2>2, NoRows DEF StatusInv
<1>2. StatusInv /\ [StatusNext]_statusVars => StatusInv'
  <2> SUFFICES ASSUME StatusInv, [StatusNext]_statusVars PROVE StatusInv'
    OBVIOUS
  <2>1. ASSUME NEW d \in Dialers, OpenFrame(d) \/ Flush(d) \/ CloseFrame(d) PROVE StatusInv'
    BY <2>1, FramesHold
  <2>2. ASSUME NEW d \in Dialers, Dials(d) PROVE StatusInv'
    <3>1. PICK a \in Addrs, o \in {"configured", "discovered"} :
            \/ MarkPending(a, o)
            \/ \E who \in StatusPeers, verified \in BOOLEAN : RecordOutcome(a, o, "connected", who, verified)
            \/ \E who \in StatusPeers \cup {Nobody} : RecordOutcome(a, o, "error", who, TRUE)
      BY <2>2 DEF Dials
    <3>2. CASE MarkPending(a, o)
      BY <3>2, MarkHolds
    <3>3. CASE \E who \in StatusPeers, verified \in BOOLEAN : RecordOutcome(a, o, "connected", who, verified)
      BY <3>3, OutcomeHolds
    <3>4. CASE \E who \in StatusPeers \cup {Nobody} : RecordOutcome(a, o, "error", who, TRUE)
      BY <3>4, OutcomeHolds
    <3> QED BY <3>1, <3>2, <3>3, <3>4
  <2>3. ASSUME NEW p \in StatusPeers, RecordNetworkMember(p) PROVE StatusInv'
    BY <2>3, MemberHolds
  <2>4. ASSUME NEW p \in StatusPeers, DeleteDiscovered(p) PROVE StatusInv'
    BY <2>4, RemovedHolds DEF DeleteDiscovered
  <2>5. ASSUME NEW a \in Addrs, DeletePeer(a) PROVE StatusInv'
    BY <2>5, RemovedHolds DEF DeletePeer
  <2>6. ASSUME NEW a \in Addrs, NEW status \in {"connected", "error"}, RecordAddress(a, status) PROVE StatusInv'
    BY <2>6, AddressHolds
  <2>7. CASE SweepStale
    BY <2>7, SweepHolds
  <2>8. CASE ResetNetwork
    BY <2>8, NoRows, ChangeHolds DEF ResetNetwork
  <2>9. CASE Clear
    <3>1. rows' = <<>> /\ frame' = NoFrame /\ shown' = Untold
      BY <2>9 DEF Clear
    <3>2. (FrameType /\ NothingHeldBack /\ Told)'
      BY <3>1 DEF FrameType, NothingHeldBack, Told, NoFrame
    <3> QED BY <3>1, <3>2, NoRows DEF StatusInv, Rows, Fits
  <2>10. CASE UNCHANGED <<rows, frame, shown>>
    BY <2>10 DEF StatusInv, Rows, Fits, FrameType, NothingHeldBack, Told
  <2>11. CASE MembersChange
    BY <2>10, <2>11 DEF MembersChange
  <2>12. ASSUME NEW keep \in SUBSET Addrs, PruneEntries(keep) PROVE StatusInv'
    BY <2>12, PruneHolds
  <2>13. CASE UNCHANGED statusVars
    BY <2>10, <2>13 DEF statusVars
  <2> QED BY <2>1, <2>2, <2>3, <2>4, <2>5, <2>6, <2>7, <2>8, <2>9, <2>11, <2>12, <2>13 DEF StatusNext
<1> QED BY <1>1, <1>2, PTL DEF StatusSpec

\* Observers know the rows there are to see, what the user configured is shown, and what gossip
\* found stays within its limit (bootstrap-status.ts).
THEOREM StatusCorrect == StatusSpec => []StatusHolds
<1>1. StatusInv => ShownIsVisible
  BY DEF StatusInv, NothingHeldBack, Told, ShownIsVisible
<1>2. StatusInv => ConfiguredIsShown
  BY DEF StatusInv, Rows, Fits, RowShows, ConfiguredIsShown
<1> QED BY <1>1, <1>2, StatusHoldsAlways, PTL DEF StatusHolds

-----------------------------------------------------------------------------
(* The speed limiter: whoever waits has a timer.                           *)

LineType == [limited : BOOLEAN, pending : Seq(Clients), timer : BOOLEAN, released : SUBSET Clients,
             last : Clients \cup {NoSlot}]
Timed(l) == l.pending # <<>> => l.timer /\ l.limited
LimiterInv == limiter \in LineType /\ Timed(limiter)

LEMMA UntimedIsLine ==
  ASSUME NEW l \in LineType
  PROVE  /\ Untimed(l) \in LineType /\ Untimed(l).pending = l.pending
         /\ ~Untimed(l).timer /\ Untimed(l).limited = l.limited
<1>1. [l EXCEPT !.timer = FALSE] \in LineType
  BY DEF LineType
<1>2. [l EXCEPT !.timer = FALSE].pending = l.pending /\ [l EXCEPT !.timer = FALSE].limited = l.limited
  BY DEF LineType
<1>3. [l EXCEPT !.timer = FALSE].timer = FALSE
  BY DEF LineType
<1> QED BY <1>1, <1>2, <1>3 DEF Untimed

\* What a line looks like when somebody joins it, when callers leave it and when its timer is set.
LEMMA LineJoined ==
  ASSUME NEW l \in LineType, NEW q \in Seq(Clients)
  PROVE  /\ [l EXCEPT !.pending = q] \in LineType
         /\ [l EXCEPT !.pending = q].limited = l.limited
<1>1. [l EXCEPT !.pending = q] \in LineType
  BY DEF LineType
<1>2. [l EXCEPT !.pending = q].limited = l.limited
  BY DEF LineType
<1> QED BY <1>1, <1>2

LEMMA LineLeft ==
  ASSUME NEW l \in LineType, NEW q \in Seq(Clients), NEW R \in SUBSET Clients
  PROVE  /\ [l EXCEPT !.pending = q, !.released = @ \cup R] \in LineType
         /\ [l EXCEPT !.pending = q, !.released = @ \cup R].pending = q
<1>1. [l EXCEPT !.pending = q, !.released = @ \cup R] \in LineType
  BY DEF LineType
<1>2. [l EXCEPT !.pending = q, !.released = @ \cup R].pending = q
  BY DEF LineType
<1> QED BY <1>1, <1>2

LEMMA LineReleased ==
  ASSUME NEW l \in LineType, NEW R \in SUBSET Clients
  PROVE  /\ [l EXCEPT !.released = R] \in LineType
         /\ [l EXCEPT !.released = R].pending = l.pending
         /\ [l EXCEPT !.released = R].timer = l.timer
         /\ [l EXCEPT !.released = R].limited = l.limited
<1>1. [l EXCEPT !.released = R] \in LineType
  BY DEF LineType
<1>2. [l EXCEPT !.released = R].pending = l.pending
  BY DEF LineType
<1>3. [l EXCEPT !.released = R].timer = l.timer
  BY DEF LineType
<1>4. [l EXCEPT !.released = R].limited = l.limited
  BY DEF LineType
<1> QED BY <1>1, <1>2, <1>3, <1>4

LEMMA LineTimer ==
  ASSUME NEW l \in LineType, NEW b \in BOOLEAN
  PROVE  /\ [l EXCEPT !.timer = b] \in LineType
         /\ [l EXCEPT !.timer = b].pending = l.pending
         /\ [l EXCEPT !.timer = b].timer = b
         /\ [l EXCEPT !.timer = b].limited = l.limited
<1>1. [l EXCEPT !.timer = b] \in LineType
  BY DEF LineType
<1>2. [l EXCEPT !.timer = b].pending = l.pending
  BY DEF LineType
<1>3. [l EXCEPT !.timer = b].timer = b
  BY DEF LineType
<1>4. [l EXCEPT !.timer = b].limited = l.limited
  BY DEF LineType
<1> QED BY <1>1, <1>2, <1>3, <1>4

LEMMA LineLimit ==
  ASSUME NEW l \in LineType, NEW b \in BOOLEAN
  PROVE  /\ [l EXCEPT !.limited = b, !.last = NoSlot] \in LineType
<1>1. [l EXCEPT !.limited = b, !.last = NoSlot] \in LineType
  BY DEF LineType
<1> QED BY <1>1

LEMMA LineRefund ==
  ASSUME NEW l \in LineType
  PROVE  [l EXCEPT !.last = NoSlot] \in LineType
<1>1. [l EXCEPT !.last = NoSlot] \in LineType
  BY DEF LineType
<1> QED BY <1>1

LEMMA LineFields ==
  ASSUME NEW l \in LineType
  PROVE  /\ l.limited \in BOOLEAN /\ l.timer \in BOOLEAN /\ l.pending \in Seq(Clients)
         /\ l.released \in SUBSET Clients /\ l.last \in Clients \cup {NoSlot}
  BY DEF LineType

\* What is left of a line after its first n callers, and its end.
LEMMA LineRest ==
  ASSUME NEW q \in Seq(Clients), NEW n \in 0..Len(q)
  PROVE  SubSeq(q, n + 1, Len(q)) \in Seq(Clients) /\ (n = Len(q) => SubSeq(q, n + 1, Len(q)) = <<>>)
<1>1. Len(q) \in Nat /\ n \in Nat /\ n + 1 \in Int /\ Len(q) \in Int
  BY LenProperties
<1>2. \A i \in (n + 1)..Len(q) : q[i] \in Clients
  BY <1>1, ElementOfSeq
<1>3. SubSeq(q, n + 1, Len(q)) \in Seq(Clients)
  BY <1>1, <1>2, SubSeqProperties
<1>4. n = Len(q) => SubSeq(q, n + 1, Len(q)) = <<>>
  BY <1>1, SubSeqEmpty
<1> QED BY <1>3, <1>4

LEMMA LineEmptied ==
  ASSUME NEW l \in LineType
  PROVE  /\ [l EXCEPT !.pending = <<>>, !.released = @ \cup Range(l.pending)] \in LineType
         /\ [l EXCEPT !.pending = <<>>, !.released = @ \cup Range(l.pending)].pending = <<>>
<1>1. l.pending \in Seq(Clients)
  BY LineFields
<1>2. Range(l.pending) \in SUBSET Clients /\ <<>> \in Seq(Clients)
  BY <1>1, RangeOfSeq, EmptySeq
<1> QED BY <1>2, LineLeft

\* scheduleNext leaves nobody without a timer.
LEMMA SchedulesTimed ==
  ASSUME NEW l \in LineType, l.timer /\ l.pending # <<>> => l.limited, NEW due \in Nat, NEW r \in Schedules(l, due)
  PROVE  r \in LineType /\ Timed(r)
<1>0. l.pending \in Seq(Clients) /\ l.released \in SUBSET Clients /\ l.last \in Clients \cup {NoSlot}
  BY LineFields
<1>1. CASE l.timer \/ l.pending = <<>>
  <2>1. r = l
    BY <1>1 DEF Schedules
  <2> QED BY <1>1, <2>1 DEF Timed
<1>2. CASE ~l.timer /\ l.pending # <<>> /\ ~l.limited
  <2>1. r = [l EXCEPT !.pending = <<>>, !.released = @ \cup Range(l.pending)]
    BY <1>2 DEF Schedules
  <2>2. r \in LineType /\ r.pending = <<>>
    BY <2>1, LineEmptied
  <2> QED BY <2>2 DEF Timed
<1>3. CASE ~l.timer /\ l.pending # <<>> /\ l.limited
  <2>1. PICK n \in due..Len(l.pending) : r = [Released(l, n) EXCEPT !.timer = n < Len(l.pending)]
    BY <1>3 DEF Schedules
  <2> DEFINE q == l.pending
             rest == SubSeq(q, n + 1, Len(q))
             out == Range(SubSeq(q, 1, n))
             lastOut == IF n = 0 THEN l.last ELSE q[n]
             more == n < Len(q)
  <2>2. Len(q) \in Nat /\ n \in 0..Len(q)
    BY <1>0, <2>1, LenProperties
  <2>3. rest \in Seq(Clients) /\ (~more => rest = <<>>)
    BY <1>0, <2>2, LineRest
  <2>4. out \in SUBSET Clients
    <3>1. \A i \in 1..n : q[i] \in Clients
      BY <1>0, <2>2, ElementOfSeq
    <3>2. SubSeq(q, 1, n) \in Seq(Clients)
      BY <2>2, <3>1, SubSeqProperties
    <3> QED BY <3>2, RangeOfSeq
  <2>5. lastOut \in Clients \cup {NoSlot}
    BY <1>0, <2>2, ElementOfSeq
  <2>6. Released(l, n) = [l EXCEPT !.pending = rest, !.released = @ \cup out, !.last = lastOut]
    BY DEF Released
  <2> HIDE DEF rest, out, lastOut
  <2> DEFINE e == [l EXCEPT !.pending = rest, !.released = @ \cup out, !.last = lastOut]
  <2>e. e \in LineType /\ e.pending = rest /\ e.limited = l.limited
    <3>1. e \in LineType
      BY <2>3, <2>4, <2>5 DEF LineType
    <3>2. e.pending = rest /\ e.limited = l.limited
      BY <2>3, <2>4, <2>5 DEF LineType
    <3> QED BY <3>1, <3>2
  <2> HIDE DEF e
  <2>7. Released(l, n) \in LineType /\ Released(l, n).pending = rest /\ Released(l, n).limited = l.limited
    BY <2>6, <2>e DEF e
  <2>8. more \in BOOLEAN
    OBVIOUS
  <2>9. r = [Released(l, n) EXCEPT !.timer = more]
    BY <2>1
  <2> HIDE DEF more
  <2>10. r \in LineType /\ r.pending = rest /\ r.timer = more /\ r.limited = l.limited
    BY <2>7, <2>8, <2>9, LineTimer
  <2> QED BY <1>3, <2>3, <2>10 DEF Timed
<1> QED BY <1>1, <1>2, <1>3

\* The same for a line whose timer was cleared.
LEMMA UntimedSchedules ==
  ASSUME NEW l \in LineType, NEW due \in Nat, NEW r \in Schedules(Untimed(l), due)
  PROVE  r \in LineType /\ Timed(r)
<1>1. Untimed(l) \in LineType /\ ~Untimed(l).timer
  BY UntimedIsLine
<1> QED BY <1>1, SchedulesTimed

LEMMA LineLetsGo ==
  ASSUME NEW q \in Seq(Clients), NEW i \in DOMAIN q
  PROVE  RemoveAt(q, i) \in Seq(Clients) /\ q[i] \in Clients
<1>1. Len(q) \in Nat /\ i \in 1..Len(q)
  BY LenProperties
<1>2. SubSeq(q, 1, i - 1) \in Seq(Clients)
  <2>1. \A k \in 1..(i - 1) : q[k] \in Clients
    BY <1>1, ElementOfSeq
  <2>2. 1 \in Int /\ i - 1 \in Int
    BY <1>1
  <2> QED BY <2>1, <2>2, SubSeqProperties
<1>3. SubSeq(q, i + 1, Len(q)) \in Seq(Clients)
  BY <1>1, LineRest
<1>4. q[i] \in Clients
  BY <1>1, ElementOfSeq
<1> QED BY <1>2, <1>3, <1>4, ConcatProperties DEF RemoveAt

LEMMA ThrottlesTimed ==
  ASSUME LimiterInv, NEW c \in Clients, Throttles(c)
  PROVE  LimiterInv'
<1>1. limiter \in LineType /\ limiter.pending \in Seq(Clients) /\ limiter.released \cup {c} \in SUBSET Clients
  BY LineFields DEF LimiterInv
<1>2. CASE ~limiter.limited
  <2>1. limiter' = [limiter EXCEPT !.released = limiter.released \cup {c}]
    BY <1>2 DEF Throttles
  <2>2. /\ limiter' \in LineType /\ limiter'.pending = limiter.pending /\ limiter'.timer = limiter.timer
        /\ limiter'.limited = limiter.limited
    BY <1>1, <2>1, LineReleased
  <2> QED BY <2>2 DEF LimiterInv, Timed
<1>3. CASE limiter.limited
  <2> DEFINE l == [limiter EXCEPT !.pending = Append(limiter.pending, c)]
  <2>1. limiter' \in Schedules(l, 0)
    BY <1>3 DEF Throttles
  <2>2. Append(limiter.pending, c) \in Seq(Clients)
    BY <1>1, AppendProperties
  <2>3. l \in LineType /\ l.limited = limiter.limited
    BY <1>1, <2>2, LineJoined
  <2> HIDE DEF l
  <2> QED BY <1>3, <2>1, <2>3, SchedulesTimed DEF LimiterInv
<1> QED BY <1>2, <1>3

LEMMA SetLimitTimed ==
  ASSUME LimiterInv, NEW limited \in BOOLEAN, SetLimit(limited)
  PROVE  LimiterInv'
<1> DEFINE l == [limiter EXCEPT !.limited = limited, !.last = NoSlot]
<1>1. l \in LineType
  BY LineLimit DEF LimiterInv
<1>2. \E due \in Nat : limiter' \in Schedules(Untimed(l), due)
  BY DEF SetLimit
<1> HIDE DEF l
<1> QED BY <1>1, <1>2, UntimedSchedules DEF LimiterInv

LEMMA ResetsTimed == LimiterInv /\ Resets => LimiterInv'
  BY SetLimitTimed, LineFields DEF Resets, LimiterInv

LEMMA TimerTimed == LimiterInv /\ TimerFires => LimiterInv'
  BY UntimedSchedules DEF TimerFires, LimiterInv

LEMMA AbortTimed ==
  ASSUME LimiterInv, NEW c \in Clients, AbortsWait(c)
  PROVE  LimiterInv'
<1>1. CASE UNCHANGED limiter
  BY <1>1 DEF LimiterInv
<1>2. CASE ~UNCHANGED limiter
  <2>1. PICK i \in DOMAIN limiter.pending : limiter' \in Schedules(Untimed(LetGo(i)), 0)
    BY <1>2 DEF AbortsWait
  <2>2. RemoveAt(limiter.pending, i) \in Seq(Clients) /\ {limiter.pending[i]} \in SUBSET Clients
    BY LineLetsGo, LineFields DEF LimiterInv
  <2>3. LetGo(i) \in LineType
    BY <2>2, LineLeft DEF LetGo, LimiterInv
  <2> QED BY <2>1, <2>3, UntimedSchedules DEF LimiterInv
<1> QED BY <1>1, <1>2

LEMMA RefundTimed ==
  ASSUME LimiterInv, NEW c \in Clients, Refunds(c)
  PROVE  LimiterInv'
<1> DEFINE l == [limiter EXCEPT !.last = NoSlot]
<1>1. l \in LineType
  BY LineRefund DEF LimiterInv
<1>2. \/ UNCHANGED limiter
      \/ limiter' \in Schedules(Untimed(l), 0)
  BY DEF Refunds
<1> HIDE DEF l
<1> QED BY <1>1, <1>2, UntimedSchedules DEF LimiterInv

\* A caller that was let go has gone on.
LEMMA GoneOnTimed ==
  ASSUME LimiterInv, NEW c, limiter' = [limiter EXCEPT !.released = @ \ {c}]
  PROVE  LimiterInv'
<1>1. limiter.released \ {c} \in SUBSET Clients
  BY LineFields DEF LimiterInv
<1>2. /\ limiter' \in LineType /\ limiter'.pending = limiter.pending /\ limiter'.timer = limiter.timer
      /\ limiter'.limited = limiter.limited
  BY <1>1, LineReleased DEF LimiterInv
<1> QED BY <1>2 DEF LimiterInv, Timed

LEMMA NewLimiterTimed == NewLimiter \in LineType /\ Timed(NewLimiter)
  BY EmptySeq DEF NewLimiter, LineType, Timed

LEMMA LimiterHolds == LimiterSpec => []LimiterInv
<1>1. LimiterInit => LimiterInv
  BY NewLimiterTimed DEF LimiterInit, LimiterInv
<1>2. LimiterInv /\ [LimiterNext]_limiter => LimiterInv'
  <2> SUFFICES ASSUME LimiterInv, [LimiterNext]_limiter PROVE LimiterInv'
    OBVIOUS
  <2>1. ASSUME NEW limited \in BOOLEAN, SetLimit(limited) PROVE LimiterInv'
    BY <2>1, SetLimitTimed
  <2>2. ASSUME NEW c \in Clients, Throttles(c) PROVE LimiterInv'
    BY <2>2, ThrottlesTimed
  <2>3. ASSUME NEW c \in Clients, AbortsWait(c) PROVE LimiterInv'
    BY <2>3, AbortTimed
  <2>4. ASSUME NEW c \in Clients, Refunds(c) PROVE LimiterInv'
    BY <2>4, RefundTimed
  <2>5. ASSUME NEW c \in Clients, limiter' = [limiter EXCEPT !.released = @ \ {c}] PROVE LimiterInv'
    BY <2>5, GoneOnTimed
  <2>6. CASE UNCHANGED limiter
    BY <2>6 DEF LimiterInv
  <2> QED BY <2>1, <2>2, <2>3, <2>4, <2>5, <2>6, ResetsTimed, TimerTimed DEF LimiterNext
<1> QED BY <1>1, <1>2, PTL DEF LimiterSpec

-----------------------------------------------------------------------------
(* What is shown of a peer.                                                *)

EntryType == [on : BOOLEAN, type : Connection, total : Nat, idle : {"fresh", "stale", "dead"}, made : Nat]
TrackerType == entries \in [Direction -> EntryType] /\ cumulative \in [Direction -> Nat]
TotalsGoOn == \A d \in Direction : entries[d].on => entries[d].total = cumulative[d]
TrackerInv == TrackerType /\ TotalsGoOn

LEMMA NextPlaceType == NextPlace \in Nat
<1>1. IsFiniteSet({"download"})
  BY FS_Singleton
<1>2. IsFiniteSet({"download"} \cup {"upload"})
  BY <1>1, FS_AddElement
<1>3. Direction = {"download"} \cup {"upload"}
  BY DEF Direction
<1>4. {d \in Direction : entries[d].on} \in SUBSET Direction
  OBVIOUS
<1>5. IsFiniteSet({d \in Direction : entries[d].on})
  BY <1>2, <1>3, <1>4, FS_Subset
<1>6. Cardinality({d \in Direction : entries[d].on}) \in Nat
  BY <1>5, FS_CardinalityType
<1> QED BY <1>6 DEF NextPlace

LEMMA MadeIsEntry ==
  ASSUME TrackerInv, NEW d \in Direction, NEW t \in Connection
  PROVE  Made(d, t) \in EntryType /\ Made(d, t).total = cumulative[d]
  BY NextPlaceType DEF Made, EntryType, TrackerInv, TrackerType

\* What a second entry makes of what is shown of the first.
LEMMA DownloadJoins ==
  ASSUME NEW u \in EntryType, NEW d \in EntryType, NEW b \in BOOLEAN, b = (u.idle # "fresh")
  PROVE  Merged(View("upload", u), "download", d) =
           [on |-> TRUE, type |-> IF d.type = "DCUtR" \/ (d.type = "RELAY" /\ u.type = "DIRECT") THEN d.type ELSE u.type,
            stale |-> b /\ d.idle # "fresh", down |-> d.total, up |-> u.total]
<1> DEFINE a == View("upload", u)
<1>1. a = [on |-> TRUE, type |-> u.type, stale |-> b, down |-> 0, up |-> u.total]
  BY DEF View
<1> HIDE DEF a
<1>2. Merged(a, "download", d) =
           [on |-> TRUE, type |-> IF d.type = "DCUtR" \/ (d.type = "RELAY" /\ u.type = "DIRECT") THEN d.type ELSE u.type,
            stale |-> b /\ d.idle # "fresh", down |-> d.total, up |-> u.total]
  BY <1>1 DEF Merged
<1> QED BY <1>2 DEF a

LEMMA UploadJoins ==
  ASSUME NEW u \in EntryType, NEW d \in EntryType, NEW b \in BOOLEAN, b = (d.idle # "fresh")
  PROVE  Merged(View("download", d), "upload", u) =
           [on |-> TRUE, type |-> IF u.type = "DCUtR" \/ (u.type = "RELAY" /\ d.type = "DIRECT") THEN u.type ELSE d.type,
            stale |-> b /\ u.idle # "fresh", down |-> d.total, up |-> u.total]
<1> DEFINE a == View("download", d)
<1>1. a = [on |-> TRUE, type |-> d.type, stale |-> b, down |-> d.total, up |-> 0]
  BY DEF View
<1> HIDE DEF a
<1>2. Merged(a, "upload", u) =
           [on |-> TRUE, type |-> IF u.type = "DCUtR" \/ (u.type = "RELAY" /\ d.type = "DIRECT") THEN u.type ELSE d.type,
            stale |-> b /\ u.idle # "fresh", down |-> d.total, up |-> u.total]
  BY <1>1 DEF Merged
<1> QED BY <1>2 DEF a

\* Which of the two directions comes first makes no difference.
LEMMA OrderIsNothing ==
  ASSUME NEW from \in [Direction -> EntryType]
  PROVE  MergeAll("upload", "download", from) = MergeAll("download", "upload", from)
<1> DEFINE u == from["upload"]
           d == from["download"]
<1>1. u \in EntryType /\ d \in EntryType
  BY DEF Direction
<1>2. CASE ~u.on \/ ~d.on
  BY <1>2 DEF MergeAll, Joined
<1>3. CASE u.on /\ d.on
  <2>1. Merged(NothingShown, "upload", u) = View("upload", u) /\ Merged(NothingShown, "download", d) = View("download", d)
    BY DEF Merged, NothingShown
  <2>2. /\ MergeAll("upload", "download", from) = Merged(View("upload", u), "download", d)
        /\ MergeAll("download", "upload", from) = Merged(View("download", d), "upload", u)
    BY <1>3, <2>1 DEF MergeAll, Joined
  <2> DEFINE best == IF d.type = "DCUtR" \/ (d.type = "RELAY" /\ u.type = "DIRECT") THEN d.type ELSE u.type
             other == IF u.type = "DCUtR" \/ (u.type = "RELAY" /\ d.type = "DIRECT") THEN u.type ELSE d.type
  <2>a. PICK bu \in BOOLEAN, bd \in BOOLEAN : bu = (u.idle # "fresh") /\ bd = (d.idle # "fresh")
    OBVIOUS
  <2> DEFINE both == bu /\ d.idle # "fresh"
             turned == bd /\ u.idle # "fresh"
  <2>3. Merged(View("upload", u), "download", d) = [on |-> TRUE, type |-> best, stale |-> both, down |-> d.total, up |-> u.total]
    BY <1>1, <2>a, DownloadJoins
  <2>4. Merged(View("download", d), "upload", u) = [on |-> TRUE, type |-> other, stale |-> turned, down |-> d.total, up |-> u.total]
    BY <1>1, <2>a, UploadJoins
  <2>5. best = other
    BY <1>1 DEF EntryType, Connection
  <2>6. both = turned
    BY <2>a
  <2> HIDE DEF best, other, both, turned
  <2> QED BY <2>2, <2>3, <2>4, <2>5, <2>6
<1> QED BY <1>2, <1>3

LEMMA CountedIsEntry ==
  ASSUME NEW e \in EntryType
  PROVE  /\ [e EXCEPT !.total = @ + 1, !.idle = "fresh"] \in EntryType
         /\ [e EXCEPT !.total = @ + 1, !.idle = "fresh"].total = e.total + 1 /\ e.total + 1 \in Nat
<1>1. e.total + 1 \in Nat
  BY DEF EntryType
<1>2. [e EXCEPT !.total = e.total + 1, !.idle = "fresh"] \in EntryType
  BY <1>1 DEF EntryType
<1>3. [e EXCEPT !.total = e.total + 1, !.idle = "fresh"].total = e.total + 1
  BY DEF EntryType
<1> QED BY <1>1, <1>2, <1>3

\* One entry changes, and keeps its total unless its bytes are counted with it.
LEMMA EntryChange ==
  ASSUME TrackerInv, NEW d \in Direction, NEW e \in EntryType, NEW n \in Nat, e.on => e.total = n,
         entries' = [entries EXCEPT ![d] = e], cumulative' = [cumulative EXCEPT ![d] = n]
  PROVE  TrackerInv'
  BY DEF TrackerInv, TrackerType, TotalsGoOn

LEMMA EntryKept ==
  ASSUME TrackerInv, NEW d \in Direction, NEW e \in EntryType, e.on => e.total = cumulative[d],
         entries' = [entries EXCEPT ![d] = e], UNCHANGED cumulative
  PROVE  TrackerInv'
  BY DEF TrackerInv, TrackerType, TotalsGoOn

LEMMA NoPeerType == NoPeer \in EntryType /\ ~NoPeer.on
  BY DEF NoPeer, EntryType, Connection

\* Entries that go, or move up in the order.
LEMMA EntriesGo ==
  ASSUME TrackerInv, UNCHANGED cumulative, entries' = [d \in Direction |-> entries'[d]],
         \A d \in Direction : \/ entries'[d] = NoPeer
                              \/ \E n \in Nat : entries'[d] = [entries[d] EXCEPT !.made = n]
  PROVE  TrackerInv'
<1>1. ASSUME NEW d \in Direction PROVE entries'[d] \in EntryType /\ (entries'[d].on => entries'[d].total = cumulative[d])
  <2>1. CASE entries'[d] = NoPeer
    BY <2>1, NoPeerType
  <2>2. CASE \E n \in Nat : entries'[d] = [entries[d] EXCEPT !.made = n]
    <3>1. PICK n \in Nat : entries'[d] = [entries[d] EXCEPT !.made = n]
      BY <2>2
    <3>2. entries[d] \in EntryType
      BY DEF TrackerInv, TrackerType
    <3>3. [entries[d] EXCEPT !.made = n] \in EntryType
      BY <3>2 DEF EntryType
    <3>4. [entries[d] EXCEPT !.made = n].on = entries[d].on /\ [entries[d] EXCEPT !.made = n].total = entries[d].total
      BY <3>2 DEF EntryType
    <3> QED BY <3>1, <3>3, <3>4 DEF TrackerInv, TotalsGoOn
  <2> QED BY <2>1, <2>2
<1> QED BY <1>1 DEF TrackerInv, TrackerType, TotalsGoOn

LEMMA TrackerHolds == TrackerSpec => []TrackerInv
<1>1. TrackerInit => TrackerInv
  BY NoPeerType DEF TrackerInit, TrackerInv, TrackerType, TotalsGoOn
<1>2. TrackerInv /\ [TrackerNext]_trackerVars => TrackerInv'
  <2> SUFFICES ASSUME TrackerInv, [TrackerNext]_trackerVars PROVE TrackerInv'
    OBVIOUS
  <2>0. /\ entries \in [Direction -> EntryType] /\ cumulative \in [Direction -> Nat]
        /\ \A d \in Direction : entries[d].on => entries[d].total = cumulative[d]
    BY DEF TrackerInv, TrackerType, TotalsGoOn
  <2>1. CASE Emit
    <3>1. CASE UNCHANGED entries
      BY <2>1, <3>1 DEF Emit, TrackerInv, TrackerType, TotalsGoOn
    <3>2. CASE ~UNCHANGED entries
      <4> DEFINE gone == {d \in Direction : entries[d].on /\ entries[d].idle = "dead"}
      <4>1. entries' = [d \in Direction |-> IF d \in gone THEN NoPeer ELSE [entries[d] EXCEPT !.made = IF @ = 0 THEN 0 ELSE 1]]
        BY <2>1, <3>2 DEF Emit
      <4>2. UNCHANGED cumulative
        BY <2>1 DEF Emit
      <4> HIDE DEF gone
      <4>3. entries' = [d \in Direction |-> entries'[d]]
        BY <4>1
      <4> QED BY <4>1, <4>2, <4>3, EntriesGo
    <3> QED BY <3>1, <3>2
  <2>2. CASE UnregisterAll
    BY <2>2, NoPeerType DEF UnregisterAll, TrackerInv, TrackerType, TotalsGoOn
  <2>3. ASSUME NEW d \in Direction, UnregisterPeer(d) PROVE TrackerInv'
    <3>1. entries' = [e \in Direction |-> IF e = d THEN NoPeer ELSE [entries[e] EXCEPT !.made = IF entries[e].on THEN 1 ELSE 0]]
      BY <2>3 DEF UnregisterPeer, Without
    <3>2. UNCHANGED cumulative
      BY <2>3 DEF UnregisterPeer
    <3>3. entries' = [e \in Direction |-> entries'[e]]
      BY <3>1
    <3> QED BY <3>1, <3>2, <3>3, EntriesGo
  <2>4. ASSUME NEW d \in Direction, RecordBytes(d) PROVE TrackerInv'
    <3> DEFINE entry == IF entries[d].on THEN entries[d] ELSE Made(d, "DIRECT")
               e == [entry EXCEPT !.total = @ + 1, !.idle = "fresh"]
    <3>1. entries' = [entries EXCEPT ![d] = e] /\ cumulative' = [cumulative EXCEPT ![d] = entry.total + 1]
      BY <2>4 DEF RecordBytes
    <3>2. entry \in EntryType
      BY <2>0, MadeIsEntry DEF Connection
    <3> HIDE DEF entry
    <3>3. e \in EntryType /\ e.total = entry.total + 1 /\ entry.total + 1 \in Nat
      BY <3>2, CountedIsEntry
    <3> HIDE DEF e
    <3> QED BY <3>1, <3>3, EntryChange
  <2>5. ASSUME NEW d \in Direction, TouchPeer(d) PROVE TrackerInv'
    <3> DEFINE e == [entries[d] EXCEPT !.idle = "fresh"]
    <3>1. entries' = [entries EXCEPT ![d] = e] /\ UNCHANGED cumulative
      BY <2>0, <2>5 DEF TouchPeer
    <3>2. entries[d] \in EntryType
      BY <2>0
    <3>3. e \in EntryType
      BY <3>2 DEF EntryType
    <3>4. e.on = entries[d].on /\ e.total = entries[d].total
      BY <3>2 DEF EntryType
    <3> HIDE DEF e
    <3> QED BY <2>0, <3>1, <3>3, <3>4, EntryKept
  <2>6. ASSUME NEW d \in Direction, PeerIdles(d) PROVE TrackerInv'
    <3> DEFINE e == [entries[d] EXCEPT !.idle = IF @ = "fresh" THEN "stale" ELSE "dead"]
    <3>1. entries' = [entries EXCEPT ![d] = e] /\ UNCHANGED cumulative
      BY <2>0, <2>6 DEF PeerIdles
    <3>2. entries[d] \in EntryType
      BY <2>0
    <3>3. e \in EntryType
      BY <3>2 DEF EntryType
    <3>4. e.on = entries[d].on /\ e.total = entries[d].total
      BY <3>2 DEF EntryType
    <3> HIDE DEF e
    <3> QED BY <2>0, <3>1, <3>3, <3>4, EntryKept
  <2>7. ASSUME NEW d \in Direction, NEW t \in Connection, RegisterPeer(d, t) PROVE TrackerInv'
    <3> DEFINE e == IF entries[d].on THEN [entries[d] EXCEPT !.type = t] ELSE Made(d, t)
    <3>1. entries' = [entries EXCEPT ![d] = e] /\ UNCHANGED cumulative
      BY <2>0, <2>7 DEF RegisterPeer
    <3>2. entries[d] \in EntryType
      BY <2>0
    <3>3. /\ [entries[d] EXCEPT !.type = t] \in EntryType
          /\ [entries[d] EXCEPT !.type = t].total = entries[d].total
      BY <3>2 DEF EntryType
    <3>4. e \in EntryType /\ e.total = cumulative[d]
      BY <2>0, <3>3, MadeIsEntry
    <3> HIDE DEF e
    <3> QED BY <3>1, <3>4, EntryKept
  <2>8. CASE UNCHANGED <<entries, cumulative>>
    BY <2>8 DEF TrackerInv, TrackerType, TotalsGoOn
  <2>9. ASSUME NEW c \in Viewers, Subscribe(c) \/ Unsubscribe(c) PROVE TrackerInv'
    BY <2>8, <2>9 DEF Subscribe, Unsubscribe
  <2>10. CASE UNCHANGED trackerVars
    BY <2>8, <2>10 DEF trackerVars
  <2> QED BY <2>1, <2>2, <2>3, <2>4, <2>5, <2>6, <2>7, <2>9, <2>10 DEF TrackerNext
<1> QED BY <1>1, <1>2, PTL DEF TrackerSpec

LEMMA TotalsCorrect == TrackerInv => PeerTotalsGoOn
<1> SUFFICES ASSUME TrackerInv PROVE PeerTotalsGoOn
  OBVIOUS
<1>1. MergeAll("upload", "download", entries) = MergeAll("download", "upload", entries)
  BY OrderIsNothing DEF TrackerInv, TrackerType
<1>2. \A c \in subscribers : Sent(c) = MergeAll("upload", "download", entries)
  BY <1>1 DEF Sent
<1> QED BY <1>2 DEF PeerTotalsGoOn, TrackerInv, TotalsGoOn

-----------------------------------------------------------------------------
(* The uploads: the counts have their streams.                             *)

HandlerType == [at : {"off", "wait", "read", "pace", "ending"}, lish : Wanted \cup {NoHandler.lish},
                served : SUBSET Wanted, errors : [Wanted -> Nat], aborted : BOOLEAN]
\* A handler that reads or waits for its turn is about a LISH, one that waits has counted it, and
\* one that has not begun counts nothing.
Works(h) ==
  /\ h.at \in {"read", "pace"} => h.lish \in Wanted
  /\ h.at = "pace" => h.lish \in h.served
  /\ h.at = "off" => h.served = {}
UploadType ==
  /\ handler \in [Streams -> HandlerType]
  /\ streamCount \in [Wanted -> Nat] /\ info \in [Wanted -> Nat]
  /\ listed \subseteq Wanted \X {PeerOf[s] : s \in Streams}

UploadInv == UploadType /\ (\A s \in Streams : Works(handler[s])) /\ CountIsServed /\ LimiterInv

LEMMA ServedByFinite ==
  ASSUME NEW l
  PROVE  IsFiniteSet(ServedBy(l)) /\ Cardinality(ServedBy(l)) \in Nat
<1>1. ServedBy(l) \in SUBSET Streams /\ IsFiniteSet(Streams)
  BY LimiterAssumption DEF ServedBy, Streams
<1> QED BY <1>1, FS_Subset, FS_CardinalityType

LEMMA HandlerIs ==
  ASSUME UploadInv, NEW s \in Streams
  PROVE  /\ handler[s] \in HandlerType /\ Works(handler[s]) /\ handler[s].served \in SUBSET Wanted
         /\ handler \in [Streams -> HandlerType]
  BY DEF UploadInv, UploadType, HandlerType

\* Handlers move without beginning or ending to serve anything.
LEMMA ServedKept ==
  ASSUME UploadInv, handler' \in [Streams -> HandlerType],
         \A s \in Streams : Works(handler'[s]) /\ handler'[s].served = handler[s].served,
         UNCHANGED streamCount, info' \in [Wanted -> Nat],
         \A l \in Wanted : info'[l] # 0 => ServedBy(l) # {},
         listed' \subseteq listed, LimiterInv'
  PROVE  UploadInv'
<1>1. \A l : ServedBy(l)' = ServedBy(l)
  BY DEF ServedBy
<1>2. UploadType'
  BY DEF UploadInv, UploadType
<1>3. CountIsServed'
  BY <1>1 DEF CountIsServed, UploadInv
<1> QED BY <1>2, <1>3 DEF UploadInv

LEMMA FiguresHold == UploadInv => info \in [Wanted -> Nat] /\ \A l \in Wanted : info[l] # 0 => ServedBy(l) # {}
  BY DEF UploadInv, UploadType, CountIsServed

LEMMA HandlerMoves ==
  ASSUME UploadInv, NEW s \in Streams, NEW h \in HandlerType, Works(h), h.served = handler[s].served,
         handler' = [handler EXCEPT ![s] = h], UNCHANGED <<streamCount, info>>, listed' \subseteq listed, LimiterInv'
  PROVE  UploadInv'
<1>1. handler \in [Streams -> HandlerType] /\ \A r \in Streams : Works(handler[r])
  BY DEF UploadInv, UploadType
<1>2. handler' \in [Streams -> HandlerType]
  BY <1>1
<1>3. \A r \in Streams : Works(handler'[r]) /\ handler'[r].served = handler[r].served
  BY <1>1
<1> QED BY <1>2, <1>3, FiguresHold, ServedKept

LEMMA HandlersStay ==
  ASSUME UploadInv, UNCHANGED <<handler, streamCount, info>>, listed' \subseteq listed, LimiterInv'
  PROVE  UploadInv'
<1>1. handler' \in [Streams -> HandlerType] /\ \A r \in Streams : Works(handler'[r]) /\ handler'[r].served = handler[r].served
  BY DEF UploadInv, UploadType
<1> QED BY <1>1, FiguresHold, ServedKept

\* What a handler looks like after a step of its own.
LEMMA HandlerSets ==
  ASSUME NEW h \in HandlerType, NEW x \in {"wait", "ending"}
  PROVE  /\ [h EXCEPT !.at = x] \in HandlerType /\ [h EXCEPT !.at = x].at = x
         /\ [h EXCEPT !.at = x].lish = h.lish /\ [h EXCEPT !.at = x].served = h.served
<1>1. [h EXCEPT !.at = x] \in HandlerType
  BY DEF HandlerType
<1>2. [h EXCEPT !.at = x].at = x /\ [h EXCEPT !.at = x].lish = h.lish /\ [h EXCEPT !.at = x].served = h.served
  BY DEF HandlerType
<1> QED BY <1>1, <1>2

\* A handler that waits again, or ends.
LEMMA AtHolds ==
  ASSUME UploadInv, NEW s \in Streams, NEW x \in {"wait", "ending"}, At(s, x),
         UNCHANGED <<streamCount, info>>, listed' \subseteq listed, LimiterInv'
  PROVE  UploadInv'
<1> DEFINE h == [handler[s] EXCEPT !.at = x]
<1>1. handler[s] \in HandlerType /\ handler \in [Streams -> HandlerType]
  BY HandlerIs
<1>2. h \in HandlerType /\ h.at = x /\ h.served = handler[s].served
  BY <1>1, HandlerSets
<1>3. handler' = [handler EXCEPT ![s] = h]
  BY <1>1 DEF At
<1> HIDE DEF h
<1>4. Works(h)
  BY <1>2 DEF Works
<1> QED BY <1>2, <1>3, <1>4, HandlerMoves

LEMMA LimiterSame == UploadInv /\ UNCHANGED limiter => LimiterInv'
  BY DEF UploadInv, LimiterInv

LEMMA ChunkWantedHolds ==
  ASSUME UploadInv, NEW s \in Streams, NEW l \in Wanted, ChunkWanted(s, l)
  PROVE  UploadInv'
<1>1. UNCHANGED <<streamCount, info, listed>> /\ LimiterInv'
  BY LimiterSame DEF ChunkWanted, Counters
<1>2. CASE UNCHANGED handler
  BY <1>1, <1>2, HandlersStay
<1>3. CASE handler' = [handler EXCEPT ![s].at = "read", ![s].lish = l]
  <2> DEFINE h == [handler[s] EXCEPT !.at = "read", !.lish = l]
  <2>1. handler[s] \in HandlerType /\ handler \in [Streams -> HandlerType]
    BY HandlerIs
  <2>2. h \in HandlerType
    BY <2>1 DEF HandlerType
  <2>3. h.at = "read" /\ h.lish = l /\ h.served = handler[s].served
    BY <2>1 DEF HandlerType
  <2>4. handler' = [handler EXCEPT ![s] = h]
    BY <1>3, <2>1
  <2> HIDE DEF h
  <2>5. Works(h)
    BY <2>3 DEF Works
  <2> QED BY <1>1, <2>2, <2>3, <2>4, <2>5, HandlerMoves
<1> QED BY <1>2, <1>3 DEF ChunkWanted

\* The first chunk of a LISH over a stream counts the stream.
LEMMA ChunkServedHolds ==
  ASSUME UploadInv, NEW s \in Streams, ChunkServed(s)
  PROVE  UploadInv'
<1> DEFINE l == handler[s].lish
<1>1. handler[s] \in HandlerType /\ Works(handler[s]) /\ handler \in [Streams -> HandlerType]
  BY HandlerIs
<1>2. handler[s].at = "read" /\ UNCHANGED info
  BY DEF ChunkServed
<1>3. l \in Wanted
  BY <1>1, <1>2 DEF Works
<1>4. PICK x \in {"pace", "ending"} :
        /\ handler' = [handler EXCEPT ![s].at = x, ![s].served = @ \cup {l}, ![s].errors[l] = 0]
        /\ IF x = "pace" THEN Throttles(s) ELSE UNCHANGED limiter
  BY DEF ChunkServed
<1>5. streamCount' = IF l \in handler[s].served THEN streamCount ELSE [streamCount EXCEPT ![l] = @ + 1]
  BY DEF ChunkServed
<1>6. listed' = listed \cup {<<l, PeerOf[s]>>}
  BY DEF ChunkServed
<1>7. LimiterInv'
  BY <1>4, LimiterSame, ThrottlesTimed DEF UploadInv, Streams
<1> HIDE DEF l
<1> DEFINE h == [handler[s] EXCEPT !.at = x, !.served = @ \cup {l}, !.errors[l] = 0]
<1>8. h \in HandlerType
  BY <1>1, <1>3 DEF HandlerType
<1>9. h.at = x /\ h.lish = handler[s].lish /\ h.served = handler[s].served \cup {l}
  BY <1>1 DEF HandlerType
<1>10. handler' = [handler EXCEPT ![s] = h]
  BY <1>1, <1>4
<1> HIDE DEF h
<1>11. handler' \in [Streams -> HandlerType]
  BY <1>1, <1>8, <1>10
<1>12. \A r \in Streams : handler'[r].served = IF r = s THEN handler[s].served \cup {l} ELSE handler[r].served
  BY <1>1, <1>9, <1>10
<1>13. \A r \in Streams : Works(handler'[r])
  <2>1. Works(h)
    BY <1>3, <1>9 DEF Works, l
  <2> QED BY <1>1, <1>10, <2>1 DEF UploadInv
<1>14. \A k \in Wanted : ServedBy(k)' = IF k = l THEN ServedBy(k) \cup {s} ELSE ServedBy(k)
  BY <1>12 DEF ServedBy
<1>15. s \in ServedBy(l) <=> l \in handler[s].served
  BY DEF ServedBy
<1>16. streamCount \in [Wanted -> Nat] /\ \A k \in Wanted : streamCount[k] = Cardinality(ServedBy(k))
  BY DEF UploadInv, UploadType, CountIsServed
<1>17. Cardinality(ServedBy(l) \cup {s}) = IF s \in ServedBy(l) THEN Cardinality(ServedBy(l)) ELSE Cardinality(ServedBy(l)) + 1
  BY ServedByFinite, FS_AddElement
<1>18. streamCount' \in [Wanted -> Nat]
  BY <1>3, <1>5, <1>16
<1>19. \A k \in Wanted : streamCount'[k] = IF k = l /\ l \notin handler[s].served THEN streamCount[k] + 1 ELSE streamCount[k]
  BY <1>3, <1>5, <1>16
<1>20. \A k \in Wanted : streamCount'[k] = Cardinality(ServedBy(k))'
  BY <1>14, <1>15, <1>16, <1>17, <1>19
<1>21. \A k \in Wanted : info'[k] # 0 => ServedBy(k)' # {}
  BY <1>2, <1>14, FiguresHold
<1>22. \A e \in listed' : \E r \in ServedBy(e[1])' : PeerOf[r] = e[2]
  <2> SUFFICES ASSUME NEW e \in listed' PROVE \E r \in ServedBy(e[1])' : PeerOf[r] = e[2]
    OBVIOUS
  <2>1. CASE e = <<l, PeerOf[s]>>
    BY <1>3, <1>14, <2>1
  <2>2. CASE e \in listed
    <3>1. e[1] \in Wanted
      BY <2>2 DEF UploadInv, UploadType
    <3>2. PICK r \in ServedBy(e[1]) : PeerOf[r] = e[2]
      BY <2>2 DEF UploadInv, CountIsServed
    <3>3. r \in ServedBy(e[1])'
      BY <1>14, <3>1, <3>2
    <3> QED BY <3>2, <3>3
  <2> QED BY <1>6, <2>1, <2>2
<1>23. listed' \subseteq Wanted \X {PeerOf[r] : r \in Streams}
  BY <1>3, <1>6 DEF UploadInv, UploadType
<1>24. UploadType'
  BY <1>2, <1>11, <1>18, <1>23 DEF UploadInv, UploadType
<1>25. CountIsServed'
  BY <1>20, <1>21, <1>22 DEF CountIsServed
<1> QED BY <1>7, <1>13, <1>24, <1>25 DEF UploadInv

\* The end of a stream takes it out of every count it was in.
LEMMA StreamCleansHolds ==
  ASSUME UploadInv, NEW s \in Streams, StreamCleans(s)
  PROVE  UploadInv'
<1> DEFINE its == handler[s].served
<1>1. handler[s] \in HandlerType /\ handler \in [Streams -> HandlerType] /\ its \in SUBSET Wanted
  BY HandlerIs
<1>2. handler' = [handler EXCEPT ![s] = NoHandler] /\ LimiterInv'
  BY LimiterSame DEF StreamCleans
<1>3. listed' = listed \ {<<l, PeerOf[s]>> : l \in its}
  BY DEF StreamCleans
<1>4. streamCount' = [l \in Wanted |-> IF l \notin its \/ streamCount[l] = 0 THEN streamCount[l] ELSE streamCount[l] - 1]
  BY DEF StreamCleans
<1>5. info' = [l \in Wanted |-> IF l \notin its THEN info[l]
                               ELSE IF streamCount[l] <= 1 THEN 0
                               ELSE IF info[l] = 0 THEN 0 ELSE streamCount[l] - 1]
  BY DEF StreamCleans
<1> HIDE DEF its
<1>6. NoHandler \in HandlerType /\ NoHandler.served = {} /\ NoHandler.at = "off"
  BY DEF NoHandler, HandlerType
<1>7. Works(NoHandler)
  BY <1>6 DEF Works
<1>8. handler' \in [Streams -> HandlerType] /\ \A r \in Streams : Works(handler'[r])
  BY <1>1, <1>2, <1>6, <1>7 DEF UploadInv
<1>9. \A r \in Streams : handler'[r].served = IF r = s THEN {} ELSE handler[r].served
  BY <1>1, <1>2, <1>6
<1>10. \A k \in Wanted : ServedBy(k)' = ServedBy(k) \ {s}
  BY <1>9 DEF ServedBy
<1>11. \A k \in Wanted : s \in ServedBy(k) <=> k \in its
  BY DEF ServedBy, its
<1>12. \A k \in Wanted : /\ streamCount[k] \in Nat /\ streamCount[k] = Cardinality(ServedBy(k))
                         /\ info[k] \in Nat /\ (info[k] # 0 => ServedBy(k) # {})
  BY FiguresHold DEF UploadInv, UploadType, CountIsServed
<1>13. \A k \in Wanted : Cardinality(ServedBy(k) \ {s}) =
                           IF s \in ServedBy(k) THEN Cardinality(ServedBy(k)) - 1 ELSE Cardinality(ServedBy(k))
  BY ServedByFinite, FS_RemoveElement
<1>14. \A k \in Wanted : IsFiniteSet(ServedBy(k) \ {s}) /\ Cardinality(ServedBy(k) \ {s}) \in Nat
  BY ServedByFinite, FS_RemoveElement, FS_CardinalityType
<1>15. ASSUME NEW k \in Wanted, s \in ServedBy(k) PROVE streamCount[k] # 0
  <2>1. Cardinality(ServedBy(k) \ {s}) = Cardinality(ServedBy(k)) - 1
    BY <1>13, <1>15
  <2>2. Cardinality(ServedBy(k) \ {s}) \in Nat
    BY <1>14
  <2>3. streamCount[k] = Cardinality(ServedBy(k))
    BY <1>12
  <2> QED BY <2>1, <2>2, <2>3
<1>16. streamCount' \in [Wanted -> Nat] /\ \A k \in Wanted : streamCount'[k] = Cardinality(ServedBy(k))'
  BY <1>4, <1>10, <1>11, <1>12, <1>13, <1>15
<1>17. info' \in [Wanted -> Nat]
  BY <1>5, <1>12
<1>18. ASSUME NEW k \in Wanted, info'[k] # 0 PROVE ServedBy(k)' # {}
  <2>1. CASE k \notin its
    BY <1>5, <1>10, <1>11, <1>12, <1>18, <2>1
  <2>2. CASE k \in its
    <3>1. streamCount[k] > 1
      BY <1>5, <1>12, <1>18, <2>2
    <3>2. Cardinality(ServedBy(k) \ {s}) # 0
      BY <1>12, <1>13, <1>11, <2>2, <3>1
    <3>3. ServedBy(k) \ {s} # {}
      BY <3>2, FS_EmptySet
    <3> QED BY <1>10, <3>3
  <2> QED BY <2>1, <2>2
<1>19. \A e \in listed' : \E r \in ServedBy(e[1])' : PeerOf[r] = e[2]
  <2> SUFFICES ASSUME NEW e \in listed' PROVE \E r \in ServedBy(e[1])' : PeerOf[r] = e[2]
    OBVIOUS
  <2>1. e \in listed /\ e = <<e[1], e[2]>> /\ e[1] \in Wanted
    BY <1>3 DEF UploadInv, UploadType
  <2>2. PICK r \in ServedBy(e[1]) : PeerOf[r] = e[2]
    BY <2>1 DEF UploadInv, CountIsServed
  <2>3. r # s
    BY <1>3, <1>11, <2>1, <2>2
  <2> QED BY <1>10, <2>1, <2>2, <2>3
<1>20. UploadType'
  BY <1>3, <1>8, <1>16, <1>17 DEF UploadInv, UploadType
<1>21. CountIsServed'
  BY <1>16, <1>18, <1>19 DEF CountIsServed
<1> QED BY <1>2, <1>8, <1>20, <1>21 DEF UploadInv

LEMMA ChunkErrsHolds ==
  ASSUME UploadInv, NEW s \in Streams, ChunkErrs(s)
  PROVE  UploadInv'
<1> DEFINE l == handler[s].lish
           n == IF handler[s].errors[l] < IoThreshold THEN handler[s].errors[l] + 1 ELSE handler[s].errors[l]
           h == [handler[s] EXCEPT !.at = "wait", !.errors[l] = n]
<1>1. handler[s] \in HandlerType /\ Works(handler[s]) /\ handler \in [Streams -> HandlerType]
  BY HandlerIs
<1>2. handler[s].at = "read" /\ UNCHANGED <<streamCount, info, listed>> /\ LimiterInv'
  BY LimiterSame DEF ChunkErrs, Counters
<1>3. handler' = [handler EXCEPT ![s] = h]
  BY <1>1 DEF ChunkErrs
<1>4. l \in Wanted
  BY <1>1, <1>2 DEF Works
<1>5. n \in Nat
  BY <1>1, <1>4 DEF HandlerType
<1> HIDE DEF l, n
<1>6. h \in HandlerType
  BY <1>1, <1>4, <1>5 DEF HandlerType
<1>7. h.at = "wait" /\ h.served = handler[s].served
  BY <1>1 DEF HandlerType
<1> HIDE DEF h
<1>8. Works(h)
  BY <1>7 DEF Works
<1> QED BY <1>2, <1>3, <1>6, <1>7, <1>8, HandlerMoves

LEMMA PacedHolds ==
  ASSUME UploadInv, NEW s \in Streams, Paced(s)
  PROVE  UploadInv'
<1> DEFINE l == handler[s].lish
<1>1. /\ handler[s].at = "pace" /\ UNCHANGED <<streamCount, listed>>
      /\ limiter' = [limiter EXCEPT !.released = @ \ {s}]
  BY DEF Paced
<1>2. LimiterInv'
  BY <1>1, GoneOnTimed DEF UploadInv
<1>3. CASE handler[s].aborted
  <2>1. At(s, "ending") /\ UNCHANGED info
    BY <1>3 DEF Paced
  <2> QED BY <1>1, <1>2, <2>1, AtHolds
<1>4. CASE ~handler[s].aborted
  <2>1. At(s, "wait") /\ info' = [info EXCEPT ![l] = IF streamCount[l] = 0 THEN 1 ELSE streamCount[l]]
    BY <1>4 DEF Paced
  <2>2. handler[s] \in HandlerType /\ Works(handler[s]) /\ handler \in [Streams -> HandlerType]
    BY HandlerIs
  <2>3. l \in handler[s].served /\ l \in Wanted
    BY <1>1, <2>2 DEF Works
  <2> DEFINE h == [handler[s] EXCEPT !.at = "wait"]
  <2>4. h \in HandlerType /\ h.at = "wait" /\ h.served = handler[s].served
    BY <2>2, HandlerSets
  <2>5. handler' = [handler EXCEPT ![s] = h]
    BY <2>1, <2>2 DEF At
  <2> HIDE DEF h, l
  <2>6. Works(h)
    BY <2>4 DEF Works
  <2>7. handler' \in [Streams -> HandlerType]
    BY <2>2, <2>4, <2>5
  <2>8. \A r \in Streams : Works(handler'[r]) /\ handler'[r].served = handler[r].served
    BY <2>2, <2>4, <2>5, <2>6 DEF UploadInv
  <2>9. info \in [Wanted -> Nat] /\ streamCount \in [Wanted -> Nat]
    BY DEF UploadInv, UploadType
  <2>10. info' \in [Wanted -> Nat]
    BY <2>1, <2>3, <2>9
  <2>11. \A k \in Wanted : k # l => info'[k] = info[k]
    BY <2>1, <2>9
  <2>12. ServedBy(l) # {}
    BY <2>3 DEF ServedBy
  <2>13. \A k \in Wanted : info'[k] # 0 => ServedBy(k) # {}
    BY <2>11, <2>12, FiguresHold
  <2> QED BY <1>1, <1>2, <2>7, <2>8, <2>10, <2>13, ServedKept
<1> QED BY <1>3, <1>4

\* All handlers are told, and those that wait in line let go.
LEMMA StopServingHolds == UploadInv /\ StopServing => UploadInv'
<1> SUFFICES ASSUME UploadInv, StopServing PROVE UploadInv'
  OBVIOUS
<1>1. /\ handler' = [s \in Streams |-> [handler[s] EXCEPT !.aborted = handler[s].at # "off"]]
      /\ UNCHANGED <<streamCount, info, listed>>
  BY DEF StopServing, Counters
<1>2. \A s \in Streams : handler[s] \in HandlerType /\ Works(handler[s])
  BY HandlerIs
<1>3. ASSUME NEW s \in Streams, NEW b \in BOOLEAN
      PROVE  /\ [handler[s] EXCEPT !.aborted = b] \in HandlerType
             /\ [handler[s] EXCEPT !.aborted = b].at = handler[s].at
             /\ [handler[s] EXCEPT !.aborted = b].lish = handler[s].lish
             /\ [handler[s] EXCEPT !.aborted = b].served = handler[s].served
  <2>1. [handler[s] EXCEPT !.aborted = b] \in HandlerType
    BY <1>2 DEF HandlerType
  <2>2. /\ [handler[s] EXCEPT !.aborted = b].at = handler[s].at
        /\ [handler[s] EXCEPT !.aborted = b].lish = handler[s].lish
        /\ [handler[s] EXCEPT !.aborted = b].served = handler[s].served
    BY <1>2 DEF HandlerType
  <2> QED BY <2>1, <2>2
<1>4. \A s \in Streams : \E b \in BOOLEAN : handler'[s] = [handler[s] EXCEPT !.aborted = b]
  BY <1>1
<1>5. ASSUME NEW s \in Streams
      PROVE  handler'[s] \in HandlerType /\ Works(handler'[s]) /\ handler'[s].served = handler[s].served
  <2>1. PICK b \in BOOLEAN : handler'[s] = [handler[s] EXCEPT !.aborted = b]
    BY <1>4
  <2>2. /\ handler'[s] \in HandlerType /\ handler'[s].at = handler[s].at /\ handler'[s].lish = handler[s].lish
        /\ handler'[s].served = handler[s].served
    BY <1>3, <2>1
  <2> QED BY <1>2, <2>2 DEF Works
<1>6. handler' \in [Streams -> HandlerType]
  BY <1>1, <1>5
<1>7. LimiterInv'
  <2> DEFINE out == Range(limiter.pending)
             l == [limiter EXCEPT !.pending = <<>>, !.released = @ \cup out]
  <2>1. limiter \in LineType
    BY DEF UploadInv, LimiterInv
  <2>2. limiter.pending \in Seq(Clients)
    BY <2>1, LineFields
  <2>3. out \in SUBSET Clients /\ <<>> \in Seq(Clients)
    BY <2>2, RangeOfSeq, EmptySeq
  <2>4. limiter' = Untimed(l)
    BY DEF StopServing
  <2> HIDE DEF out
  <2>5. l \in LineType /\ l.pending = <<>>
    BY <2>1, <2>3, LineLeft
  <2> HIDE DEF l
  <2>6. Untimed(l) \in LineType /\ Untimed(l).pending = <<>>
    BY <2>5, UntimedIsLine
  <2> QED BY <2>4, <2>6 DEF LimiterInv, Timed
<1> QED BY <1>1, <1>5, <1>6, <1>7, FiguresHold, ServedKept

\* Once no handler is left nothing is counted, and what is cleared was empty.
LEMMA ServingStoppedHolds == UploadInv /\ ServingStopped => UploadInv'
<1> SUFFICES ASSUME UploadInv, ServingStopped PROVE UploadInv'
  OBVIOUS
<1>1. /\ \A s \in Streams : handler[s].at = "off"
      /\ streamCount' = [l \in Wanted |-> 0] /\ info' = [l \in Wanted |-> 0]
      /\ Resets /\ UNCHANGED <<handler, listed>>
  BY DEF ServingStopped
<1>2. LimiterInv'
  BY <1>1, ResetsTimed DEF UploadInv
<1>3. \A s \in Streams : handler[s].served = {}
  BY <1>1 DEF UploadInv, Works
<1>4. \A l : ServedBy(l) = {}
  BY <1>3 DEF ServedBy
<1>5. streamCount \in [Wanted -> Nat] /\ \A l \in Wanted : streamCount[l] = 0
  BY <1>4, FS_EmptySet DEF UploadInv, UploadType, CountIsServed
<1>6. UNCHANGED streamCount
  BY <1>1, <1>5
<1>7. info' \in [Wanted -> Nat] /\ \A l \in Wanted : info'[l] # 0 => ServedBy(l) # {}
  BY <1>1
<1>8. handler' \in [Streams -> HandlerType] /\ \A s \in Streams : Works(handler'[s]) /\ handler'[s].served = handler[s].served
  BY <1>1 DEF UploadInv, UploadType
<1> QED BY <1>1, <1>2, <1>6, <1>7, <1>8, ServedKept

LEMMA UploadHolds == UploadSpec => []UploadInv
<1>1. UploadInit => UploadInv
  <2> SUFFICES ASSUME UploadInit PROVE UploadInv
    OBVIOUS
  <2>1. /\ handler = [s \in Streams |-> NoHandler] /\ streamCount = [l \in Wanted |-> 0]
        /\ info = [l \in Wanted |-> 0] /\ listed = {}
    BY DEF UploadInit
  <2>2. NoHandler \in HandlerType /\ NoHandler.served = {} /\ NoHandler.at = "off"
    BY DEF NoHandler, HandlerType
  <2>3. UploadType
    BY <2>1, <2>2 DEF UploadType
  <2>4. \A s \in Streams : Works(handler[s])
    BY <2>1, <2>2 DEF Works
  <2>5. \A l : ServedBy(l) = {}
    BY <2>1, <2>2 DEF ServedBy
  <2>6. CountIsServed
    BY <2>1, <2>5, FS_EmptySet DEF CountIsServed
  <2>7. LimiterInv
    <3>1. CASE limiter = NewLimiter
      BY <3>1, NewLimiterTimed DEF LimiterInv
    <3>2. CASE limiter = [NewLimiter EXCEPT !.limited = TRUE]
      <4>1. limiter \in LineType
        BY <3>2, EmptySeq DEF NewLimiter, LineType
      <4>2. limiter.pending = <<>>
        BY <3>2 DEF NewLimiter
      <4> QED BY <4>1, <4>2 DEF LimiterInv, Timed
    <3> QED BY <3>1, <3>2 DEF UploadInit
  <2> QED BY <2>3, <2>4, <2>6, <2>7 DEF UploadInv
<1>2. UploadInv /\ [UploadNext]_uploadVars => UploadInv'
  <2> SUFFICES ASSUME UploadInv, [UploadNext]_uploadVars PROVE UploadInv'
    OBVIOUS
  <2>1. ASSUME NEW s \in Streams, ChunkServed(s) PROVE UploadInv'
    BY <2>1, ChunkServedHolds
  <2>2. ASSUME NEW s \in Streams, ChunkRefused(s) \/ StreamOpens(s) PROVE UploadInv'
    <3>1. At(s, "wait") /\ UNCHANGED <<streamCount, info, listed>> /\ LimiterInv'
      BY <2>2, LimiterSame DEF ChunkRefused, StreamOpens, Counters
    <3> QED BY <3>1, AtHolds
  <2>3. ASSUME NEW s \in Streams, StreamEnds(s) PROVE UploadInv'
    <3>1. At(s, "ending") /\ UNCHANGED <<streamCount, info, listed>> /\ LimiterInv'
      BY <2>3, LimiterSame DEF StreamEnds, Counters
    <3> QED BY <3>1, AtHolds
  <2>4. ASSUME NEW s \in Streams, ChunkErrs(s) \/ Paced(s) \/ StreamCleans(s) PROVE UploadInv'
    BY <2>4, ChunkErrsHolds, PacedHolds, StreamCleansHolds
  <2>5. ASSUME NEW s \in Streams, NEW l \in Wanted, ChunkWanted(s, l) PROVE UploadInv'
    BY <2>5, ChunkWantedHolds
  <2>6. ASSUME NEW l \in Wanted, EnableSharing(l) \/ DisableSharing(l) \/ ChangeBusy(l) PROVE UploadInv'
    <3>1. UNCHANGED <<handler, streamCount, info, listed>> /\ LimiterInv'
      BY <2>6, LimiterSame DEF EnableSharing, DisableSharing, ChangeBusy, Counters
    <3> QED BY <3>1, HandlersStay
  <2>7. CASE LimitChanges
    <3>1. UNCHANGED <<handler, streamCount, info, listed>> /\ LimiterInv'
      BY <2>7, SetLimitTimed DEF LimitChanges, Counters, UploadInv
    <3> QED BY <3>1, HandlersStay
  <2>8. CASE SlotComes
    <3>1. UNCHANGED <<handler, streamCount, info, listed>> /\ LimiterInv'
      BY <2>8, TimerTimed DEF SlotComes, Counters, UploadInv
    <3> QED BY <3>1, HandlersStay
  <2>9. CASE Pruned
    <3>1. UNCHANGED <<handler, streamCount, info>> /\ listed' \subseteq listed /\ LimiterInv'
      BY <2>9, LimiterSame DEF Pruned
    <3> QED BY <3>1, HandlersStay
  <2>10. CASE StopServing
    BY <2>10, StopServingHolds
  <2>11. CASE ServingStopped
    BY <2>11, ServingStoppedHolds
  <2>12. CASE ServingStarts
    <3>1. UNCHANGED <<handler, streamCount, info, listed>> /\ LimiterInv'
      BY <2>12, LimiterSame DEF ServingStarts, Counters
    <3> QED BY <3>1, HandlersStay
  <2>13. CASE UNCHANGED uploadVars
    <3>1. UNCHANGED <<handler, streamCount, info, listed>> /\ LimiterInv'
      BY <2>13, LimiterSame DEF uploadVars
    <3> QED BY <3>1, HandlersStay
  <2> QED BY <2>1, <2>2, <2>3, <2>4, <2>5, <2>6, <2>7, <2>8, <2>9, <2>10, <2>11, <2>12, <2>13 DEF UploadNext, HandlerStep
<1> QED BY <1>1, <1>2, PTL DEF UploadSpec

\* Whoever waits for a slot has a timer, also where the limiter serves the downloads alone
\* (speed-limiter.ts).
THEOREM LineCorrect == LimiterSpec => []LineIsTimed
<1>1. LimiterInv => LineIsTimed
  BY DEF LimiterInv, Timed, LineIsTimed
<1> QED BY <1>1, LimiterHolds, PTL

\* What is counted, timed and shown for the uploads is what is served (speed-limiter.ts,
\* lish-protocol.ts, peer-tracker.ts).
THEOREM ServingCorrect == UploadSpec /\ TrackerSpec => []ServingHolds
<1>1. UploadInv => LineIsTimed /\ CountIsServed
  BY DEF UploadInv, LimiterInv, Timed, LineIsTimed
<1> QED BY <1>1, TotalsCorrect, UploadHolds, TrackerHolds, PTL DEF ServingHolds

=============================================================================
