---------------------------- MODULE PeerAnnounce -----------------------------
(***************************************************************************)
(* peer-announce.ts: the announcements of a node over the lishnets it is   *)
(* in, and what it takes from those of others.  Each start has one chain   *)
(* of timer, emission and next timer; chains of earlier starts find        *)
(* themselves superseded after every await.                                *)
(***************************************************************************)
EXTENDS Naturals, Sequences, FiniteSets, SequencesExt

CONSTANTS MaxStarts, Nets, Sources, Burst, MaxSources, MaxRaw

ASSUME AnnounceAssumption == MaxStarts \in Nat

VARIABLES gen, stopped, chain, timer, joinedNets, recent, work, paid
announceVars == <<gen, stopped, chain, timer, joinedNets, recent, work, paid>>

Starts == 1..MaxStarts
NoBucket == <<>>

AnnounceInit ==
  /\ gen = 0 /\ stopped = FALSE /\ chain = [g \in Starts |-> "none"] /\ timer = 0
  /\ joinedNets = {} /\ recent = {} /\ work = NoBucket /\ paid = NoBucket

Superseded(g) == stopped \/ g # gen
Chain(g, at) == chain' = [chain EXCEPT ![g] = at]
SameBuckets == UNCHANGED <<work, paid>>

-----------------------------------------------------------------------------
\* After a stop, or for the first time.
Start ==
  /\ gen < MaxStarts /\ (gen = 0 \/ stopped)
  /\ gen' = gen + 1 /\ stopped' = FALSE /\ Chain(gen + 1, "reading")
  /\ UNCHANGED <<timer, joinedNets, recent>> /\ SameBuckets

\* The one timer that is remembered is cleared; whoever is in an await is superseded.
Stop ==
  /\ gen > 0 /\ ~stopped /\ stopped' = TRUE /\ gen' = gen + 1 /\ gen < MaxStarts
  /\ timer' = 0
  /\ chain' = [g \in Starts |-> IF g = timer /\ chain[g] = "waiting" THEN "none" ELSE chain[g]]
  /\ recent' = {} /\ work' = NoBucket /\ paid' = NoBucket /\ UNCHANGED joinedNets

\* Mutant: scheduleNext does not look again after its await.
SchedulesNextBlindly(g) ==
  /\ chain[g] = "reading" /\ Chain(g, "waiting") /\ timer' = g
  /\ UNCHANGED <<gen, stopped, joinedNets, recent>> /\ SameBuckets

\* scheduleNext, once it knows how many peers there are.
SchedulesNext(g) ==
  /\ chain[g] = "reading"
  /\ IF Superseded(g) THEN Chain(g, "none") /\ UNCHANGED timer ELSE Chain(g, "waiting") /\ timer' = g
  /\ UNCHANGED <<gen, stopped, joinedNets, recent>> /\ SameBuckets

\* refreshMembers: lishnets left are forgotten, subscribers noted.
Refreshed(seen) == {m \in recent : m[1] \in joinedNets} \cup {m \in seen : m[1] \in joinedNets}

\* The timer: members are refreshed and the peer store is read.
Fires(g) ==
  /\ chain[g] = "waiting"
  /\ IF Superseded(g) THEN Chain(g, "none") /\ UNCHANGED recent
     ELSE Chain(g, "emitting") /\ \E seen \in SUBSET (Nets \X Sources) : recent' = Refreshed(seen)
  /\ UNCHANGED <<gen, stopped, timer, joinedNets>> /\ SameBuckets

\* emit, from its first await on: a message to each lishnet with somebody in it, an await each.
Emits(g) ==
  /\ chain[g] = "emitting"
  /\ IF Superseded(g) THEN Chain(g, "none")
     ELSE \/ joinedNets # {} /\ Chain(g, "sending")
          \/ Chain(g, "reading")
  /\ UNCHANGED <<gen, stopped, timer, joinedNets, recent>> /\ SameBuckets

\* A message is out, or failed: the next one, or the next timer.
SendReturns(g) ==
  /\ chain[g] = "sending"
  /\ IF Superseded(g) THEN Chain(g, "none") ELSE Chain(g, "reading") \/ UNCHANGED chain
  /\ UNCHANGED <<gen, stopped, timer, joinedNets, recent>> /\ SameBuckets

\* The message for a lishnet: own addresses and those of its members.
Announced(n) == {m[2] : m \in {x \in recent : x[1] = n}}

JoinsNet(n) == joinedNets' = joinedNets \cup {n} /\ UNCHANGED <<gen, stopped, chain, timer, recent>> /\ SameBuckets
LeavesNet(n) == joinedNets' = joinedNets \ {n} /\ UNCHANGED <<gen, stopped, chain, timer, recent>> /\ SameBuckets
\* A peer turns up in a mesh.
NoteMember(n, p) == recent' = recent \cup {<<n, p>>} /\ UNCHANGED <<gen, stopped, chain, timer, joinedNets>> /\ SameBuckets
\* A member not seen for long counts no more.
Expires(m) == recent' = recent \ {m} /\ UNCHANGED <<gen, stopped, chain, timer, joinedNets>> /\ SameBuckets

-----------------------------------------------------------------------------
\* AnnounceRateLimiter.take: buckets are a sequence of sources and tokens, the one used last at
\* the end; the oldest gives way.  Time refills some of the bucket that is asked.
Taken(b, source, wanted, refill) ==
  LET own == SelectSeq(b, LAMBDA e : e.source = source)
      tokens == IF own = <<>> THEN Burst ELSE IF own[1].tokens + refill > Burst THEN Burst ELSE own[1].tokens + refill
      granted == IF wanted < tokens THEN wanted ELSE tokens
      all == Append(SelectSeq(b, LAMBDA e : e.source # source), [source |-> source, tokens |-> tokens - granted])
  IN  [granted |-> granted, buckets |-> IF Len(all) > MaxSources THEN Tail(all) ELSE all]

\* handle: what is looked at is paid from one budget, what is passed on from the other.
Handle(source, raw, refill) ==
  LET looked == Taken(work, source, raw, refill)
  IN  /\ work' = looked.buckets
      /\ \E unique \in 0..looked.granted :
           paid' = IF unique = 0 THEN paid ELSE Taken(paid, source, unique, refill).buckets
      /\ UNCHANGED <<gen, stopped, chain, timer, joinedNets, recent>>

AnnounceNext ==
  \/ Start \/ Stop
  \/ \E g \in Starts : SchedulesNext(g) \/ Fires(g) \/ Emits(g) \/ SendReturns(g)
  \/ \E n \in Nets : JoinsNet(n) \/ LeavesNet(n) \/ \E p \in Sources : NoteMember(n, p)
  \/ \E m \in recent : Expires(m)
  \/ \E source \in Sources, raw \in 1..MaxRaw, refill \in 0..1 : Handle(source, raw, refill)

-----------------------------------------------------------------------------
\* However starts and stops fall between the awaits, a node that runs has one chain of
\* announcements that goes on, and only that one ever has a timer.
OneChain ==
  LET timed == {g \in Starts : chain[g] = "waiting"}
  IN  IF gen = 0 \/ stopped THEN timed = {} ELSE chain[gen] # "none" /\ timed \subseteq {gen}
=============================================================================
