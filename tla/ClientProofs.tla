----------------------------- MODULE ClientProofs -----------------------------
(***************************************************************************)
(* What the frontend keeps, part by part, for all bounds: the list of      *)
(* downloads, what is shown of searches and directories, the connection,   *)
(* and what is watched of the networks.                                    *)
(***************************************************************************)
EXTENDS MCClient, SequenceTheorems, FiniteSetTheorems, WellFoundedInduction, TLAPS

\* Whoever counts down comes to an end.
LEMMA LeastOf ==
  ASSUME NEW S \in SUBSET Nat, S # {}
  PROVE  \E x \in S : \A y \in S : x <= y
<1>1. OpToRel(<, Nat) = {ss \in Nat \X Nat : ss[1] < ss[2]}
  BY Zenon DEF OpToRel
<1>2. PICK x \in S : \A y \in S : <<y, x>> \notin {ss \in Nat \X Nat : ss[1] < ss[2]}
  <2>1. IsWellFoundedOn({ss \in Nat \X Nat : ss[1] < ss[2]}, Nat)
    BY NatLessThanWellFounded, <1>1, Zenon
  <2>2. QED
    BY <2>1, WFMin, Zenon
<1>3. ASSUME NEW y \in S PROVE x <= y
  <2>1. x \in Nat /\ y \in Nat
    OBVIOUS
  <2>2. ~(y < x)
    BY <1>2, <2>1, Zenon
  <2>3. QED
    BY <2>1, <2>2
<1>4. QED
  BY <1>3, Zenon

Picked(s) == CHOOSE x \in s : TRUE
Summed(f, h, s) == IF s = {} THEN 0 ELSE h[s \ {Picked(s)}] + f[Picked(s)].peers
SumsTo(f, S, h) == h = [s \in SUBSET S |-> Summed(f, h, s)]
-----------------------------------------------------------------------------
(***************************************************************************)
(* The list of downloads.  While events are under way the row need not be  *)
(* what the backend has: the last of them that sets a thing sets it so,    *)
(* and what none of them sets is so already (Tracks).  Before the list is  *)
(* shown, what was listed is what the backend has.                         *)
(***************************************************************************)

SetsThere == {"add", "remove"}
SetsDown == {"add", "remove", "download:enabled", "download:disabled", "download:error"}
SetsUp == {"add", "remove", "upload:enabled", "upload:disabled", "upload:error"}

DownloadEvent == SetsThere \cup SetsDown \cup SetsUp \cup
  {"verify:queued", "verify:started", "verify:file", "verify:files", "verify:done", "move:on", "move:off",
   "progress", "progress:alone", "allocating", "rechecking", "retrying", "resumed", "complete",
   "upload:progress", "upload:stopped"}

LastOf(kinds, j) == wire[j] \in kinds /\ \A k \in 1 .. Len(wire) : wire[k] \in kinds => k <= j
NoneOf(kinds) == \A k \in 1 .. Len(wire) : wire[k] \notin kinds

ThereTracks ==
  /\ \A j \in 1 .. Len(wire) : LastOf(SetsThere, j) => (lish.there <=> wire[j] = "add")
  /\ NoneOf(SetsThere) => row.there = lish.there
DownTracks ==
  lish.there =>
    /\ \A j \in 1 .. Len(wire) : LastOf(SetsDown, j) => (lish.down <=> wire[j] = "download:enabled")
    /\ NoneOf(SetsDown) => row.down = lish.down
UpTracks ==
  lish.there =>
    /\ \A j \in 1 .. Len(wire) : LastOf(SetsUp, j) => (lish.up <=> wire[j] = "upload:enabled")
    /\ NoneOf(SetsUp) => row.up = lish.up
Tracks == ThereTracks /\ DownTracks /\ UpTracks

DownloadsTypes ==
  /\ row \in [there : BOOLEAN, status : Status, down : BOOLEAN, up : BOOLEAN]
  /\ activeDown \in BOOLEAN /\ activeUp \in BOOLEAN /\ downTimer \in BOOLEAN /\ upTimer \in BOOLEAN /\ restored \in BOOLEAN
  /\ older \in BOOLEAN /\ subscribed \in BOOLEAN /\ lost \in BOOLEAN
  /\ fetches \subseteq {"verified", "resumed"}
  /\ load \in {"off", "list", "details", "transfers", "subscribe", "on"}
  /\ listed \in [down : BOOLEAN, up : BOOLEAN, work : Work]
  /\ wire \in Seq(DownloadEvent) /\ Len(wire) <= MaxWire + 2
  /\ lish \in [there : BOOLEAN, down : BOOLEAN, up : BOOLEAN, work : Work]
  /\ downloadEvents \in 0 .. MaxDownloadEvents

NothingGone == ~lish.there => ~lish.down /\ ~lish.up /\ lish.work = "rest"
Loading ==
  /\ load = "on" => subscribed
  /\ ~subscribed => wire = <<>>
  /\ load = "details" /\ ~lost => listed.down = lish.down /\ listed.up = lish.up
  /\ load \in {"transfers", "subscribe", "on"} /\ ~lost => Tracks
UploadHeard ==
  /\ activeUp => upTimer
  /\ row.there /\ row.status \in IsUploading => activeUp \/ restored
DownloadsInv == DownloadsTypes /\ NothingGone /\ Loading /\ UploadHeard

-----------------------------------------------------------------------------
(* What is sent, and what is heard.                                        *)

LEMMA EventsAre ==
  /\ \A event \in {"add", "remove", "download:enabled", "download:disabled", "download:error",
                   "upload:enabled", "upload:disabled", "upload:error"} : event \in DownloadEvent
  /\ \A event \in {"verify:queued", "verify:started", "verify:file", "verify:files", "verify:done", "move:on",
                   "move:off", "progress", "progress:alone", "allocating", "rechecking", "retrying",
                   "resumed", "complete", "upload:progress", "upload:stopped"} :
       event \in DownloadEvent /\ event \notin SetsThere /\ event \notin SetsDown /\ event \notin SetsUp
BY DEF DownloadEvent, SetsThere, SetsDown, SetsUp

\* More events are under way.
More(events) == wire' = wire \o events

LEMMA MoreIs ==
  ASSUME wire \in Seq(DownloadEvent), NEW events \in Seq(DownloadEvent), More(events)
  PROVE  /\ wire' \in Seq(DownloadEvent) /\ Len(wire) \in Nat /\ Len(events) \in Nat
         /\ Len(wire') = Len(wire) + Len(events)
         /\ \A i \in 1 .. Len(wire) : wire'[i] = wire[i]
         /\ \A i \in 1 .. Len(events) : wire'[Len(wire) + i] = events[i]
BY ConcatProperties DEF More

LEMMA MoreOfOthers ==
  ASSUME wire \in Seq(DownloadEvent), NEW events \in Seq(DownloadEvent), More(events), NEW kinds,
         \A i \in 1 .. Len(events) : events[i] \notin kinds
  PROVE  /\ \A j \in 1 .. Len(wire') : LastOf(kinds, j)' =>
              j \in 1 .. Len(wire) /\ LastOf(kinds, j) /\ wire'[j] = wire[j]
         /\ NoneOf(kinds)' => NoneOf(kinds)
<1>1. /\ Len(wire) \in Nat /\ Len(events) \in Nat /\ Len(wire') = Len(wire) + Len(events)
      /\ \A i \in 1 .. Len(wire) : i \in 1 .. Len(wire') /\ wire'[i] = wire[i]
      /\ \A i \in 1 .. Len(events) : wire'[Len(wire) + i] = events[i]
  BY MoreIs
<1>2. ASSUME NEW j \in 1 .. Len(wire'), wire'[j] \in kinds
      PROVE  j \in 1 .. Len(wire)
  <2>1. CASE j > Len(wire)
    <3>1. j - Len(wire) \in 1 .. Len(events) /\ Len(wire) + (j - Len(wire)) = j
      BY <1>1, <2>1
    <3>2. wire'[j] = events[j - Len(wire)]
      BY <1>1, <3>1
    <3>3. QED
      BY <1>2, <3>1, <3>2
  <2>2. QED
    BY <1>1, <2>1
<1>3. QED
  BY <1>1, <1>2 DEF LastOf, NoneOf

LEMMA MoreOfThese ==
  ASSUME wire \in Seq(DownloadEvent), NEW events \in Seq(DownloadEvent), More(events), NEW kinds,
         Len(events) >= 1, events[Len(events)] \in kinds
  PROVE  /\ \A j \in 1 .. Len(wire') : LastOf(kinds, j)' => wire'[j] = events[Len(events)]
         /\ ~NoneOf(kinds)'
<1>1. /\ Len(wire) \in Nat /\ Len(events) \in Nat /\ Len(wire') = Len(wire) + Len(events)
      /\ \A i \in 1 .. Len(events) : wire'[Len(wire) + i] = events[i]
  BY MoreIs
<1>2. Len(wire') \in 1 .. Len(wire') /\ wire'[Len(wire')] = events[Len(events)]
  BY <1>1
<1>3. \A j \in 1 .. Len(wire') : LastOf(kinds, j)' => j = Len(wire')
  BY <1>1, <1>2 DEF LastOf
<1>4. QED
  BY <1>2, <1>3 DEF NoneOf

\* What an event that is sent says of the backend is so.
SetsIt(events, kinds, before, now, on) ==
  \/ events[Len(events)] \in kinds /\ (now <=> events[Len(events)] = on)
  \/ (\A i \in 1 .. Len(events) : events[i] \notin kinds) /\ now = before

LEMMA MoreTracks ==
  ASSUME wire \in Seq(DownloadEvent), NEW events \in Seq(DownloadEvent), Len(events) >= 1, More(events),
         Tracks, UNCHANGED row,
         SetsIt(events, SetsThere, lish.there, lish'.there, "add"),
         lish'.there => /\ lish.there \/ events[Len(events)] = "add"
                        /\ SetsIt(events, SetsDown, lish.down, lish'.down, "download:enabled")
                        /\ SetsIt(events, SetsUp, lish.up, lish'.up, "upload:enabled")
  PROVE  Tracks'
<1>1. ThereTracks'
  <2>1. CASE events[Len(events)] \in SetsThere
    BY <2>1, MoreOfThese DEF ThereTracks, SetsIt
  <2>2. CASE events[Len(events)] \notin SetsThere
    BY <2>2, MoreOfOthers DEF ThereTracks, SetsIt, Tracks
  <2>3. QED
    BY <2>1, <2>2
<1>2. DownTracks'
  <2>1. CASE events[Len(events)] \in SetsDown
    <3>1. Len(events) \in 1 .. Len(events)
      OBVIOUS
    <3>2. QED
      BY <2>1, <3>1, MoreOfThese DEF DownTracks, SetsIt
  <2>2. CASE events[Len(events)] \notin SetsDown
    <3>1. events[Len(events)] # "add"
      BY <2>2 DEF SetsDown
    <3>2. QED
      BY <2>2, <3>1, MoreOfOthers DEF DownTracks, SetsIt, Tracks
  <2>3. QED
    BY <2>1, <2>2
<1>3. UpTracks'
  <2>1. CASE events[Len(events)] \in SetsUp
    <3>1. Len(events) \in 1 .. Len(events)
      OBVIOUS
    <3>2. QED
      BY <2>1, <3>1, MoreOfThese DEF UpTracks, SetsIt
  <2>2. CASE events[Len(events)] \notin SetsUp
    <3>1. events[Len(events)] # "add"
      BY <2>2 DEF SetsUp
    <3>2. QED
      BY <2>2, <3>1, MoreOfOthers DEF UpTracks, SetsIt, Tracks
  <2>3. QED
    BY <2>1, <2>2
<1>4. QED
  BY <1>1, <1>2, <1>3 DEF Tracks

\* The first event is heard: the last of the others is the last, or there is
\* none, and then it was the last itself.
LEMMA FewerIs ==
  ASSUME wire \in Seq(DownloadEvent), wire # <<>>, wire' = Tail(wire), NEW kinds
  PROVE  /\ wire' \in Seq(DownloadEvent) /\ Len(wire') = Len(wire) - 1 /\ Len(wire) \in Nat /\ Len(wire) >= 1
         /\ Head(wire) = wire[1] /\ 1 \in 1 .. Len(wire)
         /\ \A j \in 1 .. Len(wire') : LastOf(kinds, j)' =>
              j + 1 \in 1 .. Len(wire) /\ LastOf(kinds, j + 1) /\ wire'[j] = wire[j + 1]
         /\ NoneOf(kinds)' /\ wire[1] \in kinds => LastOf(kinds, 1)
         /\ NoneOf(kinds)' /\ wire[1] \notin kinds => NoneOf(kinds)
<1>1. /\ wire' \in Seq(DownloadEvent) /\ Len(wire') = Len(wire) - 1 /\ Len(wire) \in Nat /\ Len(wire) >= 1
      /\ Head(wire) = wire[1] /\ 1 \in 1 .. Len(wire)
      /\ \A i \in 1 .. Len(wire) - 1 : wire'[i] = wire[i + 1]
  BY HeadTailProperties, EmptySeq
<1>2. \A i \in 1 .. Len(wire') : i + 1 \in 1 .. Len(wire) /\ wire'[i] = wire[i + 1]
  BY <1>1
<1>3. \A k \in 1 .. Len(wire) : k # 1 => k - 1 \in 1 .. Len(wire') /\ wire'[k - 1] = wire[k]
  <2>1. ASSUME NEW k \in 1 .. Len(wire), k # 1
        PROVE  k - 1 \in 1 .. Len(wire') /\ wire'[k - 1] = wire[k]
    <3>1. k - 1 \in 1 .. Len(wire') /\ (k - 1) + 1 = k
      BY <1>1, <2>1
    <3>2. QED
      BY <1>2, <3>1
  <2>2. QED
    BY <2>1
<1>4. ASSUME NEW j \in 1 .. Len(wire'), LastOf(kinds, j)'
      PROVE  j + 1 \in 1 .. Len(wire) /\ LastOf(kinds, j + 1) /\ wire'[j] = wire[j + 1]
  <2>1. ASSUME NEW k \in 1 .. Len(wire), wire[k] \in kinds
        PROVE  k <= j + 1
    <3>1. k # 1 => k - 1 <= j
      BY <1>3, <1>4, <2>1 DEF LastOf
    <3>2. QED
      BY <1>1, <3>1
  <2>2. QED
    BY <1>2, <1>4, <2>1 DEF LastOf
<1>5. ASSUME NoneOf(kinds)', NEW k \in 1 .. Len(wire), wire[k] \in kinds
      PROVE  k = 1
  BY <1>3, <1>5 DEF NoneOf
<1>6. NoneOf(kinds)' /\ wire[1] \in kinds => LastOf(kinds, 1)
  BY <1>1, <1>5 DEF LastOf
<1>7. NoneOf(kinds)' /\ wire[1] \notin kinds => NoneOf(kinds)
  BY <1>5 DEF NoneOf
<1>8. QED
  BY <1>1, <1>4, <1>6, <1>7

\* What the row makes of an event, as far as its switches go.
Takes(event) ==
  /\ event = "add" => row'.there /\ ~row'.down /\ ~row'.up
  /\ event = "remove" => ~row'.there
  /\ event \notin SetsThere =>
       /\ row'.there = row.there
       /\ event \notin SetsDown => row'.down = row.down
       /\ event \notin SetsUp => row'.up = row.up
       /\ row.there => /\ event \in SetsDown => (row'.down <=> event = "download:enabled")
                       /\ event \in SetsUp => (row'.up <=> event = "upload:enabled")

LEMMA FewerTracks ==
  ASSUME wire \in Seq(DownloadEvent), wire # <<>>, wire' = Tail(wire), Tracks, UNCHANGED lish,
         Takes(wire[1]),
         lish.there \in BOOLEAN, row.there \in BOOLEAN, row'.there \in BOOLEAN,
         lish.down \in BOOLEAN, row'.down \in BOOLEAN, lish.up \in BOOLEAN, row'.up \in BOOLEAN
  PROVE  Tracks'
<1> DEFINE event == wire[1]
<1>1. 1 \in 1 .. Len(wire)
  BY FewerIs
<1>2. ThereTracks'
  <2>1. ASSUME NoneOf(SetsThere)'
        PROVE  row'.there = lish.there
    <3>1. CASE event \in SetsThere
      <4>1. lish.there <=> event = "add"
        BY <1>1, <2>1, <3>1, FewerIs DEF Tracks, ThereTracks
      <4>2. event = "add" \/ event = "remove"
        BY <3>1 DEF SetsThere
      <4>3. QED
        BY <4>1, <4>2 DEF Takes
    <3>2. CASE event \notin SetsThere
      BY <2>1, <3>2, FewerIs DEF Tracks, ThereTracks, Takes
    <3>3. QED
      BY <3>1, <3>2
  <2>2. QED
    BY <2>1, FewerIs DEF Tracks, ThereTracks
<1>3. DownTracks'
  <2>1. ASSUME lish.there, NoneOf(SetsDown)'
        PROVE  row'.down = lish.down
    <3>1. CASE event \in SetsDown
      <4>1. lish.down <=> event = "download:enabled"
        BY <1>1, <2>1, <3>1, FewerIs DEF Tracks, DownTracks
      <4>2. CASE event \in SetsThere
        <5>1. event # "download:enabled"
          BY <4>2 DEF SetsThere
        <5>2. NoneOf(SetsThere)'
          BY <2>1 DEF NoneOf, SetsThere, SetsDown
        <5>3. event = "add"
          BY <1>1, <2>1, <4>2, <5>2, FewerIs DEF Tracks, ThereTracks
        <5>4. QED
          BY <4>1, <5>1, <5>3 DEF Takes
      <4>3. CASE event \notin SetsThere
        <5>1. NoneOf(SetsThere)'
          BY <2>1 DEF NoneOf, SetsThere, SetsDown
        <5>2. row.there = lish.there
          BY <4>3, <5>1, FewerIs DEF Tracks, ThereTracks
        <5>3. QED
          BY <2>1, <3>1, <4>1, <4>3, <5>2 DEF Takes
      <4>4. QED
        BY <4>2, <4>3
    <3>2. CASE event \notin SetsDown
      <4>1. event \notin SetsThere
        BY <3>2 DEF SetsThere, SetsDown
      <4>2. QED
        BY <2>1, <3>2, <4>1, FewerIs DEF Tracks, DownTracks, Takes
    <3>3. QED
      BY <3>1, <3>2
  <2>2. QED
    BY <2>1, FewerIs DEF Tracks, DownTracks
<1>4. UpTracks'
  <2>1. ASSUME lish.there, NoneOf(SetsUp)'
        PROVE  row'.up = lish.up
    <3>1. CASE event \in SetsUp
      <4>1. lish.up <=> event = "upload:enabled"
        BY <1>1, <2>1, <3>1, FewerIs DEF Tracks, UpTracks
      <4>2. CASE event \in SetsThere
        <5>1. event # "upload:enabled"
          BY <4>2 DEF SetsThere
        <5>2. NoneOf(SetsThere)'
          BY <2>1 DEF NoneOf, SetsThere, SetsUp
        <5>3. event = "add"
          BY <1>1, <2>1, <4>2, <5>2, FewerIs DEF Tracks, ThereTracks
        <5>4. QED
          BY <4>1, <5>1, <5>3 DEF Takes
      <4>3. CASE event \notin SetsThere
        <5>1. NoneOf(SetsThere)'
          BY <2>1 DEF NoneOf, SetsThere, SetsUp
        <5>2. row.there = lish.there
          BY <4>3, <5>1, FewerIs DEF Tracks, ThereTracks
        <5>3. QED
          BY <2>1, <3>1, <4>1, <4>3, <5>2 DEF Takes
      <4>4. QED
        BY <4>2, <4>3
    <3>2. CASE event \notin SetsUp
      <4>1. event \notin SetsThere
        BY <3>2 DEF SetsThere, SetsUp
      <4>2. QED
        BY <2>1, <3>2, <4>1, FewerIs DEF Tracks, UpTracks, Takes
    <3>3. QED
      BY <3>1, <3>2
  <2>2. QED
    BY <2>1, FewerIs DEF Tracks, UpTracks
<1>5. QED
  BY <1>2, <1>3, <1>4 DEF Tracks

-----------------------------------------------------------------------------
(* The steps of the backend.                                               *)

\* An event is sent, about a change or not: told to nobody while the list is
\* loaded, it is lost.
LEMMA BackendKeeps ==
  ASSUME DownloadsInv, NEW events \in Seq(DownloadEvent), Len(events) = 1 \/ Len(events) = 2, Backend, Sends(events),
         lish' \in [there : BOOLEAN, down : BOOLEAN, up : BOOLEAN, work : Work],
         NothingGone', lost' \in BOOLEAN, lost => lost',
         lost' \/ ~Untold \/ UNCHANGED lish,
         Tracks /\ ~lost' /\ More(events) => Tracks'
  PROVE  DownloadsInv'
<1> USE DEF DownloadsInv
<1>1. /\ downloadEvents < MaxDownloadEvents /\ Len(wire) < MaxWire
      /\ downloadEvents' = downloadEvents + 1 /\ UNCHANGED <<viewVars, loadVars>>
  BY DEF Backend
<1>2. UNCHANGED <<row, activeDown, activeUp, restored, downTimer, upTimer, fetches, load, listed, older, subscribed>>
  BY <1>1 DEF viewVars, loadVars
<1>3. /\ subscribed => More(events)
      /\ ~subscribed => wire' = wire
  BY DEF Sends, More
<1>4. /\ wire' \in Seq(DownloadEvent) /\ Len(wire') <= MaxWire + 2
  <2>1. wire \in Seq(DownloadEvent) /\ Len(wire) <= MaxWire + 2
    BY DEF DownloadsTypes
  <2>2. CASE subscribed
    <3>1. /\ wire' \in Seq(DownloadEvent) /\ Len(wire') = Len(wire) + Len(events) /\ Len(wire) \in Nat
      BY <1>3, <2>1, <2>2, MoreIs
    <3>2. CASE Len(events) = 1
      BY <1>1, <3>1, <3>2, DownloadsAssumption
    <3>3. CASE Len(events) = 2
      BY <1>1, <3>1, <3>3, DownloadsAssumption
    <3>4. QED
      BY <3>2, <3>3
  <2>3. QED
    BY <1>3, <2>1, <2>2
<1>5. DownloadsTypes'
  BY <1>1, <1>2, <1>4, DownloadsAssumption DEF DownloadsTypes
<1>6. UploadHeard'
  BY <1>2 DEF UploadHeard
<1>7. Loading'
  <2>1. (load' = "on" => subscribed') /\ (~subscribed' => wire' = <<>>)
    BY <1>2, <1>3 DEF Loading
  <2>2. load' = "details" /\ ~lost' => listed'.down = lish'.down /\ listed'.up = lish'.up
    BY <1>2 DEF Loading, Untold, DownloadsTypes
  <2>3. ASSUME load' \in {"transfers", "subscribe", "on"}, ~lost'
        PROVE  Tracks'
    <3>1. Tracks
      BY <1>2, <2>3 DEF Loading, DownloadsTypes
    <3>2. CASE subscribed
      BY <1>3, <2>3, <3>1, <3>2
    <3>3. CASE ~subscribed
      <4>1. load # "on"
        BY <3>3 DEF Loading
      <4>2. UNCHANGED lish
        BY <1>2, <2>3, <3>3, <4>1 DEF Untold, DownloadsTypes
      <4>3. wire' = wire /\ row' = row
        BY <1>2, <1>3, <3>3
      <4>4. QED
        BY <3>1, <4>2, <4>3 DEF Tracks, ThereTracks, DownTracks, UpTracks, LastOf, NoneOf
    <3>4. QED
      BY <3>2, <3>3
  <2>4. QED
    BY <2>1, <2>2, <2>3 DEF Loading
<1>8. QED
  BY <1>5, <1>6, <1>7

\* The same for one event, and for two.
LEMMA ChangeKeeps ==
  ASSUME DownloadsInv, NEW event \in DownloadEvent, Backend, Sends(<<event>>),
         lish' \in [there : BOOLEAN, down : BOOLEAN, up : BOOLEAN, work : Work],
         NothingGone', lost' \in BOOLEAN, lost => lost',
         lost' \/ ~Untold \/ UNCHANGED lish,
         lost' \/ /\ IF event \in SetsThere THEN lish'.there <=> event = "add"
                     ELSE lish'.there = lish.there
                  /\ lish'.there =>
                       /\ IF event \in SetsDown THEN lish'.down <=> event = "download:enabled"
                          ELSE lish'.down = lish.down
                       /\ IF event \in SetsUp THEN lish'.up <=> event = "upload:enabled"
                          ELSE lish'.up = lish.up
  PROVE  DownloadsInv'
<1> DEFINE events == <<event>>
<1>1. events \in Seq(DownloadEvent) /\ Len(events) = 1 /\ events[Len(events)] = event
      /\ \A i \in 1 .. Len(events) : events[i] = event
  OBVIOUS
<1>2. Sends(events)
  OBVIOUS
<1> HIDE DEF events
<1>3. ASSUME Tracks, ~lost', More(events)
      PROVE  Tracks'
  <2>1. UNCHANGED row /\ wire \in Seq(DownloadEvent)
    BY DEF Backend, viewVars, DownloadsInv, DownloadsTypes
  <2>2. SetsIt(events, SetsThere, lish.there, lish'.there, "add")
    BY <1>1, <1>3 DEF SetsIt
  <2>3. lish'.there => /\ SetsIt(events, SetsDown, lish.down, lish'.down, "download:enabled")
                       /\ SetsIt(events, SetsUp, lish.up, lish'.up, "upload:enabled")
    BY <1>1, <1>3 DEF SetsIt
  <2>4. lish'.there => lish.there \/ event = "add"
    BY <1>3 DEF SetsThere
  <2>5. events \in Seq(DownloadEvent) /\ Len(events) >= 1 /\ events[Len(events)] = event
    BY <1>1
  <2>6. QED
    BY <1>3, <2>1, <2>2, <2>3, <2>4, <2>5, MoreTracks
<1>4. QED
  BY <1>1, <1>2, <1>3, BackendKeeps

LEMMA AddsKeep ==
  ASSUME DownloadsInv, BackendAdds
  PROVE  DownloadsInv'
<1> USE DEF DownloadsInv, DownloadsTypes
<1>1. /\ Backend /\ lish.work = "rest" /\ lish' = [lish EXCEPT !.there = TRUE] /\ Sends(<<"add">>)
      /\ lost' = (lost \/ Untold \/ lish.there)
  BY DEF BackendAdds
<1>2. lost' \in BOOLEAN /\ (lost => lost') /\ (lost' \/ ~Untold)
  BY <1>1
<1>3. /\ lish' \in [there : BOOLEAN, down : BOOLEAN, up : BOOLEAN, work : Work] /\ lish'.there
      /\ lish'.down = lish.down /\ lish'.up = lish.up
  BY <1>1
<1>4. lost' \/ (~lish.down /\ ~lish.up)
  BY <1>1 DEF NothingGone
<1>5. /\ "add" \in DownloadEvent /\ "add" \in SetsThere /\ "add" \in SetsDown /\ "add" \in SetsUp
      /\ "add" # "download:enabled" /\ "add" # "upload:enabled"
  BY EventsAre DEF SetsThere, SetsDown, SetsUp
<1>6. NothingGone'
  BY <1>3 DEF NothingGone
<1>7. \/ lost'
      \/ /\ lish'.there <=> "add" = "add"
         /\ lish'.down <=> "add" = "download:enabled"
         /\ lish'.up <=> "add" = "upload:enabled"
  BY <1>3, <1>4, <1>5
<1>8. QED
  BY <1>1, <1>2, <1>3, <1>5, <1>6, <1>7, ChangeKeeps

LEMMA ChangesKeep ==
  ASSUME DownloadsInv, NEW l, NEW event \in DownloadEvent, Changes(l, <<event>>),
         l \in [there : BOOLEAN, down : BOOLEAN, up : BOOLEAN, work : Work],
         lish.there, l.there, event \notin SetsThere,
         IF event \in SetsDown THEN l.down <=> event = "download:enabled" ELSE l.down = lish.down,
         IF event \in SetsUp THEN l.up <=> event = "upload:enabled" ELSE l.up = lish.up
  PROVE  DownloadsInv'
<1>1. /\ Backend /\ lish' = l /\ Sends(<<event>>)
      /\ lost' \in BOOLEAN /\ (lost => lost') /\ (lost' \/ ~Untold)
  BY DEF Changes
<1>2. QED
  BY <1>1, ChangeKeeps DEF NothingGone

LEMMA BackendMoves ==
  ASSUME DownloadsInv,
         \/ BackendEnables \/ BackendDisables \/ BackendFails
         \/ BackendEnablesUpload \/ BackendDisablesUpload \/ BackendWorks
  PROVE  DownloadsInv'
<1>1. /\ lish \in [there : BOOLEAN, down : BOOLEAN, up : BOOLEAN, work : Work]
      /\ lish.up \/ lish.work # "rest" => lish.there
  BY DEF DownloadsInv, DownloadsTypes, NothingGone
<1>2. /\ \A event \in {"download:enabled", "download:disabled", "download:error"} :
           event \in DownloadEvent /\ event \notin SetsThere /\ event \in SetsDown /\ event \notin SetsUp
      /\ \A event \in {"upload:enabled", "upload:disabled"} :
           event \in DownloadEvent /\ event \notin SetsThere /\ event \notin SetsDown /\ event \in SetsUp
  BY EventsAre DEF SetsThere, SetsDown, SetsUp
<1>3. CASE BackendEnables
  <2> DEFINE l == [lish EXCEPT !.down = TRUE, !.work = "download"]
  <2>1. lish.there /\ Changes(l, <<"download:enabled">>)
    BY <1>1, <1>3 DEF BackendEnables
  <2>2. /\ l \in [there : BOOLEAN, down : BOOLEAN, up : BOOLEAN, work : Work]
        /\ l.there /\ l.down /\ l.up = lish.up
    BY <1>1, <2>1 DEF Work
  <2> HIDE DEF l
  <2>3. QED
    BY <1>2, <2>1, <2>2, ChangesKeep
<1>4. CASE BackendDisables
  <2> DEFINE l == [lish EXCEPT !.down = FALSE, !.work = IF @ = "download" THEN "rest" ELSE @]
  <2>1. lish.there /\ Changes(l, <<"download:disabled">>)
    BY <1>1, <1>4 DEF BackendDisables
  <2>2. /\ l \in [there : BOOLEAN, down : BOOLEAN, up : BOOLEAN, work : Work]
        /\ l.there /\ ~l.down /\ l.up = lish.up
    BY <1>1, <2>1 DEF Work
  <2> HIDE DEF l
  <2>3. QED
    BY <1>2, <2>1, <2>2, ChangesKeep
<1>5. CASE BackendFails
  <2> DEFINE l == [lish EXCEPT !.down = FALSE, !.work = "rest"]
  <2>1. lish.there /\ Changes(l, <<"download:error">>)
    BY <1>1, <1>5 DEF BackendFails
  <2>2. /\ l \in [there : BOOLEAN, down : BOOLEAN, up : BOOLEAN, work : Work]
        /\ l.there /\ ~l.down /\ l.up = lish.up
    BY <1>1, <2>1 DEF Work
  <2> HIDE DEF l
  <2>3. QED
    BY <1>2, <2>1, <2>2, ChangesKeep
<1>6. CASE BackendEnablesUpload
  <2> DEFINE l == [lish EXCEPT !.up = TRUE]
  <2>1. lish.there /\ Changes(l, <<"upload:enabled">>)
    BY <1>1, <1>6 DEF BackendEnablesUpload
  <2>2. /\ l \in [there : BOOLEAN, down : BOOLEAN, up : BOOLEAN, work : Work]
        /\ l.there /\ l.down = lish.down /\ l.up
    BY <1>1, <2>1 DEF Work
  <2> HIDE DEF l
  <2>3. QED
    BY <1>2, <2>1, <2>2, ChangesKeep
<1>7. CASE BackendDisablesUpload
  <2> DEFINE l == [lish EXCEPT !.up = FALSE]
  <2>1. lish.there /\ Changes(l, <<"upload:disabled">>)
    BY <1>1, <1>7 DEF BackendDisablesUpload
  <2>2. /\ l \in [there : BOOLEAN, down : BOOLEAN, up : BOOLEAN, work : Work]
        /\ l.there /\ l.down = lish.down /\ ~l.up
    BY <1>1, <2>1 DEF Work
  <2> HIDE DEF l
  <2>3. QED
    BY <1>2, <2>1, <2>2, ChangesKeep
<1>8. CASE BackendWorks
  <2>1. PICK work \in {"rest", "verifying", "moving"},
             event \in {"verify:started", "verify:done", "move:on", "move:off"} :
          lish.there /\ Changes([lish EXCEPT !.work = work], <<event>>)
    BY <1>1, <1>8 DEF BackendWorks
  <2> DEFINE l == [lish EXCEPT !.work = work]
  <2>2. /\ l \in [there : BOOLEAN, down : BOOLEAN, up : BOOLEAN, work : Work]
        /\ l.there /\ l.down = lish.down /\ l.up = lish.up
    BY <1>1, <2>1 DEF Work
  <2>3. event \in DownloadEvent /\ event \notin SetsThere /\ event \notin SetsDown /\ event \notin SetsUp
    BY EventsAre
  <2>4. Changes(l, <<event>>)
    BY <2>1
  <2> HIDE DEF l
  <2>5. QED
    BY <2>1, <2>2, <2>3, <2>4, ChangesKeep
<1>9. QED
  BY <1>3, <1>4, <1>5, <1>6, <1>7, <1>8

\* Of what goes on, and of no switch.
LEMMA TellsKeep ==
  ASSUME DownloadsInv, BackendTells
  PROVE  DownloadsInv'
<1>1. PICK event \in {"verify:file", "verify:files", "verify:queued", "progress", "progress:alone", "allocating",
                      "rechecking", "retrying", "resumed", "complete", "upload:progress", "upload:stopped"} :
        Tells(event)
  BY DEF BackendTells
<1>2. event \in DownloadEvent /\ event \notin SetsThere /\ event \notin SetsDown /\ event \notin SetsUp
  BY EventsAre
<1>3. Backend /\ Sends(<<event>>) /\ UNCHANGED <<lish, lost>>
  BY <1>1 DEF Tells
<1>4. /\ lish' \in [there : BOOLEAN, down : BOOLEAN, up : BOOLEAN, work : Work] /\ lost' \in BOOLEAN
      /\ NothingGone'
  BY <1>3 DEF DownloadsInv, DownloadsTypes, NothingGone
<1>5. QED
  BY <1>2, <1>3, <1>4, ChangeKeeps

\* Two events at once: the removal, and an upload that fails.
LEMMA TwoKeep ==
  ASSUME DownloadsInv, BackendRemoves \/ BackendFailsUpload
  PROVE  DownloadsInv'
<1>1. lish \in [there : BOOLEAN, down : BOOLEAN, up : BOOLEAN, work : Work] /\ wire \in Seq(DownloadEvent)
  BY DEF DownloadsInv, DownloadsTypes
<1>2. CASE BackendRemoves
  <2> DEFINE events == <<"upload:disabled", "remove">>
             l == [there |-> FALSE, down |-> FALSE, up |-> FALSE, work |-> "rest"]
  <2>1. /\ Backend /\ lish' = l /\ Sends(events)
        /\ lost' \in BOOLEAN /\ (lost => lost') /\ (lost' \/ ~Untold)
    BY <1>2 DEF BackendRemoves, Changes
  <2>0. "upload:disabled" \in DownloadEvent /\ "remove" \in DownloadEvent
    BY EventsAre
  <2>2. events \in Seq(DownloadEvent) /\ Len(events) = 2 /\ events[Len(events)] = "remove"
    BY <2>0
  <2>3. /\ l \in [there : BOOLEAN, down : BOOLEAN, up : BOOLEAN, work : Work] /\ ~l.there
        /\ ~l.down /\ ~l.up /\ l.work = "rest"
    BY DEF Work
  <2> HIDE DEF events, l
  <2>4. ASSUME Tracks, More(events)
        PROVE  Tracks'
    <3>1. SetsIt(events, SetsThere, lish.there, lish'.there, "add") /\ ~lish'.there
      BY <2>1, <2>2, <2>3 DEF SetsIt, SetsThere
    <3>2. UNCHANGED row
      BY <2>1 DEF Backend, viewVars
    <3>3. Len(events) >= 1
      BY <2>2
    <3>4. QED
      BY <1>1, <2>2, <2>4, <3>1, <3>2, <3>3, MoreTracks
  <2>5. NothingGone'
    BY <2>1, <2>3 DEF NothingGone
  <2>6. QED
    BY <2>1, <2>2, <2>3, <2>4, <2>5, BackendKeeps
<1>3. CASE BackendFailsUpload
  <2> DEFINE events == <<"upload:disabled", "upload:error">>
             l == [lish EXCEPT !.up = FALSE]
  <2>1. /\ Backend /\ lish' = l /\ Sends(events) /\ lish.up
        /\ lost' \in BOOLEAN /\ (lost => lost') /\ (lost' \/ ~Untold)
    BY <1>3 DEF BackendFailsUpload, Changes
  <2>0. "upload:disabled" \in DownloadEvent /\ "upload:error" \in DownloadEvent
    BY EventsAre
  <2>2. /\ events \in Seq(DownloadEvent) /\ Len(events) = 2 /\ events[Len(events)] = "upload:error"
        /\ \A i \in 1 .. Len(events) : events[i] \in {"upload:disabled", "upload:error"}
    BY <2>0
  <2>3. /\ l \in [there : BOOLEAN, down : BOOLEAN, up : BOOLEAN, work : Work] /\ l.there = lish.there
        /\ l.down = lish.down /\ ~l.up
    BY <1>1
  <2>4. lish.there
    BY <2>1 DEF DownloadsInv, NothingGone
  <2> HIDE DEF events, l
  <2>5. ASSUME Tracks, More(events)
        PROVE  Tracks'
    <3>1. /\ SetsIt(events, SetsThere, lish.there, lish'.there, "add")
          /\ SetsIt(events, SetsDown, lish.down, lish'.down, "download:enabled")
          /\ SetsIt(events, SetsUp, lish.up, lish'.up, "upload:enabled")
      BY <2>1, <2>2, <2>3 DEF SetsIt, SetsThere, SetsDown, SetsUp
    <3>2. UNCHANGED row
      BY <2>1 DEF Backend, viewVars
    <3>3. Len(events) >= 1 /\ (lish'.there => lish.there)
      BY <2>2, <2>4
    <3>4. QED
      BY <1>1, <2>2, <2>5, <3>1, <3>2, <3>3, MoreTracks
  <2>6. NothingGone'
    BY <2>1, <2>3, <2>4 DEF NothingGone
  <2>7. QED
    BY <2>1, <2>2, <2>3, <2>5, <2>6, BackendKeeps
<1>4. QED
  BY <1>2, <1>3

-----------------------------------------------------------------------------
(* The handlers.                                                           *)

RowType == [there : BOOLEAN, status : Status, down : BOOLEAN, up : BOOLEAN]

LEMMA StatusIs ==
  /\ isStatusLocked \subseteq Status /\ IsUploading \subseteq Status /\ IsDownloading \subseteq Status
  /\ {"idling", "downloading", "verifying", "pending-verification", "moving", "allocating", "error", "retrying"}
       \subseteq Status \ IsUploading
  /\ isStatusLocked \cap IsUploading = {}
  /\ \A d, u \in BOOLEAN : computeStatus(d, u) \in Status /\ (computeStatus(d, u) \in IsUploading => u)
BY DEF Status, isStatusLocked, IsUploading, IsDownloading, computeStatus

LEMMA ShownIs ==
  ASSUME NEW s \in Status
  PROVE  row.status \in Status => ShowsRow(s) \in Status /\ (ShowsRow(s) \in IsUploading => s \in IsUploading)
BY StatusIs DEF ShowsRow

\* A row whose status is set keeps its switches.
LEMMA StatusSet ==
  ASSUME row \in RowType, NEW s \in Status, Update([row EXCEPT !.status = s])
  PROVE  /\ row' \in RowType /\ row'.there = row.there /\ row'.down = row.down /\ row'.up = row.up
         /\ row'.status = IF row.there THEN s ELSE row.status
BY DEF Update, RowType

LEMMA HearsKeep ==
  ASSUME DownloadsInv, NEW event, Hears(event), Takes(event), row' \in RowType,
         activeDown' \in BOOLEAN, activeUp' \in BOOLEAN, downTimer' \in BOOLEAN, upTimer' \in BOOLEAN,
         restored' \in BOOLEAN,
         fetches' \subseteq {"verified", "resumed"}, UploadHeard'
  PROVE  DownloadsInv'
<1>1. /\ wire # <<>> /\ Head(wire) = event /\ wire' = Tail(wire)
      /\ UNCHANGED <<load, listed, older, subscribed, lish, lost, downloadEvents>>
  BY DEF Hears, loadVars
<1>2. DownloadsTypes /\ NothingGone /\ Loading
  BY DEF DownloadsInv
<1>3. wire \in Seq(DownloadEvent) /\ Len(wire) <= MaxWire + 2
  BY <1>2 DEF DownloadsTypes
<1>4. wire' \in Seq(DownloadEvent) /\ Len(wire') = Len(wire) - 1 /\ Len(wire) \in Nat /\ Head(wire) = wire[1]
  BY <1>1, <1>3, FewerIs
<1>5. Len(wire') <= MaxWire + 2
  BY <1>3, <1>4, DownloadsAssumption
<1>6. DownloadsTypes'
  BY <1>1, <1>2, <1>4, <1>5 DEF DownloadsTypes, RowType
<1>7. NothingGone'
  BY <1>1, <1>2 DEF NothingGone
<1>8. subscribed
  BY <1>1, <1>2 DEF Loading
<1>9. Tracks => Tracks'
  <2>1. /\ lish.there \in BOOLEAN /\ lish.down \in BOOLEAN /\ lish.up \in BOOLEAN
        /\ row.there \in BOOLEAN /\ row'.there \in BOOLEAN /\ row'.down \in BOOLEAN /\ row'.up \in BOOLEAN
    BY <1>2 DEF DownloadsTypes, RowType
  <2>2. Takes(wire[1])
    BY <1>1, <1>4
  <2>3. QED
    BY <1>1, <1>3, <2>1, <2>2, FewerTracks
<1>10. Loading'
  <2>1. (load' = "on" => subscribed') /\ (~subscribed' => wire' = <<>>)
    BY <1>1, <1>8
  <2>2. load' = "details" /\ ~lost' => listed'.down = lish'.down /\ listed'.up = lish'.up
    BY <1>1, <1>2 DEF Loading
  <2>3. load' \in {"transfers", "subscribe", "on"} /\ ~lost' => Tracks'
    BY <1>1, <1>2, <1>9 DEF Loading
  <2>4. QED
    BY <2>1, <2>2, <2>3 DEF Loading
<1>11. QED
  BY <1>6, <1>7, <1>10 DEF DownloadsInv

\* An event of no switch, or one that sets the status besides.
Neutral(event) == event \notin SetsThere /\ event \notin SetsDown /\ event \notin SetsUp

LEMMA NeutralAre ==
  \A event \in {"verify:queued", "verify:started", "verify:file", "verify:files", "verify:done", "move:on",
                "move:off", "progress", "progress:alone", "allocating", "rechecking", "retrying", "resumed",
                "complete", "upload:progress", "upload:stopped"} : Neutral(event)
BY EventsAre DEF Neutral

LEMMA ViewTypes ==
  ASSUME DownloadsInv
  PROVE  /\ row \in RowType /\ row.there \in BOOLEAN /\ row.status \in Status
         /\ activeDown \in BOOLEAN /\ activeUp \in BOOLEAN /\ downTimer \in BOOLEAN /\ upTimer \in BOOLEAN /\ restored \in BOOLEAN
         /\ fetches \subseteq {"verified", "resumed"}
         /\ (activeUp => upTimer) /\ (row.there /\ row.status \in IsUploading => activeUp \/ restored)
BY DEF DownloadsInv, DownloadsTypes, RowType, UploadHeard

LEMMA OthersKeep ==
  ASSUME DownloadsInv, NEW event, Hears(event), Neutral(event), row' \in RowType,
         row'.there = row.there, row'.down = row.down, row'.up = row.up,
         activeDown' \in BOOLEAN, activeUp' \in BOOLEAN, downTimer' \in BOOLEAN, upTimer' \in BOOLEAN,
         restored' \in BOOLEAN,
         fetches' \subseteq {"verified", "resumed"}, UploadHeard'
  PROVE  DownloadsInv'
<1>1. event # "add" /\ event # "remove"
  BY DEF Neutral, SetsThere
<1>2. Takes(event)
  BY <1>1 DEF Takes, Neutral
<1>3. QED
  BY <1>2, HearsKeep

\* An event of no switch that sets the status at most, and to no upload.
LEMMA ShowsKeep ==
  ASSUME DownloadsInv, NEW event, Hears(event), Neutral(event), NEW s \in Status, s \in IsUploading => activeUp,
         Update([row EXCEPT !.status = s]) \/ row' = row,
         activeDown' \in BOOLEAN, UNCHANGED <<activeUp, restored, upTimer>>, downTimer' \in BOOLEAN,
         fetches' \subseteq {"verified", "resumed"}
  PROVE  DownloadsInv'
<1>1. /\ row' \in RowType /\ row'.there = row.there /\ row'.down = row.down /\ row'.up = row.up
      /\ row'.status = s \/ row'.status = row.status
  BY StatusSet, ViewTypes
<1>2. UploadHeard'
  BY <1>1, ViewTypes DEF UploadHeard
<1>3. QED
  BY <1>1, <1>2, OthersKeep, ViewTypes

LEMMA AddedKeeps ==
  ASSUME DownloadsInv, LishAdded \/ LishRemoved
  PROVE  DownloadsInv'
<1>1. NoRow \in RowType /\ ~NoRow.there /\ ~NoRow.down /\ ~NoRow.up /\ NoRow.status = "idling"
  BY DEF NoRow, RowType, Status
<1>2. CASE LishAdded
  <2>1. Hears("add") /\ UNCHANGED <<activeDown, activeUp, restored, downTimer, upTimer, fetches>>
    BY <1>2 DEF LishAdded, OnlyRow, ActiveKept, TimersKept
  <2>2. PICK s \in {"downloading", "idling"} : row' = [NoRow EXCEPT !.there = TRUE, !.status = s]
    BY <1>2 DEF LishAdded
  <2>3. s \in Status /\ s \notin IsUploading
    BY StatusIs
  <2>4. row' \in RowType /\ row'.there /\ ~row'.down /\ ~row'.up /\ row'.status = s
    BY <1>1, <2>2, <2>3 DEF RowType
  <2>5. Takes("add")
    BY <2>4 DEF Takes, SetsThere
  <2>6. UploadHeard'
    BY <2>1, <2>3, <2>4, ViewTypes DEF UploadHeard
  <2>7. QED
    BY <2>1, <2>4, <2>5, <2>6, HearsKeep, ViewTypes
<1>3. CASE LishRemoved
  <2>1. Hears("remove") /\ row' = NoRow /\ ~activeDown' /\ UNCHANGED <<activeUp, restored, downTimer, upTimer, fetches>>
        /\ activeDown' = FALSE
    BY <1>3 DEF LishRemoved, TimersKept
  <2>2. Takes("remove")
    BY <1>1, <2>1 DEF Takes, SetsThere
  <2>3. UploadHeard'
    BY <1>1, <2>1, StatusIs, ViewTypes DEF UploadHeard
  <2>4. QED
    BY <1>1, <2>1, <2>2, <2>3, HearsKeep, ViewTypes
<1>4. QED
  BY <1>2, <1>3

LEMMA VerifyKeeps ==
  ASSUME DownloadsInv, VerifyHeard \/ MoveStatus \/ DownloadRetrying
  PROVE  DownloadsInv'
<1>1. PICK event \in {"verify:queued", "verify:started", "verify:file", "verify:files", "move:on", "move:off",
                      "retrying"},
           s \in {"pending-verification", "verifying", "idling", "moving", "retrying"} :
        /\ Hears(event) /\ OnlyRow
        /\ Update([row EXCEPT !.status = s]) \/ row' = row
  BY DEF VerifyHeard, VerifyShown, MoveStatus, DownloadRetrying, Update
<1>2. Neutral(event) /\ s \in Status /\ s \notin IsUploading
  BY NeutralAre, StatusIs
<1>3. UNCHANGED <<activeDown, activeUp, restored, downTimer, upTimer, fetches>>
  BY <1>1 DEF OnlyRow, ActiveKept, TimersKept
<1>4. QED
  BY <1>1, <1>2, <1>3, ShowsKeep, ViewTypes

LEMMA WorkKeeps ==
  ASSUME DownloadsInv,
         VerifyDone \/ Allocating \/ Rechecking \/ DownloadProgress \/ DownloadComplete \/ DownloadResumed
           \/ UploadStopped
  PROVE  DownloadsInv'
<1>1. "idling" \in Status /\ "idling" \notin IsUploading /\ "allocating" \in Status /\ "verifying" \in Status
      /\ "allocating" \notin IsUploading /\ "verifying" \notin IsUploading
  BY StatusIs
<1>2. CASE VerifyDone
  <2>1. Hears("verify:done") /\ fetches' = fetches \cup {"verified"} /\ row' = row
        /\ UNCHANGED <<activeDown, activeUp, restored, downTimer, upTimer>>
    BY <1>2 DEF VerifyDone, ActiveKept, TimersKept
  <2>2. QED
    BY <1>1, <2>1, NeutralAre, ShowsKeep, ViewTypes
<1>3. CASE Allocating
  <2>1. Hears("allocating") /\ downTimer' = FALSE /\ UNCHANGED <<activeDown, activeUp, restored, upTimer, fetches>>
        /\ (Update([row EXCEPT !.status = "allocating"]) \/ row' = row)
    BY <1>3 DEF Allocating, ActiveKept, Update
  <2>2. QED
    BY <1>1, <2>1, NeutralAre, ShowsKeep, ViewTypes
<1>4. CASE Rechecking
  <2>1. Hears("rechecking") /\ downTimer' = FALSE /\ UNCHANGED <<activeDown, activeUp, restored, upTimer, fetches>>
        /\ Update([row EXCEPT !.status = "verifying"])
    BY <1>4 DEF Rechecking, ActiveKept
  <2>2. QED
    BY <1>1, <2>1, NeutralAre, ShowsKeep, ViewTypes
<1>5. CASE DownloadProgress
  <2>1. PICK hasPeers \in BOOLEAN :
          /\ Hears(IF hasPeers THEN "progress" ELSE "progress:alone")
          /\ activeDown' = hasPeers /\ downTimer' = TRUE /\ UNCHANGED <<activeUp, restored, upTimer, fetches>>
          /\ Update([row EXCEPT !.status = computeStatus(hasPeers, activeUp)]) \/ row' = row
    BY <1>5 DEF DownloadProgress, Update
  <2>2. PICK event \in {"progress", "progress:alone"} : Hears(event)
    BY <2>1
  <2> DEFINE s == computeStatus(hasPeers, activeUp)
  <2>3. Update([row EXCEPT !.status = s]) \/ row' = row
    BY <2>1
  <2>4. s \in Status /\ (s \in IsUploading => activeUp)
    BY <2>1, StatusIs, ViewTypes
  <2> HIDE DEF s
  <2>5. QED
    BY <2>1, <2>2, <2>3, <2>4, NeutralAre, ShowsKeep, ViewTypes
<1>6. CASE DownloadComplete
  <2> DEFINE s == ShowsRow(computeStatus(FALSE, activeUp))
  <2>1. Hears("complete") /\ activeDown' = FALSE /\ UNCHANGED <<activeUp, restored, downTimer, upTimer, fetches>>
        /\ Update([row EXCEPT !.status = s])
    BY <1>6 DEF DownloadComplete, Stopped, TimersKept
  <2>2. s \in Status /\ (s \in IsUploading => activeUp)
    BY StatusIs, ShownIs, ViewTypes
  <2> HIDE DEF s
  <2>3. QED
    BY <2>1, <2>2, NeutralAre, ShowsKeep, ViewTypes
<1>7. CASE DownloadResumed
  <2>1. Hears("resumed") /\ fetches' = fetches \cup {"resumed"} /\ row' = row
        /\ UNCHANGED <<activeDown, activeUp, restored, downTimer, upTimer>>
    BY <1>7 DEF DownloadResumed, ActiveKept, TimersKept
  <2>2. QED
    BY <1>1, <2>1, NeutralAre, ShowsKeep, ViewTypes
<1>8. CASE UploadStopped
  <2>1. Hears("upload:stopped") /\ upTimer' = TRUE
        /\ UNCHANGED <<row, activeDown, activeUp, restored, downTimer, fetches>>
    BY <1>8 DEF UploadStopped, ActiveKept
  <2>2. UploadHeard'
    BY <2>1, ViewTypes DEF UploadHeard
  <2>3. QED
    BY <2>1, <2>2, NeutralAre, OthersKeep, ViewTypes
<1>9. QED
  BY <1>2, <1>3, <1>4, <1>5, <1>6, <1>7, <1>8

\* The switches.
LEMMA DownSwitchKeeps ==
  ASSUME DownloadsInv, DownloadDisabled \/ DownloadEnabled \/ DownloadError
  PROVE  DownloadsInv'
<1>1. /\ \A event \in {"download:enabled", "download:disabled", "download:error"} :
           event \notin SetsThere /\ event \in SetsDown /\ event \notin SetsUp
      /\ "add" \in SetsThere /\ "remove" \in SetsThere
  BY DEF SetsThere, SetsDown, SetsUp
<1>2. PICK event \in {"download:enabled", "download:disabled", "download:error"}, s \in Status, down \in BOOLEAN :
        /\ Hears(event) /\ (down <=> event = "download:enabled")
        /\ row.there /\ s \in IsUploading => activeUp \/ restored
        /\ Update([row EXCEPT !.down = down, !.status = s])
        /\ activeDown' \in BOOLEAN /\ UNCHANGED <<activeUp, restored, downTimer, upTimer, fetches>>
  <2>1. CASE DownloadDisabled
    <3> DEFINE s == ShowsRow(computeStatus(FALSE, activeUp))
    <3>1. s \in Status /\ (s \in IsUploading => activeUp)
      BY StatusIs, ShownIs, ViewTypes
    <3>2. /\ Hears("download:disabled") /\ activeDown' = FALSE
          /\ UNCHANGED <<activeUp, restored, downTimer, upTimer, fetches>>
          /\ Update([row EXCEPT !.down = FALSE, !.status = s])
      BY <2>1 DEF DownloadDisabled, Stopped, TimersKept
    <3> HIDE DEF s
    <3>3. QED
      BY <3>1, <3>2
  <2>2. CASE DownloadEnabled
    <3> DEFINE s == IF row.status = "error" THEN "idling" ELSE row.status
    <3>1. s \in Status /\ (row.there /\ s \in IsUploading => activeUp \/ restored)
      BY StatusIs, ViewTypes
    <3>2. /\ Hears("download:enabled") /\ UNCHANGED <<activeDown, activeUp, restored, downTimer, upTimer, fetches>>
          /\ Update([row EXCEPT !.down = TRUE, !.status = s])
      BY <2>2 DEF DownloadEnabled, OnlyRow, ActiveKept, TimersKept
    <3> HIDE DEF s
    <3>3. QED
      BY <3>1, <3>2, ViewTypes
  <2>3. CASE DownloadError
    <3>1. "error" \in Status /\ "error" \notin IsUploading
      BY StatusIs
    <3>2. /\ Hears("download:error") /\ activeDown' = FALSE
          /\ UNCHANGED <<activeUp, restored, downTimer, upTimer, fetches>>
          /\ Update([row EXCEPT !.down = FALSE, !.status = "error"])
      BY <2>3 DEF DownloadError, Stopped, TimersKept
    <3>3. QED
      BY <3>1, <3>2
  <2>4. QED
    BY <2>1, <2>2, <2>3
<1>3. /\ row' \in RowType /\ row'.there = row.there /\ row'.up = row.up
      /\ row.there => row'.down = down
      /\ row'.status = s \/ row'.status = row.status
  BY <1>2, ViewTypes DEF Update, RowType
<1>4. Takes(event)
  BY <1>1, <1>2, <1>3 DEF Takes
<1>5. UploadHeard'
  BY <1>2, <1>3, ViewTypes DEF UploadHeard
<1>6. QED
  BY <1>2, <1>3, <1>4, <1>5, HearsKeep, ViewTypes

LEMMA UpSwitchKeeps ==
  ASSUME DownloadsInv, UploadDisabled \/ UploadEnabled \/ UploadError
  PROVE  DownloadsInv'
<1>1. /\ \A event \in {"upload:enabled", "upload:disabled", "upload:error"} :
           event \notin SetsThere /\ event \notin SetsDown /\ event \in SetsUp
      /\ "add" \in SetsThere /\ "remove" \in SetsThere
  BY DEF SetsThere, SetsDown, SetsUp
<1>2. PICK event \in {"upload:enabled", "upload:disabled", "upload:error"}, s \in Status, b \in BOOLEAN :
        /\ Hears(event) /\ (b <=> event = "upload:enabled")
        /\ row.there /\ s \in IsUploading => activeUp' \/ restored'
        /\ Update([row EXCEPT !.up = b, !.status = s])
        /\ activeUp' \in BOOLEAN /\ (activeUp' => activeUp) /\ restored' \in BOOLEAN
        /\ UNCHANGED <<activeDown, downTimer, upTimer, fetches>>
  <2>1. CASE UploadDisabled
    <3> DEFINE s == ShowsRow(computeStatus(activeDown, FALSE))
    <3>1. s \in Status /\ s \notin IsUploading
      BY StatusIs, ShownIs, ViewTypes
    <3>2. /\ Hears("upload:disabled") /\ activeUp' = FALSE /\ restored' = FALSE
          /\ UNCHANGED <<activeDown, downTimer, upTimer, fetches>>
          /\ Update([row EXCEPT !.up = FALSE, !.status = s])
      BY <2>1 DEF UploadDisabled, TimersKept
    <3> HIDE DEF s
    <3>3. QED
      BY <3>1, <3>2, ViewTypes
  <2>2. CASE UploadEnabled
    <3> DEFINE s == IF row.status = "error" THEN "idling" ELSE row.status
    <3>1. s \in Status /\ (row.there /\ s \in IsUploading => activeUp \/ restored)
      BY StatusIs, ViewTypes
    <3>2. /\ Hears("upload:enabled") /\ UNCHANGED <<activeDown, activeUp, restored, downTimer, upTimer, fetches>>
          /\ Update([row EXCEPT !.up = TRUE, !.status = s])
      BY <2>2 DEF UploadEnabled, OnlyRow, ActiveKept, TimersKept
    <3> HIDE DEF s
    <3>3. QED
      BY <3>1, <3>2, ViewTypes
  <2>3. CASE UploadError
    <3>1. "error" \in Status /\ "error" \notin IsUploading
      BY StatusIs
    <3>2. /\ Hears("upload:error") /\ activeUp' = FALSE /\ restored' = FALSE
          /\ UNCHANGED <<activeDown, downTimer, upTimer, fetches>>
          /\ Update([row EXCEPT !.up = FALSE, !.status = "error"])
      BY <2>3 DEF UploadError, TimersKept
    <3>3. QED
      BY <3>1, <3>2, ViewTypes
  <2>4. QED
    BY <2>1, <2>2, <2>3
<1>3. /\ row' \in RowType /\ row'.there = row.there /\ row'.down = row.down
      /\ row.there => row'.up = b /\ row'.status = s
      /\ ~row.there => row' = row
  BY <1>2, ViewTypes DEF Update, RowType
<1>4. Takes(event)
  BY <1>1, <1>2, <1>3 DEF Takes
<1>5. UploadHeard'
  BY <1>2, <1>3, ViewTypes DEF UploadHeard
<1>6. QED
  BY <1>2, <1>3, <1>4, <1>5, HearsKeep, ViewTypes

\* What moves neither the wire nor the switches: timers, answers, the user.
LEMMA StillKeeps ==
  ASSUME DownloadsInv, UNCHANGED <<load, listed, older, subscribed, wire, lish, lost>>,
         row' \in RowType, row'.there = row.there, row'.down = row.down, row'.up = row.up,
         activeDown' \in BOOLEAN, activeUp' \in BOOLEAN, downTimer' \in BOOLEAN, upTimer' \in BOOLEAN,
         restored' \in BOOLEAN,
         fetches' \subseteq {"verified", "resumed"}, downloadEvents' \in 0 .. MaxDownloadEvents, UploadHeard'
  PROVE  DownloadsInv'
<1>1. DownloadsTypes /\ NothingGone /\ Loading
  BY DEF DownloadsInv
<1>2. DownloadsTypes'
  BY <1>1 DEF DownloadsTypes, RowType
<1>3. NothingGone'
  BY <1>1 DEF NothingGone
<1>4. Tracks => Tracks'
  BY DEF Tracks, ThereTracks, DownTracks, UpTracks, LastOf, NoneOf
<1>5. Loading'
  BY <1>1, <1>4 DEF Loading
<1>6. QED
  BY <1>2, <1>3, <1>5 DEF DownloadsInv

LEMMA EventsCount ==
  ASSUME DownloadsInv
  PROVE  /\ downloadEvents \in 0 .. MaxDownloadEvents
         /\ downloadEvents < MaxDownloadEvents /\ downloadEvents' = downloadEvents + 1
              => downloadEvents' \in 0 .. MaxDownloadEvents
BY DownloadsAssumption DEF DownloadsInv, DownloadsTypes

\* A status that is set between two events.
LEMMA StatusKeeps ==
  ASSUME DownloadsInv, UNCHANGED <<load, listed, older, subscribed, wire, lish, lost>>,
         NEW s \in Status, Update([row EXCEPT !.status = s]) \/ row' = row,
         activeUp' \in BOOLEAN, upTimer' \in BOOLEAN, restored' \in BOOLEAN, activeUp' => upTimer',
         row.there /\ row'.status \in IsUploading => activeUp' \/ restored',
         UNCHANGED activeDown, downTimer' \in BOOLEAN, fetches' \subseteq {"verified", "resumed"},
         downloadEvents' \in 0 .. MaxDownloadEvents
  PROVE  DownloadsInv'
<1>1. row' \in RowType /\ row'.there = row.there /\ row'.down = row.down /\ row'.up = row.up
  BY StatusSet, ViewTypes
<1>2. UploadHeard'
  BY <1>1 DEF UploadHeard
<1>3. QED
  BY <1>1, <1>2, StillKeeps, ViewTypes

LEMMA UploadProgressKeeps ==
  ASSUME DownloadsInv, UploadProgress
  PROVE  DownloadsInv'
<1> DEFINE s == ShowsRow(computeStatus(row.status \in IsDownloading \/ activeDown, TRUE))
<1>1. /\ Hears("upload:progress") /\ activeUp' = TRUE /\ upTimer' = TRUE /\ restored' = FALSE
      /\ Update([row EXCEPT !.status = s]) /\ UNCHANGED <<activeDown, downTimer, fetches>>
  BY DEF UploadProgress
<1>2. (row.status \in IsDownloading \/ activeDown) \in BOOLEAN
  OBVIOUS
<1>3. s \in Status
  BY <1>2, StatusIs, ShownIs, ViewTypes
<1> HIDE DEF s
<1>4. row' \in RowType /\ row'.there = row.there /\ row'.down = row.down /\ row'.up = row.up
  BY <1>1, <1>3, StatusSet, ViewTypes
<1>5. UploadHeard'
  BY <1>1 DEF UploadHeard
<1>6. QED
  BY <1>1, <1>4, <1>5, NeutralAre, OthersKeep, ViewTypes

LEMMA StaleKeeps ==
  ASSUME DownloadsInv, DownloadStale \/ UploadStale
  PROVE  DownloadsInv'
<1>1. CASE DownloadStale
  <2> DEFINE s == ShowsRow(computeStatus(FALSE, activeUp))
  <2>1. /\ downTimer' = FALSE /\ Update([row EXCEPT !.status = s])
        /\ UNCHANGED <<activeDown, activeUp, restored, upTimer, fetches, load, listed, older, subscribed, wire, lish, lost,
                       downloadEvents>>
    BY <1>1 DEF DownloadStale, ActiveKept, loadVars
  <2>2. s \in Status /\ (s \in IsUploading => activeUp)
    BY StatusIs, ShownIs, ViewTypes
  <2> HIDE DEF s
  <2>3. row.there /\ row'.status \in IsUploading => activeUp' \/ restored'
    BY <2>1, <2>2, StatusSet, ViewTypes
  <2>4. QED
    BY <2>1, <2>2, <2>3, StatusKeeps, ViewTypes, EventsCount
<1>2. CASE UploadStale
  <2> DEFINE s == ShowsRow(computeStatus(activeDown, FALSE))
  <2>1. /\ upTimer' = FALSE /\ activeUp' = FALSE /\ restored' = FALSE /\ Update([row EXCEPT !.status = s])
        /\ UNCHANGED <<activeDown, downTimer, fetches, load, listed, older, subscribed, wire, lish, lost,
                       downloadEvents>>
    BY <1>2 DEF UploadStale, loadVars
  <2>2. s \in Status /\ s \notin IsUploading
    BY StatusIs, ShownIs, ViewTypes
  <2> HIDE DEF s
  <2>3. row.there /\ row'.status \in IsUploading => activeUp' \/ restored'
    BY <2>1, <2>2, StatusSet, ViewTypes
  <2>4. QED
    BY <2>1, <2>2, <2>3, StatusKeeps, ViewTypes, EventsCount
<1>3. QED
  BY <1>1, <1>2

LEMMA FetchedKeeps ==
  ASSUME DownloadsInv, VerifiedFetched \/ ResumedFetched
  PROVE  DownloadsInv'
<1>1. PICK s \in {"idling", "downloading"} :
        /\ Update([row EXCEPT !.status = s]) \/ row' = row
        /\ fetches' \subseteq fetches
        /\ UNCHANGED <<activeDown, activeUp, restored, downTimer, upTimer, load, listed, older, subscribed, wire, lish, lost,
                       downloadEvents>>
  BY DEF VerifiedFetched, ResumedFetched, Fetched, ActiveKept, TimersKept, loadVars, Update
<1>2. s \in Status /\ s \notin IsUploading
  BY StatusIs
<1>3. row.there /\ row'.status \in IsUploading => activeUp' \/ restored'
  BY <1>1, <1>2, StatusSet, ViewTypes
<1>4. QED
  BY <1>1, <1>2, <1>3, StatusKeeps, ViewTypes, EventsCount

LEMMA UserKeeps ==
  ASSUME DownloadsInv, resetVerifyState \/ setMovingStatus
  PROVE  DownloadsInv'
<1>1. PICK s \in {"pending-verification", "moving"} :
        /\ Local([row EXCEPT !.status = s])
  BY DEF resetVerifyState, setMovingStatus
<1>2. /\ Update([row EXCEPT !.status = s])
      /\ downloadEvents < MaxDownloadEvents /\ downloadEvents' = downloadEvents + 1
      /\ UNCHANGED <<activeDown, activeUp, restored, downTimer, upTimer, fetches, load, listed, older, subscribed, wire, lish,
                     lost>>
  BY <1>1 DEF Local, OnlyRow, ActiveKept, TimersKept, loadVars, Update
<1>3. s \in Status /\ s \notin IsUploading
  BY StatusIs
<1>4. row.there /\ row'.status \in IsUploading => activeUp' \/ restored'
  BY <1>2, <1>3, StatusSet, ViewTypes
<1>5. QED
  BY <1>2, <1>3, <1>4, StatusKeeps, ViewTypes, EventsCount

-----------------------------------------------------------------------------
(* The loads.                                                              *)

LEMMA TracksStill ==
  ASSUME UNCHANGED <<wire, lish>>, row'.there = row.there, row'.down = row.down, row'.up = row.up
  PROVE  Tracks => Tracks'
BY DEF Tracks, ThereTracks, DownTracks, UpTracks, LastOf, NoneOf

LEMMA NoRowIs == NoRow \in RowType /\ ~NoRow.there /\ NoRow.there \in BOOLEAN
BY DEF NoRow, RowType, Status

LEMMA ConnectKeeps ==
  ASSUME DownloadsInv, Connect \/ List
  PROVE  DownloadsInv'
<1> USE DEF DownloadsInv
<1>1. /\ UNCHANGED <<row, activeDown, activeUp, restored, downTimer, upTimer, fetches, older, subscribed, wire, lish,
                     downloadEvents>>
      /\ wire = <<>> /\ load' \in {"list", "details"}
  BY DEF Connect, List, Loads, viewVars
<1>2. /\ listed' \in [down : BOOLEAN, up : BOOLEAN, work : Work] /\ lost' \in BOOLEAN
      /\ load' = "details" => listed'.down = lish.down /\ listed'.up = lish.up
  <2>1. CASE Connect
    BY <2>1 DEF Connect, Loads, DownloadsTypes
  <2>2. CASE List
    <3>1. lish.down \in BOOLEAN /\ lish.up \in BOOLEAN /\ lish.work \in Work
      BY DEF DownloadsTypes
    <3>2. lost' = FALSE /\ listed' = [down |-> lish.down, up |-> lish.up, work |-> lish.work]
      BY <2>2 DEF List
    <3>3. listed' \in [down : BOOLEAN, up : BOOLEAN, work : Work]
      BY <3>1, <3>2
    <3>4. listed'.down = lish.down /\ listed'.up = lish.up
      BY <3>2
    <3>5. QED
      BY <3>2, <3>3, <3>4
  <2>3. QED
    BY <2>1, <2>2
<1>3. DownloadsTypes'
  BY <1>1, <1>2 DEF DownloadsTypes
<1>4. NothingGone' /\ UploadHeard'
  BY <1>1 DEF NothingGone, UploadHeard
<1>5. Loading'
  BY <1>1, <1>2 DEF Loading
<1>6. QED
  BY <1>3, <1>4, <1>5

LEMMA DetailsKeeps ==
  ASSUME DownloadsInv, Details
  PROVE  DownloadsInv'
<1> USE DEF DownloadsInv
<1>1. /\ UNCHANGED <<activeDown, activeUp, downTimer, upTimer, fetches, listed, older, subscribed, wire, lish, lost,
                     downloadEvents>>
      /\ restored' = FALSE /\ wire = <<>> /\ load = "details" /\ load' = "transfers"
  BY DEF Details, Loads, TimersKept
<1>2. /\ lish.there => /\ row'.there = TRUE /\ row'.down = listed.down /\ row'.up = listed.up
                       /\ row'.status \in {"moving", "verifying", "idling", "pending-verification", "error"}
      /\ ~lish.there => row' = NoRow
  BY DEF Details
<1>3. row' \in RowType
  <2>1. CASE lish.there
    <3>1. PICK s \in {"moving", "verifying", "idling", "pending-verification", "error"} :
            row' = [there |-> TRUE, down |-> listed.down, up |-> listed.up, status |-> s]
      BY <2>1 DEF Details
    <3>2. listed.down \in BOOLEAN /\ listed.up \in BOOLEAN
      BY DEF DownloadsTypes
    <3>3. s \in Status
      BY StatusIs
    <3>4. QED
      BY <3>1, <3>2, <3>3 DEF RowType
  <2>2. CASE ~lish.there
    BY <1>2, <2>2, NoRowIs
  <2>3. QED
    BY <2>1, <2>2
<1>4. DownloadsTypes'
  BY <1>1, <1>3 DEF DownloadsTypes, RowType
<1>5. NothingGone'
  BY <1>1 DEF NothingGone
<1>6. UploadHeard'
  <2>1. ~row'.there \/ row'.status \notin IsUploading
    BY <1>2, StatusIs DEF NoRow
  <2>2. QED
    BY <1>1, <2>1, ViewTypes DEF UploadHeard
<1>7. ~lost' => Tracks'
  <2>1. Len(wire') = 0
    BY <1>1
  <2>2. ~lost' => listed.down = lish.down /\ listed.up = lish.up
    BY <1>1 DEF Loading
  <2>3. lish'.there /\ ~lost' => row'.down = lish'.down /\ row'.up = lish'.up
    BY <1>1, <1>2, <2>2
  <2>6. row'.there = lish'.there
    <3>1. lish.there \in BOOLEAN
      BY DEF DownloadsTypes
    <3>2. CASE lish.there
      BY <1>1, <1>2, <3>1, <3>2
    <3>3. CASE ~lish.there
      BY <1>1, <1>2, <3>1, <3>3, NoRowIs
    <3>4. QED
      BY <3>2, <3>3
  <2>4. \A j : j \notin 1 .. Len(wire')
    BY <2>1
  <2>5. QED
    BY <2>3, <2>4, <2>6 DEF Tracks, ThereTracks, DownTracks, UpTracks
<1>8. Loading'
  BY <1>1, <1>7 DEF Loading
<1>9. QED
  BY <1>4, <1>5, <1>6, <1>8

LEMMA TransfersKeeps ==
  ASSUME DownloadsInv, Transfers
  PROVE  DownloadsInv'
<1> USE DEF DownloadsInv
<1>1. /\ UNCHANGED <<activeDown, activeUp, downTimer, upTimer, fetches, listed, older, subscribed, wire, lish, lost,
                     downloadEvents>>
      /\ wire = <<>> /\ load = "transfers" /\ load' = "subscribe"
      /\ restored' = (~activeUp /\ row'.status \in IsUploading)
  BY DEF Transfers, Loads, TimersKept
<1>2. PICK isAllocating \in BOOLEAN, isDown \in BOOLEAN, isUp \in BOOLEAN :
        LET s == IF isAllocating THEN "allocating" ELSE computeStatus(isDown, isUp) IN
        Update([row EXCEPT !.status = ShowsRow(s)]) \/ row' = row
  BY DEF Transfers, Update
<1> DEFINE s == IF isAllocating THEN "allocating" ELSE computeStatus(isDown, isUp)
           stands == ShowsRow(s)
<1>3. s \in Status
  BY StatusIs
<1>5. Update([row EXCEPT !.status = stands]) \/ row' = row
  BY <1>2
<1> HIDE DEF s
<1>4. stands \in Status
  BY <1>3, ShownIs, ViewTypes
<1> HIDE DEF stands
<1>6. row' \in RowType /\ row'.there = row.there /\ row'.down = row.down /\ row'.up = row.up
  BY <1>4, <1>5, StatusSet, ViewTypes
<1>61. restored' \in BOOLEAN
  BY <1>1
<1>7. DownloadsTypes'
  BY <1>1, <1>6, <1>61 DEF DownloadsTypes, RowType
<1>8. NothingGone'
  BY <1>1 DEF NothingGone
<1>9. row'.status \in IsUploading => activeUp' \/ restored'
  BY <1>1, ViewTypes
<1>10. UploadHeard'
  BY <1>1, <1>9, ViewTypes DEF UploadHeard
<1>11. Tracks => Tracks'
  BY <1>1, <1>6, TracksStill
<1>12. Loading'
  BY <1>1, <1>11 DEF Loading
<1>13. QED
  BY <1>7, <1>8, <1>10, <1>12

LEMMA SubscribeKeeps ==
  ASSUME DownloadsInv, Subscribe \/ OlderSubscribes
  PROVE  DownloadsInv'
<1> USE DEF DownloadsInv
<1>1. /\ UNCHANGED <<row, activeDown, activeUp, restored, downTimer, upTimer, fetches, listed, wire, lish, lost, downloadEvents>>
      /\ subscribed' = TRUE
  BY DEF Subscribe, OlderSubscribes, Loads, viewVars
<1>2. /\ (load = "subscribe" /\ load' = "on") \/ load' = load
      /\ older' \in BOOLEAN
  BY DEF Subscribe, OlderSubscribes, Loads, DownloadsTypes
<1>3. DownloadsTypes'
  BY <1>1, <1>2 DEF DownloadsTypes
<1>4. NothingGone' /\ UploadHeard'
  BY <1>1 DEF NothingGone, UploadHeard
<1>5. Tracks => Tracks'
  BY <1>1, TracksStill
<1>6. Loading'
  BY <1>1, <1>2, <1>5 DEF Loading
<1>7. QED
  BY <1>3, <1>4, <1>6

LEMMA DisconnectKeeps ==
  ASSUME DownloadsInv, Disconnect
  PROVE  DownloadsInv'
<1> USE DEF DownloadsInv
<1>1. /\ UNCHANGED <<activeDown, activeUp, restored, downTimer, upTimer, listed, lish, lost>>
      /\ load' = "off" /\ wire' = <<>> /\ subscribed' = FALSE /\ fetches' = {}
      /\ row' = NoRow \/ row' = row
      /\ older' = (older \/ load # "on")
  BY DEF Disconnect, ActiveKept, TimersKept
<1>2. downloadEvents' \in 0 .. MaxDownloadEvents
  BY EventsCount DEF Disconnect
<1>3. row' \in RowType
  BY <1>1, ViewTypes, NoRowIs
<1>4. wire' \in Seq(DownloadEvent) /\ Len(wire') <= MaxWire + 2
  BY <1>1, DownloadsAssumption
<1>5. older' \in BOOLEAN
  BY <1>1 DEF DownloadsTypes
<1>6. DownloadsTypes'
  <2>1. /\ row' \in [there : BOOLEAN, status : Status, down : BOOLEAN, up : BOOLEAN]
        /\ subscribed' \in BOOLEAN /\ fetches' \subseteq {"verified", "resumed"}
        /\ load' \in {"off", "list", "details", "transfers", "subscribe", "on"}
    BY <1>1, <1>3 DEF RowType
  <2>2. /\ activeDown' \in BOOLEAN /\ activeUp' \in BOOLEAN /\ downTimer' \in BOOLEAN /\ upTimer' \in BOOLEAN
        /\ restored' \in BOOLEAN /\ lost' \in BOOLEAN /\ listed' \in [down : BOOLEAN, up : BOOLEAN, work : Work]
        /\ lish' \in [there : BOOLEAN, down : BOOLEAN, up : BOOLEAN, work : Work]
    BY <1>1 DEF DownloadsTypes
  <2>3. QED
    BY <1>2, <1>4, <1>5, <2>1, <2>2, Zenon DEF DownloadsTypes
<1>7. NothingGone'
  BY <1>1 DEF NothingGone
<1>8. UploadHeard'
  BY <1>1 DEF UploadHeard, NoRow
<1>9. Loading'
  BY <1>1 DEF Loading
<1>10. QED
  BY <1>6, <1>7, <1>8, <1>9

-----------------------------------------------------------------------------
LEMMA DownloadsInitHolds == DownloadsInit => DownloadsInv
<1> SUFFICES ASSUME DownloadsInit PROVE DownloadsInv
  OBVIOUS
<1> USE DEF DownloadsInit
<1>1. row \in RowType
  BY DEF NoRow, RowType, Status
<1>2. /\ lish \in [there : BOOLEAN, down : BOOLEAN, up : BOOLEAN, work : Work]
      /\ listed \in [down : BOOLEAN, up : BOOLEAN, work : Work]
  BY DEF Work
<1>3. wire \in Seq(DownloadEvent) /\ Len(wire) <= MaxWire + 2
  BY DownloadsAssumption
<1>4. DownloadsTypes
  <2>1. downloadEvents \in 0 .. MaxDownloadEvents
    BY DownloadsAssumption
  <2>2. /\ activeDown \in BOOLEAN /\ activeUp \in BOOLEAN /\ downTimer \in BOOLEAN /\ upTimer \in BOOLEAN /\ restored \in BOOLEAN
        /\ older \in BOOLEAN /\ subscribed \in BOOLEAN /\ lost \in BOOLEAN
        /\ fetches \subseteq {"verified", "resumed"}
        /\ load \in {"off", "list", "details", "transfers", "subscribe", "on"}
    OBVIOUS
  <2>3. QED
    BY <1>1, <1>2, <1>3, <2>1, <2>2 DEF DownloadsTypes, RowType
<1>5. NothingGone /\ Loading /\ UploadHeard
  BY DEF NothingGone, Loading, UploadHeard, NoRow
<1>6. QED
  BY <1>4, <1>5 DEF DownloadsInv

LEMMA DownloadsNextHolds == DownloadsInv /\ [DownloadsNext]_downloadsVars => DownloadsInv'
<1> SUFFICES ASSUME DownloadsInv, [DownloadsNext]_downloadsVars
             PROVE  DownloadsInv'
  OBVIOUS
<1>1. CASE UNCHANGED downloadsVars
  BY <1>1 DEF downloadsVars, viewVars, loadVars, DownloadsInv, DownloadsTypes, NothingGone, Loading, UploadHeard,
              Tracks, ThereTracks, DownTracks, UpTracks, LastOf, NoneOf
<1>2. CASE DownloadsNext
  BY <1>2, AddsKeep, BackendMoves, TellsKeep, TwoKeep, AddedKeeps, VerifyKeeps, WorkKeeps, DownSwitchKeeps,
     UpSwitchKeeps, UploadProgressKeeps, StaleKeeps, FetchedKeeps, UserKeeps, ConnectKeeps, DetailsKeeps,
     TransfersKeeps, SubscribeKeeps, DisconnectKeeps DEF DownloadsNext
<1>3. QED
  BY <1>1, <1>2

LEMMA DownloadsAreSafe == DownloadsInv => DownloadsTypeOK /\ FlagsFollow /\ UploadIsHeard
<1> SUFFICES ASSUME DownloadsInv PROVE DownloadsTypeOK /\ FlagsFollow /\ UploadIsHeard
  OBVIOUS
<1> USE DEF DownloadsInv
<1>1. DownloadsTypeOK
  BY DEF DownloadsTypeOK, DownloadsTypes
<1>2. FlagsFollow
  <2>1. ASSUME load = "on", wire = <<>>, ~lost
        PROVE  row.there = lish.there /\ (row.there => row.down = lish.down /\ row.up = lish.up)
    <3>1. Tracks
      BY <2>1 DEF Loading
    <3>2. \A j : j \notin 1 .. Len(wire)
      BY <2>1
    <3>3. QED
      BY <3>1, <3>2 DEF Tracks, ThereTracks, DownTracks, UpTracks, NoneOf
  <2>2. QED
    BY <2>1 DEF FlagsFollow
<1>3. UploadIsHeard
  BY DEF UploadIsHeard, UploadHeard
<1>4. QED
  BY <1>1, <1>2, <1>3

LEMMA DownloadsMove == mcInit => DownloadsInit
BY DEF mcInit

LEMMA DownloadsStep == [mcNext]_allVars => [DownloadsNext]_downloadsVars
<1>1. UNCHANGED allVars => UNCHANGED downloadsVars
  BY DEF allVars
<1>2. mcNext => DownloadsNext \/ UNCHANGED downloadsVars
  BY DEF mcNext, Sameness
<1>3. QED
  BY <1>1, <1>2

(* The row of a LISH has the switches the backend has once all is heard,   *)
(* through losses, loads and late events, and shows an upload only while   *)
(* one is heard of, or because the last load was told of it (downloads.ts),*)
(* however many events there are and however many are under way.           *)
THEOREM RowsFollow == mcSpec => []RowFollows
<1>1. mcInit => DownloadsInv
  BY DownloadsMove, DownloadsInitHolds
<1>2. DownloadsInv /\ [mcNext]_allVars => DownloadsInv'
  BY DownloadsStep, DownloadsNextHolds
<1>3. DownloadsInv => RowFollows
  BY DownloadsAreSafe DEF RowFollows
<1>4. QED
  BY <1>1, <1>2, <1>3, PTL DEF mcSpec

-----------------------------------------------------------------------------
(***************************************************************************)
(* The search session.  The rows go when a start is through its cancel,    *)
(* and from then on until the new search is known none may come: the old   *)
(* search is not running and nothing it found is under way (Emptying),     *)
(* because what it found was sent before the answer to its cancel.  Each   *)
(* call has one answer under way at most (Answers).                        *)
(***************************************************************************)

Starter == {"start", "again"}
MessageType == [kind : {"update", "complete", "cancelled", "started", "refused"},
                id : Searches \cup {NoSearch}, slot : Slots \cup {"none"}]

SearchTypes ==
  /\ searchID \in Searches \cup {NoSearch} /\ results \subseteq Searches /\ running \subseteq Searches
  /\ searching \in BOOLEAN /\ disposed \in BOOLEAN /\ overlapped \in BOOLEAN
  /\ call \in [Slots -> [at : {"none", "cancelling", "starting", "begun"}, id : Searches \cup {NoSearch}]]
  /\ count \in 0 .. MaxSearches
  /\ socket \in Seq(MessageType) /\ Len(socket) <= MaxSocket

\* Searches are numbered as they begin.
Numbered ==
  /\ searchID <= count /\ (\A id \in running : id <= count) /\ (\A s \in Slots : call[s].id <= count)
  /\ \A i \in 1 .. Len(socket) : socket[i].id <= count

AnswerOf(m, held) ==
  /\ m.slot = "none" <=> m.kind \in {"update", "complete"}
  /\ m.kind = "update" => m.id # NoSearch
  /\ m.slot # "none" => held[m.slot].at = "begun" /\ held[m.slot].id = m.id
  /\ m.slot = "cancel" => m.kind = "cancelled"
Answers ==
  /\ \A i \in 1 .. Len(socket) : AnswerOf(socket[i], call)
  /\ \A i, j \in 1 .. Len(socket) : socket[i].slot = socket[j].slot /\ socket[i].slot # "none" => i = j
  /\ call["cancel"].at # "starting"

OneStart == ~overlapped => \A s, t \in Starter : call[s] # NoCall /\ call[t] # NoCall => s = t

\* Nothing more is found by a search.
Silent(id) ==
  /\ id \notin running
  /\ \A i \in 1 .. Len(socket) : socket[i].kind = "update" => socket[i].id # id
Emptied(s) ==
  \/ call[s].at = "starting"
  \/ \E i \in 1 .. Len(socket) : socket[i].slot = s /\ socket[i].kind \in {"started", "refused"}
CancelledAt(i) ==
  /\ searchID \in {socket[i].id, NoSearch} /\ socket[i].id \notin running
  /\ \A j \in 1 .. Len(socket) : j > i /\ socket[j].kind = "update" => socket[j].id # socket[i].id
Emptying ==
  ~overlapped => \A s \in Starter :
    /\ Emptied(s) => results = {} /\ Silent(searchID)
    /\ call[s].at = "cancelling" => searchID \in {call[s].id, NoSearch}
    /\ \A i \in 1 .. Len(socket) : socket[i].slot = s /\ socket[i].kind = "cancelled" => CancelledAt(i)

SearchInv == SearchTypes /\ Numbered /\ Answers /\ OneStart /\ Emptying /\ OneSearchsRows

LEMMA AppendedIs ==
  ASSUME NEW S, NEW s \in Seq(S), NEW m \in S, NEW t, t = Append(s, m)
  PROVE  /\ t \in Seq(S) /\ Len(s) \in Nat /\ Len(t) = Len(s) + 1 /\ t[Len(t)] = m
         /\ \A i \in 1 .. Len(s) : i \in 1 .. Len(t) /\ i < Len(t) /\ t[i] = s[i]
         /\ \A i \in 1 .. Len(t) : i \in 1 .. Len(s) \/ i = Len(t)
BY AppendProperties

LEMMA TakenIs ==
  ASSUME NEW S, NEW s \in Seq(S), s # <<>>, NEW t, t = Tail(s)
  PROVE  /\ t \in Seq(S) /\ Len(s) \in Nat /\ Len(t) = Len(s) - 1 /\ Head(s) = s[1] /\ 1 \in 1 .. Len(s)
         /\ s[1] \in S
         /\ \A i \in 1 .. Len(t) : i + 1 \in 1 .. Len(s) /\ i + 1 # 1 /\ t[i] = s[i + 1]
<1>1. /\ t \in Seq(S) /\ Len(t) = Len(s) - 1 /\ Len(s) \in Nat /\ Len(s) >= 1
      /\ Head(s) = s[1] /\ 1 \in 1 .. Len(s)
      /\ \A i \in 1 .. Len(s) - 1 : t[i] = s[i + 1]
  BY HeadTailProperties, EmptySeq
<1>2. s[1] \in S
  BY <1>1, ElementOfSeq
<1>3. QED
  BY <1>1, <1>2

\* What is known of the session's types, piece by piece.
LEMMA SearchIs ==
  ASSUME SearchInv
  PROVE  /\ searchID \in Nat /\ count \in Nat /\ searchID <= count /\ NoSearch = 0
         /\ \A id \in running : id \in Nat /\ id <= count /\ id # NoSearch
         /\ \A s \in Slots : /\ call[s].id \in Nat /\ call[s].id <= count
                             /\ call[s].at \in {"none", "cancelling", "starting", "begun"}
         /\ \A id \in Searches \cup {NoSearch} : id \in Nat
         /\ socket \in Seq(MessageType) /\ Len(socket) \in Nat
         /\ \A i \in 1 .. Len(socket) :
              /\ socket[i] \in MessageType /\ socket[i].slot \in Slots \cup {"none"}
              /\ socket[i].id \in Nat /\ socket[i].id <= count
<1> USE DEF SearchInv, SearchTypes
<1>1. \A id \in Searches \cup {NoSearch} : id \in Nat
  BY SearchesAssumption DEF Searches, NoSearch
<1>2. searchID \in Nat /\ count \in Nat /\ searchID <= count /\ NoSearch = 0
  BY <1>1, SearchesAssumption DEF NoSearch, Numbered
<1>3. \A id \in running : id \in Nat /\ id <= count /\ id # NoSearch
  BY SearchesAssumption DEF Searches, NoSearch, Numbered
<1>4. ASSUME NEW s \in Slots
      PROVE  call[s].id \in Nat /\ call[s].id <= count /\ call[s].at \in {"none", "cancelling", "starting", "begun"}
  <2>1. call[s] \in [at : {"none", "cancelling", "starting", "begun"}, id : Searches \cup {NoSearch}]
    OBVIOUS
  <2>2. QED
    BY <1>1, <2>1 DEF Numbered
<1>5. socket \in Seq(MessageType) /\ Len(socket) \in Nat
  OBVIOUS
<1>6. ASSUME NEW i \in 1 .. Len(socket)
      PROVE  /\ socket[i] \in MessageType /\ socket[i].slot \in Slots \cup {"none"}
             /\ socket[i].id \in Nat /\ socket[i].id <= count
  <2>1. socket[i] \in MessageType
    BY <1>5, ElementOfSeq
  <2>2. QED
    BY <1>1, <2>1 DEF MessageType, Numbered
<1>7. QED
  BY <1>1, <1>2, <1>3, <1>4, <1>5, <1>6

LEMMA CallIs ==
  ASSUME SearchInv, NEW slot \in Slots, NEW at \in {"none", "cancelling", "starting", "begun"},
         NEW id \in Searches \cup {NoSearch}, Set(slot, at, id)
  PROVE  /\ call' \in [Slots -> [at : {"none", "cancelling", "starting", "begun"}, id : Searches \cup {NoSearch}]]
         /\ call'[slot].at = at /\ call'[slot].id = id
         /\ \A s \in Slots \ {slot} : call'[s] = call[s]
BY DEF SearchInv, SearchTypes, Set

LEMMA NoCallIs == /\ NoCall.at = "none" /\ NoCall.id = NoSearch /\ Starter \subseteq Slots
                  /\ "cancel" \in Slots /\ "none" \notin Slots /\ Starter = Slots \ {"cancel"}
BY DEF NoCall, Starter, Slots

-----------------------------------------------------------------------------
(* Steps that leave the socket alone.                                      *)

LEMMA StartKeeps ==
  ASSUME SearchInv, NEW slot \in Slots, Start(slot)
  PROVE  SearchInv'
<1> USE DEF SearchInv
<1>1. /\ ~disposed /\ ~searching /\ slot \in Starter /\ call[slot] = NoCall
      /\ overlapped' = (overlapped \/ \E s \in Starter : call[s] # NoCall)
      /\ UNCHANGED <<searchID, disposed, running, count, socket>>
  BY NoCallIs DEF Start
<1>2. \/ searchID # NoSearch /\ Set(slot, "cancelling", searchID) /\ UNCHANGED <<searching, results>>
      \/ searchID = NoSearch /\ Set(slot, "starting", NoSearch) /\ searching' = TRUE /\ results' = {}
  BY DEF Start, Reset
<1>3. PICK at \in {"cancelling", "starting"}, id \in {searchID, NoSearch} : Set(slot, at, id)
  BY <1>2
<1>4. id \in Searches \cup {NoSearch}
  BY <1>3 DEF SearchTypes
<1>5. /\ call' \in [Slots -> [at : {"none", "cancelling", "starting", "begun"}, id : Searches \cup {NoSearch}]]
      /\ call'[slot].at = at /\ call'[slot].id = id
      /\ \A s \in Slots \ {slot} : call'[s] = call[s]
  BY <1>3, <1>4, CallIs
<1>6. SearchTypes'
  BY <1>1, <1>2, <1>5 DEF SearchTypes
<1>7. Numbered'
  <2>1. \A s \in Slots : call'[s].id <= count'
    BY <1>1, <1>3, <1>5, SearchIs
  <2>2. QED
    BY <1>1, <2>1 DEF Numbered
<1>8. ASSUME NEW i \in 1 .. Len(socket)
      PROVE  socket[i].slot # slot /\ (socket[i].slot # "none" => call'[socket[i].slot] = call[socket[i].slot])
  BY <1>1, <1>5, <1>8, NoCallIs, SearchIs DEF Answers, AnswerOf
<1>9. Answers'
  <2>1. \A i \in 1 .. Len(socket) : AnswerOf(socket[i], call')
    BY <1>8 DEF Answers, AnswerOf
  <2>2. call'["cancel"].at # "starting"
    BY <1>1, <1>5, NoCallIs DEF Answers
  <2>3. QED
    BY <1>1, <2>1, <2>2 DEF Answers
<1>10. OneStart'
  <2>1. SUFFICES ASSUME ~overlapped', NEW s \in Starter, call'[s] # NoCall
                 PROVE  s = slot
    BY DEF OneStart
  <2>2. call[s] = NoCall
    BY <1>1, <2>1
  <2>3. QED
    BY <1>5, <2>1, <2>2, NoCallIs
<1>11. results' \subseteq results
  BY <1>2
<1>12. OneSearchsRows'
  BY <1>1, <1>11 DEF OneSearchsRows
<1>13. Emptying'
  <2>1. SUFFICES ASSUME ~overlapped', NEW s \in Starter
                 PROVE  /\ Emptied(s)' => results' = {} /\ Silent(searchID)'
                        /\ call'[s].at = "cancelling" => searchID' \in {call'[s].id, NoSearch}
                        /\ \A i \in 1 .. Len(socket) : socket[i].slot = s /\ socket[i].kind = "cancelled" => CancelledAt(i)'
    BY <1>1 DEF Emptying
  <2>2. ~overlapped /\ \A t \in Starter : call[t] = NoCall
    BY <1>1, <2>1
  <2>3. \A i \in 1 .. Len(socket) : socket[i].slot # s
    BY <2>1, <2>2, NoCallIs DEF Answers, AnswerOf
  <2>4. CASE s = slot
    <3>1. searchID' = NoSearch => Silent(searchID)'
      BY <1>1, SearchIs DEF Silent, Answers, AnswerOf
    <3>2. Emptied(s)' => call'[s].at = "starting"
      BY <1>1, <2>3 DEF Emptied
    <3>3. call'[s].at = "starting" => searchID = NoSearch /\ results' = {}
      BY <1>2, <1>5, <2>4 DEF Set, SearchTypes
    <3>4. call'[s].at = "cancelling" => call'[s].id = searchID
      BY <1>2, <1>5, <2>4 DEF Set, SearchTypes
    <3>5. QED
      BY <1>1, <2>3, <3>1, <3>2, <3>3, <3>4
  <2>5. CASE s # slot
    <3>1. call'[s].at = "none"
      BY <1>5, <2>2, <2>5, NoCallIs
    <3>2. ~Emptied(s)'
      BY <1>1, <2>3, <3>1 DEF Emptied
    <3>3. QED
      BY <2>3, <3>1, <3>2
  <2>6. QED
    BY <2>4, <2>5
<1>14. QED
  BY <1>6, <1>7, <1>9, <1>10, <1>12, <1>13

\* A call that is made or moves on, and is no start.
LEMMA OtherCallKeeps ==
  ASSUME SearchInv, NEW slot \in Slots, NEW at \in {"cancelling", "starting"}, NEW id \in Searches \cup {NoSearch},
         Set(slot, at, id), id <= count', UNCHANGED <<searchID, results, socket, overlapped>>,
         call[slot].at # "begun", (slot = "cancel" /\ at = "cancelling") \/ (slot # "cancel" /\ at = "starting" /\ call[slot].at = "starting"),
         running' \subseteq Searches, running \subseteq running', \A r \in running' : r \in running \/ r > count,
         \A r \in running' : r <= count', count' \in 0 .. MaxSearches, count <= count',
         UNCHANGED <<searching, disposed>>
  PROVE  SearchInv'
<1> USE DEF SearchInv
<1>1. /\ call' \in [Slots -> [at : {"none", "cancelling", "starting", "begun"}, id : Searches \cup {NoSearch}]]
      /\ call'[slot].at = at /\ call'[slot].id = id
      /\ \A s \in Slots \ {slot} : call'[s] = call[s]
  BY CallIs
<1>2. SearchTypes'
  BY <1>1 DEF SearchTypes
<1>3. /\ count' \in Nat
      /\ \A n \in Nat : n <= count => n <= count'
  BY SearchIs, SearchesAssumption
<1>4. Numbered'
  <2>1. \A s \in Slots : call'[s].id <= count'
    BY <1>1, <1>3, SearchIs
  <2>2. \A i \in 1 .. Len(socket) : socket[i].id <= count'
    BY <1>3, SearchIs
  <2>3. searchID <= count'
    BY <1>3, SearchIs
  <2>4. QED
    BY <2>1, <2>2, <2>3 DEF Numbered
<1>5. Answers'
  <2>1. \A i \in 1 .. Len(socket) : AnswerOf(socket[i], call')
    BY <1>1, SearchIs DEF Answers, AnswerOf
  <2>2. call'["cancel"].at # "starting"
    BY <1>1, NoCallIs DEF Answers
  <2>3. QED
    BY <2>1, <2>2 DEF Answers
<1>6. slot \in Starter => call[slot] # NoCall
  BY NoCallIs
<1>7. OneStart'
  <2>1. \A s \in Starter : call'[s] # NoCall => call[s] # NoCall
    BY <1>1, <1>6, NoCallIs
  <2>2. QED
    BY <2>1 DEF OneStart
<1>8. Emptying'
  <2>1. SUFFICES ASSUME ~overlapped, NEW s \in Starter
                 PROVE  /\ Emptied(s)' => results' = {} /\ Silent(searchID)'
                        /\ call'[s].at = "cancelling" => searchID' \in {call'[s].id, NoSearch}
                        /\ \A i \in 1 .. Len(socket) : socket[i].slot = s /\ socket[i].kind = "cancelled" => CancelledAt(i)'
    BY DEF Emptying
  <2>2. \A n \in Nat : n <= count /\ n \notin running => n \notin running'
    BY SearchIs
  <2>3. Silent(searchID) => Silent(searchID)'
    BY <2>2, SearchIs DEF Silent
  <2>4. ASSUME NEW i \in 1 .. Len(socket), CancelledAt(i)
        PROVE  CancelledAt(i)'
    BY <2>2, <2>4, SearchIs DEF CancelledAt
  <2>5. Emptied(s)' => Emptied(s)
    BY <1>1, NoCallIs DEF Emptied
  <2>6. call'[s].at = "cancelling" => call'[s] = call[s]
    BY <1>1, NoCallIs
  <2>7. QED
    BY <2>1, <2>3, <2>4, <2>5, <2>6 DEF Emptying
<1>9. OneSearchsRows'
  BY DEF OneSearchsRows
<1>10. QED
  BY <1>2, <1>4, <1>5, <1>7, <1>8, <1>9

LEMMA CancelSearchKeeps ==
  ASSUME SearchInv, CancelSearch
  PROVE  SearchInv'
<1>1. /\ call["cancel"] = NoCall /\ Set("cancel", "cancelling", searchID)
      /\ UNCHANGED <<searchID, searching, results, disposed, running, count, socket, overlapped>>
  BY DEF CancelSearch
<1>2. "cancel" \in Slots /\ call["cancel"].at # "begun"
  BY <1>1, NoCallIs
<1>3. searchID \in Searches \cup {NoSearch} /\ running \subseteq Searches /\ count \in 0 .. MaxSearches
  BY DEF SearchInv, SearchTypes
<1>4. searchID <= count' /\ count <= count' /\ \A r \in running' : r <= count'
  BY <1>1, SearchIs
<1>5. QED
  BY <1>1, <1>2, <1>3, <1>4, OtherCallKeeps

LEMMA BackendStartsKeeps ==
  ASSUME SearchInv, NEW slot \in Slots, BackendStarts(slot)
  PROVE  SearchInv'
<1>1. /\ call[slot].at = "starting" /\ count < MaxSearches /\ count' = count + 1
      /\ running' = running \cup {count'} /\ Set(slot, "starting", count')
      /\ UNCHANGED <<searchID, searching, results, disposed, socket, overlapped>>
  BY DEF BackendStarts
<1>2. count' \in 0 .. MaxSearches /\ count' \in Searches /\ count <= count' /\ count' > count /\ count' <= count'
  BY <1>1, SearchIs, SearchesAssumption DEF Searches
<1>3. running \subseteq Searches
  BY DEF SearchInv, SearchTypes
<1>4. \A r \in running : r <= count'
  BY <1>1, SearchIs
<1>5. \A r \in running' : (r \in running \/ r > count) /\ r <= count'
  BY <1>1, <1>2, <1>4
<1>6. running' \subseteq Searches /\ running \subseteq running'
  BY <1>1, <1>2, <1>3
<1>7. slot # "cancel"
  BY <1>1 DEF SearchInv, Answers
<1>8. QED
  BY <1>1, <1>2, <1>5, <1>6, <1>7, OtherCallKeeps

LEMMA ClearKeeps ==
  ASSUME SearchInv, Clear \/ Dispose
  PROVE  SearchInv'
<1> USE DEF SearchInv
<1>1. /\ UNCHANGED <<searching, call, count, socket, overlapped>> /\ disposed' \in BOOLEAN
      /\ running' \subseteq running /\ (searchID' = NoSearch \/ searchID' = searchID)
      /\ results' = {} \/ (results' = results /\ searchID' = searchID)
  BY DEF Clear, Dispose, SearchTypes
<1>2. SearchTypes'
  BY <1>1 DEF SearchTypes
<1>3. Numbered'
  BY <1>1, SearchIs DEF Numbered
<1>4. Answers' /\ OneStart'
  BY <1>1 DEF Answers, AnswerOf, OneStart
<1>5. OneSearchsRows'
  BY <1>1 DEF OneSearchsRows
<1>6. Silent(searchID) => Silent(searchID)'
  BY <1>1, SearchIs DEF Silent, Answers, AnswerOf
<1>7. \A s \in Starter : Emptied(s)' => Emptied(s)
  BY <1>1 DEF Emptied
<1>8. \A i \in 1 .. Len(socket) : CancelledAt(i) => CancelledAt(i)'
  BY <1>1 DEF CancelledAt
<1>9. Emptying'
  BY <1>1, <1>6, <1>7, <1>8 DEF Emptying
<1>10. QED
  BY <1>2, <1>3, <1>4, <1>5, <1>9

-----------------------------------------------------------------------------
(* What the backend sends.                                                 *)

LEMMA MessageIs ==
  ASSUME NEW kind \in {"update", "complete", "cancelled", "started", "refused"},
         NEW id \in Searches \cup {NoSearch}, NEW slot \in Slots \cup {"none"}
  PROVE  /\ Message(kind, id, slot) \in MessageType
         /\ Message(kind, id, slot).kind = kind /\ Message(kind, id, slot).id = id
         /\ Message(kind, id, slot).slot = slot
BY DEF Message, MessageType

LEMMA SentIs ==
  ASSUME socket \in Seq(MessageType), NEW m \in MessageType, Sends2(<<m>>)
  PROVE  socket' = Append(socket, m)
BY AppendIsConcat DEF Sends2

LEMMA FindsKeeps ==
  ASSUME SearchInv, NEW id \in Searches, endSession(id) \/ Finds(id)
  PROVE  SearchInv'
<1> USE DEF SearchInv
<1>1. PICK kind \in {"update", "complete"} :
        /\ id \in running /\ Room(1) /\ Sends2(<<Message(kind, id, "none")>>) /\ running' \subseteq running
        /\ UNCHANGED <<searchID, searching, results, disposed, call, count, overlapped>>
  BY DEF endSession, Finds
<1> DEFINE m == Message(kind, id, "none")
<1>2. m \in MessageType /\ m.kind = kind /\ m.id = id /\ m.slot = "none"
  BY MessageIs
<1>3. Sends2(<<m>>)
  BY <1>1
<1> HIDE DEF m
<1>4. /\ socket' \in Seq(MessageType) /\ Len(socket) \in Nat /\ Len(socket') = Len(socket) + 1
      /\ socket'[Len(socket')] = m
      /\ \A i \in 1 .. Len(socket) : i \in 1 .. Len(socket') /\ i < Len(socket') /\ socket'[i] = socket[i]
      /\ \A i \in 1 .. Len(socket') : i \in 1 .. Len(socket) \/ i = Len(socket')
  BY <1>2, <1>3, SentIs, AppendedIs, SearchIs
<1>5. SearchTypes'
  <2>1. Len(socket') <= MaxSocket
    BY <1>1, <1>4 DEF Room
  <2>2. QED
    BY <1>1, <1>4, <2>1 DEF SearchTypes
<1>6. Numbered'
  BY <1>1, <1>2, <1>4, SearchIs DEF Numbered
<1>7. Answers'
  <2>1. id # NoSearch
    BY SearchesAssumption DEF Searches, NoSearch
  <2>2. \A i \in 1 .. Len(socket') : AnswerOf(socket'[i], call')
    BY <1>1, <1>2, <1>4, <2>1 DEF Answers, AnswerOf
  <2>3. QED
    BY <1>1, <1>2, <1>4, <2>2 DEF Answers
<1>8. OneStart' /\ OneSearchsRows'
  BY <1>1 DEF OneStart, OneSearchsRows
<1>9. Silent(searchID) => Silent(searchID)'
  BY <1>1, <1>2, <1>4 DEF Silent
<1>10. ASSUME NEW i \in 1 .. Len(socket), CancelledAt(i)
       PROVE  CancelledAt(i)'
  BY <1>1, <1>2, <1>4, <1>10 DEF CancelledAt
<1>11. \A s \in Starter : Emptied(s)' => Emptied(s)
  BY <1>1, <1>2, <1>4, NoCallIs DEF Emptied
<1>12. ASSUME NEW i \in 1 .. Len(socket'), socket'[i].slot \in Starter
       PROVE  i \in 1 .. Len(socket) /\ socket'[i] = socket[i]
  BY <1>2, <1>4, <1>12, NoCallIs
<1>13. Emptying'
  BY <1>1, <1>9, <1>10, <1>11, <1>12 DEF Emptying
<1>14. QED
  BY <1>5, <1>6, <1>7, <1>8, <1>13

LEMMA BackendAnswersKeeps ==
  ASSUME SearchInv, NEW slot \in Slots, BackendAnswers(slot)
  PROVE  SearchInv'
<1> USE DEF SearchInv
<1>1. /\ call[slot].at = "starting" /\ Room(1) /\ Set(slot, "begun", call[slot].id)
      /\ UNCHANGED <<searchID, searching, results, disposed, running, count, overlapped>>
  BY DEF BackendAnswers
<1>2. call[slot].id \in Searches \cup {NoSearch} /\ slot \in Starter
  BY <1>1, NoCallIs DEF SearchTypes, Answers
<1>3. PICK kind \in {"started", "refused"} : Sends2(<<Message(kind, call[slot].id, slot)>>)
  BY DEF BackendAnswers
<1> DEFINE m == Message(kind, call[slot].id, slot)
<1>4. m \in MessageType /\ m.kind = kind /\ m.id = call[slot].id /\ m.slot = slot
  BY <1>2, MessageIs
<1>5. Sends2(<<m>>)
  BY <1>3
<1> HIDE DEF m
<1>6. /\ socket' \in Seq(MessageType) /\ Len(socket) \in Nat /\ Len(socket') = Len(socket) + 1
      /\ socket'[Len(socket')] = m
      /\ \A i \in 1 .. Len(socket) : i \in 1 .. Len(socket') /\ i < Len(socket') /\ socket'[i] = socket[i]
      /\ \A i \in 1 .. Len(socket') : i \in 1 .. Len(socket) \/ i = Len(socket')
  BY <1>4, <1>5, SentIs, AppendedIs, SearchIs
<1>7. /\ call' \in [Slots -> [at : {"none", "cancelling", "starting", "begun"}, id : Searches \cup {NoSearch}]]
      /\ call'[slot].at = "begun" /\ call'[slot].id = call[slot].id
      /\ \A s \in Slots \ {slot} : call'[s] = call[s]
  BY <1>1, <1>2, CallIs
<1>8. SearchTypes'
  <2>1. Len(socket') <= MaxSocket
    BY <1>1, <1>6 DEF Room
  <2>2. QED
    BY <1>1, <1>6, <1>7, <2>1 DEF SearchTypes
<1>9. Numbered'
  <2>1. \A s \in Slots : call'[s].id <= count'
    BY <1>1, <1>7, SearchIs
  <2>2. \A i \in 1 .. Len(socket') : socket'[i].id <= count'
    BY <1>1, <1>4, <1>6, SearchIs
  <2>3. QED
    BY <1>1, <2>1, <2>2 DEF Numbered
<1>10. \A i \in 1 .. Len(socket) : socket[i].slot # slot
  BY <1>1, NoCallIs DEF Answers, AnswerOf
<1>11. Answers'
  <2>1. ASSUME NEW i \in 1 .. Len(socket)
        PROVE  AnswerOf(socket'[i], call')
    <3>1. AnswerOf(socket[i], call) /\ socket'[i] = socket[i] /\ socket[i].slot \in Slots \cup {"none"}
      BY <1>6, SearchIs DEF Answers
    <3>2. socket[i].slot # "none" => call'[socket[i].slot] = call[socket[i].slot]
      BY <1>7, <1>10, <3>1
    <3>3. QED
      BY <3>1, <3>2 DEF AnswerOf
  <2>2. AnswerOf(m, call')
    BY <1>2, <1>4, <1>7, NoCallIs DEF AnswerOf
  <2>3. \A i \in 1 .. Len(socket') : AnswerOf(socket'[i], call')
    BY <1>6, <2>1, <2>2
  <2>4. ASSUME NEW i \in 1 .. Len(socket'), NEW j \in 1 .. Len(socket'),
               socket'[i].slot = socket'[j].slot, socket'[i].slot # "none"
        PROVE  i = j
    BY <1>4, <1>6, <1>10, <2>4 DEF Answers
  <2>5. call'["cancel"].at # "starting"
    BY <1>2, <1>7, NoCallIs DEF Answers
  <2>6. QED
    BY <2>3, <2>4, <2>5 DEF Answers
<1>12. OneStart'
  <2>1. call[slot] # NoCall
    BY <1>1, NoCallIs
  <2>2. \A s \in Starter : call'[s] # NoCall => call[s] # NoCall
    BY <1>7, <2>1, NoCallIs
  <2>3. QED
    BY <1>1, <2>2 DEF OneStart
<1>13. OneSearchsRows'
  BY <1>1 DEF OneSearchsRows
<1>14. Silent(searchID) => Silent(searchID)'
  BY <1>1, <1>4, <1>6 DEF Silent
<1>15. ASSUME NEW i \in 1 .. Len(socket), CancelledAt(i)
       PROVE  CancelledAt(i)'
  BY <1>1, <1>4, <1>6, <1>15 DEF CancelledAt
<1>16. \A s \in Starter : Emptied(s)' => Emptied(s)
  <2>1. ASSUME NEW s \in Starter, Emptied(s)', s # slot
        PROVE  Emptied(s)
    BY <1>4, <1>6, <1>7, <2>1, NoCallIs DEF Emptied
  <2>2. Emptied(slot)
    BY <1>1 DEF Emptied
  <2>3. QED
    BY <2>1, <2>2
<1>17. ASSUME NEW i \in 1 .. Len(socket'), socket'[i].kind = "cancelled"
       PROVE  i \in 1 .. Len(socket) /\ socket'[i] = socket[i]
  BY <1>4, <1>6, <1>17
<1>18. \A s \in Starter : call'[s].at = "cancelling" => call'[s] = call[s]
  BY <1>7, NoCallIs
<1>19. Emptying'
  BY <1>1, <1>14, <1>15, <1>16, <1>17, <1>18 DEF Emptying
<1>20. QED
  BY <1>8, <1>9, <1>11, <1>12, <1>13, <1>19

\* The end of the search is told before the answer to the call.
LEMMA CancelSends ==
  ASSUME SearchInv, NEW slot \in Slots, BackendCancels(slot)
  PROVE  /\ socket' \in Seq(MessageType) /\ Len(socket) \in Nat /\ Len(socket') <= MaxSocket
         /\ Len(socket') \in 1 .. Len(socket')
         /\ socket'[Len(socket')] = Message("cancelled", call[slot].id, slot)
         /\ \A i \in 1 .. Len(socket) : i \in 1 .. Len(socket') /\ i < Len(socket') /\ socket'[i] = socket[i]
         /\ \A i \in 1 .. Len(socket') :
              i \in 1 .. Len(socket) \/ i = Len(socket') \/ socket'[i] = Message("complete", call[slot].id, "none")
<1> DEFINE id == call[slot].id
           a == Message("complete", id, "none")
           b == Message("cancelled", id, slot)
<1>1. id \in Searches \cup {NoSearch} /\ socket \in Seq(MessageType)
  BY DEF SearchInv, SearchTypes
<1>2. a \in MessageType /\ b \in MessageType
  BY <1>1, MessageIs
<1>3. Room(2) /\ Sends2((IF id \in running THEN <<a>> ELSE <<>>) \o <<b>>)
  BY DEF BackendCancels
<1> HIDE DEF id, a, b
<1>4. Len(socket) + 2 <= MaxSocket /\ Len(socket) \in Nat
  BY <1>1, <1>3 DEF Room
<1>5. CASE id \in running
  <2>1. socket' = socket \o (<<a>> \o <<b>>)
    BY <1>3, <1>5 DEF Sends2
  <2>2. <<a>> \in Seq(MessageType) /\ <<b>> \in Seq(MessageType)
    BY <1>2
  <2>3. socket' = (socket \o <<a>>) \o <<b>>
    BY <1>1, <2>1, <2>2, ConcatAssociative
  <2> DEFINE one == Append(socket, a)
  <2>4. one = socket \o <<a>> /\ one \in Seq(MessageType)
    BY <1>1, <1>2, AppendIsConcat
  <2>5. socket' = Append(one, b)
    BY <1>2, <2>3, <2>4, AppendIsConcat
  <2>6. /\ one \in Seq(MessageType) /\ Len(one) = Len(socket) + 1 /\ one[Len(one)] = a
        /\ \A i \in 1 .. Len(socket) : i \in 1 .. Len(one) /\ one[i] = socket[i]
        /\ \A i \in 1 .. Len(one) : i \in 1 .. Len(socket) \/ i = Len(one)
    BY <1>1, <1>2, AppendedIs
  <2> HIDE DEF one
  <2>7. /\ socket' \in Seq(MessageType) /\ Len(socket') = Len(one) + 1 /\ socket'[Len(socket')] = b
        /\ \A i \in 1 .. Len(one) : i \in 1 .. Len(socket') /\ i < Len(socket') /\ socket'[i] = one[i]
        /\ \A i \in 1 .. Len(socket') : i \in 1 .. Len(one) \/ i = Len(socket')
    BY <1>2, <2>5, <2>6, AppendedIs
  <2>8. Len(socket') <= MaxSocket /\ Len(socket') \in 1 .. Len(socket')
    BY <1>4, <2>6, <2>7
  <2>9. \A i \in 1 .. Len(socket) : i \in 1 .. Len(socket') /\ i < Len(socket') /\ socket'[i] = socket[i]
    BY <2>6, <2>7
  <2>10. \A i \in 1 .. Len(socket') : i \in 1 .. Len(socket) \/ i = Len(socket') \/ socket'[i] = a
    BY <2>6, <2>7
  <2>11. QED
    BY <1>4, <2>7, <2>8, <2>9, <2>10 DEF a, b, id
<1>6. CASE id \notin running
  <2>1. socket' = socket \o (<<>> \o <<b>>)
    BY <1>3, <1>6 DEF Sends2
  <2>2. <<b>> \in Seq(MessageType)
    BY <1>2
  <2>3. socket' = Append(socket, b)
    BY <1>1, <1>2, <2>1, <2>2, ConcatEmptySeq, AppendIsConcat
  <2>4. /\ socket' \in Seq(MessageType) /\ Len(socket') = Len(socket) + 1 /\ socket'[Len(socket')] = b
        /\ \A i \in 1 .. Len(socket) : i \in 1 .. Len(socket') /\ i < Len(socket') /\ socket'[i] = socket[i]
        /\ \A i \in 1 .. Len(socket') : i \in 1 .. Len(socket) \/ i = Len(socket')
    BY <1>1, <1>2, <2>3, AppendedIs
  <2>5. Len(socket') <= MaxSocket /\ Len(socket') \in 1 .. Len(socket')
    BY <1>4, <2>4, SearchesAssumption
  <2>6. QED
    BY <1>4, <2>4, <2>5 DEF b, id
<1>7. QED
  BY <1>5, <1>6

LEMMA BackendCancelsKeeps ==
  ASSUME SearchInv, NEW slot \in Slots, BackendCancels(slot)
  PROVE  SearchInv'
<1> USE DEF SearchInv
<1> DEFINE id == call[slot].id
           a == Message("complete", id, "none")
           b == Message("cancelled", id, slot)
<1>1. /\ call[slot].at = "cancelling" /\ running' = running \ {id} /\ Set(slot, "begun", id)
      /\ UNCHANGED <<searchID, searching, results, disposed, count, overlapped>>
  BY DEF BackendCancels
<1>2. id \in Searches \cup {NoSearch} /\ id <= count
  BY SearchIs DEF SearchTypes
<1>3. /\ a.kind = "complete" /\ a.id = id /\ a.slot = "none" /\ b.kind = "cancelled" /\ b.id = id /\ b.slot = slot
  BY <1>2, MessageIs
<1>4. /\ socket' \in Seq(MessageType) /\ Len(socket) \in Nat /\ Len(socket') <= MaxSocket
      /\ Len(socket') \in 1 .. Len(socket') /\ socket'[Len(socket')] = b
      /\ \A i \in 1 .. Len(socket) : i \in 1 .. Len(socket') /\ i < Len(socket') /\ socket'[i] = socket[i]
      /\ \A i \in 1 .. Len(socket') : i \in 1 .. Len(socket) \/ i = Len(socket') \/ socket'[i] = a
  BY CancelSends
<1> HIDE DEF a, b
<1>5. /\ call' \in [Slots -> [at : {"none", "cancelling", "starting", "begun"}, id : Searches \cup {NoSearch}]]
      /\ call'[slot].at = "begun" /\ call'[slot].id = id
      /\ \A s \in Slots \ {slot} : call'[s] = call[s]
  BY <1>1, <1>2, CallIs
<1>6. SearchTypes'
  BY <1>1, <1>4, <1>5 DEF SearchTypes
<1>7. Numbered'
  <2>1. \A i \in 1 .. Len(socket') : socket'[i].id <= count
    BY <1>2, <1>3, <1>4, SearchIs
  <2>2. \A s \in Slots : call'[s].id <= count
    BY <1>2, <1>5, SearchIs
  <2>3. QED
    BY <1>1, <2>1, <2>2 DEF Numbered
<1>8. \A i \in 1 .. Len(socket) : socket[i].slot # slot
  BY <1>1, NoCallIs DEF Answers, AnswerOf
<1>9. Answers'
  <2>1. ASSUME NEW i \in 1 .. Len(socket)
        PROVE  AnswerOf(socket'[i], call')
    <3>1. AnswerOf(socket[i], call) /\ socket'[i] = socket[i] /\ socket[i].slot \in Slots \cup {"none"}
      BY <1>4, SearchIs DEF Answers
    <3>2. socket[i].slot # "none" => call'[socket[i].slot] = call[socket[i].slot]
      BY <1>5, <1>8, <3>1
    <3>3. QED
      BY <3>1, <3>2 DEF AnswerOf
  <2>2. AnswerOf(a, call') /\ AnswerOf(b, call')
    BY <1>3, <1>5, NoCallIs DEF AnswerOf
  <2>3. \A i \in 1 .. Len(socket') : AnswerOf(socket'[i], call')
    BY <1>4, <2>1, <2>2
  <2>4. ASSUME NEW i \in 1 .. Len(socket'), socket'[i].slot # "none"
        PROVE  (i \in 1 .. Len(socket) /\ socket'[i] = socket[i]) \/ i = Len(socket')
    BY <1>3, <1>4, <2>4
  <2>5. ASSUME NEW i \in 1 .. Len(socket'), NEW j \in 1 .. Len(socket'),
               socket'[i].slot = socket'[j].slot, socket'[i].slot # "none"
        PROVE  i = j
    BY <1>3, <1>4, <1>8, <2>4, <2>5 DEF Answers
  <2>6. call'["cancel"].at # "starting"
    BY <1>5, NoCallIs DEF Answers
  <2>7. QED
    BY <2>3, <2>5, <2>6 DEF Answers
<1>10. OneStart'
  <2>1. call[slot] # NoCall
    BY <1>1, NoCallIs
  <2>2. \A s \in Starter : call'[s] # NoCall => call[s] # NoCall
    BY <1>5, <2>1, NoCallIs
  <2>3. QED
    BY <1>1, <2>2 DEF OneStart
<1>11. OneSearchsRows'
  BY <1>1 DEF OneSearchsRows
<1>12. ASSUME NEW i \in 1 .. Len(socket'), socket'[i].kind \in {"update", "started", "refused"}
       PROVE  i \in 1 .. Len(socket) /\ socket'[i] = socket[i]
  BY <1>3, <1>4, <1>12
<1>13. Silent(searchID) => Silent(searchID)'
  BY <1>1, <1>12 DEF Silent
<1>14. ASSUME NEW i \in 1 .. Len(socket), CancelledAt(i)
       PROVE  CancelledAt(i)'
  BY <1>1, <1>4, <1>12, <1>14 DEF CancelledAt
<1>15. \A s \in Starter : Emptied(s)' => Emptied(s)
  BY <1>5, <1>12, NoCallIs DEF Emptied
<1>16. Emptying'
  <2>1. SUFFICES ASSUME ~overlapped, NEW s \in Starter
                 PROVE  /\ Emptied(s)' => results' = {} /\ Silent(searchID)'
                        /\ call'[s].at = "cancelling" => searchID' \in {call'[s].id, NoSearch}
                        /\ \A i \in 1 .. Len(socket') :
                             socket'[i].slot = s /\ socket'[i].kind = "cancelled" => CancelledAt(i)'
    BY <1>1 DEF Emptying
  <2>2. Emptied(s)' => results' = {} /\ Silent(searchID)'
    BY <1>1, <1>13, <1>15, <2>1 DEF Emptying
  <2>3. call'[s].at = "cancelling" => searchID' \in {call'[s].id, NoSearch}
    BY <1>1, <1>5, <2>1, NoCallIs DEF Emptying
  <2>4. ASSUME NEW i \in 1 .. Len(socket'), socket'[i].slot = s, socket'[i].kind = "cancelled"
        PROVE  CancelledAt(i)'
    <3>1. CASE i \in 1 .. Len(socket)
      BY <1>4, <1>14, <2>1, <2>4, <3>1 DEF Emptying
    <3>2. CASE i \notin 1 .. Len(socket)
      <4>1. i = Len(socket') /\ socket'[i] = b
        BY <1>3, <1>4, <2>1, <2>4, <3>2, NoCallIs
      <4>2. s = slot /\ socket'[i].id = id
        BY <1>3, <2>4, <4>1
      <4>3. searchID \in {id, NoSearch}
        BY <1>1, <2>1, <4>2 DEF Emptying
      <4>4. \A j \in 1 .. Len(socket') : ~(j > i)
        BY <1>4, <4>1
      <4>5. QED
        BY <1>1, <4>2, <4>3, <4>4 DEF CancelledAt
    <3>3. QED
      BY <3>1, <3>2
  <2>5. QED
    BY <2>2, <2>3, <2>4
<1>17. QED
  BY <1>6, <1>7, <1>9, <1>10, <1>11, <1>16

-----------------------------------------------------------------------------
(* What the session hears.                                                 *)

\* A message is taken: what is said of the others stays.
LEMMA TakesKeep ==
  ASSUME SearchInv, socket # <<>>, socket' = Tail(socket), UNCHANGED <<disposed, running, count, overlapped>>,
         searchID' \in Searches \cup {NoSearch}, searchID' <= count,
         results' \subseteq Searches, searching' \in BOOLEAN,
         call' \in [Slots -> [at : {"none", "cancelling", "starting", "begun"}, id : Searches \cup {NoSearch}]],
         \A s \in Slots : call'[s] = call[s] \/ (s = socket[1].slot /\ call'[s].id = NoSearch),
         call'["cancel"].at # "starting"
  PROVE  SearchTypes' /\ Numbered' /\ Answers'
<1> USE DEF SearchInv
<1>1. /\ socket' \in Seq(MessageType) /\ Len(socket) \in Nat /\ Len(socket') = Len(socket) - 1
      /\ 1 \in 1 .. Len(socket)
      /\ \A i \in 1 .. Len(socket') : i + 1 \in 1 .. Len(socket) /\ i + 1 # 1 /\ socket'[i] = socket[i + 1]
  BY TakenIs, SearchIs
<1>2. SearchTypes'
  BY <1>1, SearchesAssumption DEF SearchTypes
<1>3. Numbered'
  <2>1. \A s \in Slots : call'[s].id <= count
    BY SearchIs
  <2>2. \A i \in 1 .. Len(socket') : socket'[i].id <= count
    BY <1>1, SearchIs
  <2>3. QED
    BY <2>1, <2>2, SearchIs DEF Numbered
<1>4. Answers'
  <2>1. ASSUME NEW i \in 1 .. Len(socket')
        PROVE  AnswerOf(socket'[i], call')
    <3>1. /\ i + 1 \in 1 .. Len(socket) /\ AnswerOf(socket[i + 1], call) /\ socket'[i] = socket[i + 1]
          /\ socket[i + 1].slot \in Slots \cup {"none"} /\ i + 1 # 1
      BY <1>1, SearchIs DEF Answers
    <3>2. socket[i + 1].slot # "none" => socket[i + 1].slot # socket[1].slot
      BY <1>1, <3>1 DEF Answers
    <3>3. socket[i + 1].slot # "none" => call'[socket[i + 1].slot] = call[socket[i + 1].slot]
      BY <3>1, <3>2
    <3>4. QED
      BY <3>1, <3>3 DEF AnswerOf
  <2>2. ASSUME NEW i \in 1 .. Len(socket'), NEW j \in 1 .. Len(socket'),
               socket'[i].slot = socket'[j].slot, socket'[i].slot # "none"
        PROVE  i = j
    <3>1. i + 1 = j + 1
      BY <1>1, <2>2 DEF Answers
    <3>2. QED
      BY <3>1
  <2>3. QED
    BY <2>1, <2>2 DEF Answers
<1>5. QED
  BY <1>2, <1>3, <1>4

\* And of a call that has no answer yet.
LEMMA TakenKeeps ==
  ASSUME SearchInv, socket # <<>>, socket' = Tail(socket), UNCHANGED <<running, searchID>>
  PROVE  /\ Silent(searchID) => Silent(searchID)'
         /\ \A i \in 1 .. Len(socket') : i + 1 \in 1 .. Len(socket) /\ (CancelledAt(i + 1) => CancelledAt(i)')
<1>1. /\ Len(socket) \in Nat /\ Len(socket') = Len(socket) - 1
      /\ \A i \in 1 .. Len(socket') : i + 1 \in 1 .. Len(socket) /\ i + 1 # 1 /\ socket'[i] = socket[i + 1]
  BY TakenIs, SearchIs
<1>2. Silent(searchID) => Silent(searchID)'
  BY <1>1 DEF Silent
<1>3. ASSUME NEW i \in 1 .. Len(socket'), CancelledAt(i + 1)
      PROVE  CancelledAt(i)'
  <2>1. socket'[i].id = socket[i + 1].id
    BY <1>1
  <2>2. ASSUME NEW j \in 1 .. Len(socket'), j > i, socket'[j].kind = "update"
        PROVE  socket'[j].id # socket'[i].id
    <3>1. j + 1 \in 1 .. Len(socket) /\ j + 1 > i + 1 /\ socket'[j] = socket[j + 1]
      BY <1>1, <2>2
    <3>2. QED
      BY <1>3, <2>1, <2>2, <3>1 DEF CancelledAt
  <2>3. QED
    BY <1>3, <2>1, <2>2 DEF CancelledAt
<1>4. QED
  BY <1>1, <1>2, <1>3

LEMMA UpdateKeeps ==
  ASSUME SearchInv, handleUpdate \/ handleComplete
  PROVE  SearchInv'
<1> USE DEF SearchInv
<1>1. /\ socket # <<>> /\ socket' = Tail(socket)
      /\ UNCHANGED <<disposed, running, count, overlapped, searchID, call>> /\ searching' \in BOOLEAN
  BY DEF handleUpdate, handleComplete, Gets, SearchTypes
<1>2. /\ Len(socket) \in Nat /\ Len(socket') = Len(socket) - 1 /\ Head(socket) = socket[1] /\ 1 \in 1 .. Len(socket)
      /\ \A i \in 1 .. Len(socket') : i + 1 \in 1 .. Len(socket) /\ i + 1 # 1 /\ socket'[i] = socket[i + 1]
  BY <1>1, TakenIs, SearchIs
<1>3. \/ results' = results
      \/ results' = results \cup {searchID} /\ socket[1].kind = "update" /\ socket[1].id = searchID
  BY <1>2 DEF handleUpdate, handleComplete, Gets, Mine
<1>4. results' \subseteq Searches
  <2>1. CASE results' = results \cup {searchID} /\ socket[1].kind = "update" /\ socket[1].id = searchID
    <3>1. searchID # NoSearch
      BY <1>2, <2>1 DEF Answers, AnswerOf
    <3>2. QED
      BY <2>1, <3>1 DEF SearchTypes
  <2>2. QED
    BY <1>3, <2>1 DEF SearchTypes
<1>5. SearchTypes' /\ Numbered' /\ Answers'
  BY <1>1, <1>4, TakesKeep, SearchIs DEF SearchTypes, Answers
<1>6. OneStart'
  BY <1>1 DEF OneStart
<1>7. OneSearchsRows'
  BY <1>1, <1>3 DEF OneSearchsRows
<1>8. \A s \in Starter : Emptied(s)' => Emptied(s)
  BY <1>1, <1>2 DEF Emptied
<1>9. /\ Silent(searchID) => Silent(searchID)' /\ results' = results
      /\ \A i \in 1 .. Len(socket') : i + 1 \in 1 .. Len(socket) /\ (CancelledAt(i + 1) => CancelledAt(i)')
  <2>1. Silent(searchID) => results' = results
    BY <1>2, <1>3 DEF Silent
  <2>2. QED
    BY <1>1, <2>1, TakenKeeps
<1>10. Emptying'
  BY <1>1, <1>2, <1>8, <1>9 DEF Emptying
<1>11. QED
  BY <1>5, <1>6, <1>7, <1>10

LEMMA CancelledKeeps ==
  ASSUME SearchInv, Cancelled
  PROVE  SearchInv'
<1> USE DEF SearchInv
<1> DEFINE slot == socket[1].slot
<1>1. /\ socket # <<>> /\ socket' = Tail(socket) /\ Head(socket).kind = "cancelled"
      /\ UNCHANGED <<disposed, running, count, overlapped, searchID>>
  BY DEF Cancelled, Gets
<1>2. /\ Len(socket) \in Nat /\ Len(socket') = Len(socket) - 1 /\ Head(socket) = socket[1] /\ 1 \in 1 .. Len(socket)
      /\ \A i \in 1 .. Len(socket') : i + 1 \in 1 .. Len(socket) /\ i + 1 # 1 /\ socket'[i] = socket[i + 1]
  BY <1>1, TakenIs, SearchIs
<1>3. slot \in Slots /\ call[slot].at = "begun" /\ call[slot].id = socket[1].id
  BY <1>1, <1>2, SearchIs DEF Answers, AnswerOf
<1>4. \A i \in 1 .. Len(socket') : socket'[i].slot # slot
  BY <1>2, <1>3, NoCallIs DEF Answers
<1>5. /\ Silent(searchID) => Silent(searchID)'
      /\ \A i \in 1 .. Len(socket') : i + 1 \in 1 .. Len(socket) /\ (CancelledAt(i + 1) => CancelledAt(i)')
  BY <1>1, TakenKeeps
<1>6. CASE slot = "cancel"
  <2>1. searching' = FALSE /\ call' = [call EXCEPT !["cancel"] = NoCall] /\ UNCHANGED results
    BY <1>2, <1>6 DEF Cancelled
  <2>2. NoCall \in [at : {"none", "cancelling", "starting", "begun"}, id : Searches \cup {NoSearch}]
    BY DEF NoCall
  <2>3. /\ call' \in [Slots -> [at : {"none", "cancelling", "starting", "begun"}, id : Searches \cup {NoSearch}]]
        /\ call'["cancel"] = NoCall /\ \A s \in Starter : call'[s] = call[s]
    BY <2>1, <2>2, NoCallIs DEF SearchTypes
  <2>4. SearchTypes' /\ Numbered' /\ Answers'
    <3>1. \A s \in Slots : call'[s] = call[s] \/ (s = socket[1].slot /\ call'[s].id = NoSearch)
      BY <1>6, <2>3, NoCallIs
    <3>2. call'["cancel"].at # "starting"
      BY <2>3, NoCallIs
    <3>3. results' \subseteq Searches /\ searchID' \in Searches \cup {NoSearch} /\ searchID' <= count
      BY <1>1, <2>1, SearchIs DEF SearchTypes
    <3>4. QED
      BY <1>1, <2>1, <2>3, <3>1, <3>2, <3>3, TakesKeep
  <2>5. OneStart' /\ OneSearchsRows'
    BY <1>1, <2>1, <2>3 DEF OneStart, OneSearchsRows
  <2>6. \A s \in Starter : Emptied(s)' => Emptied(s)
    BY <1>2, <2>3 DEF Emptied
  <2>7. Emptying'
    BY <1>1, <1>2, <1>5, <2>1, <2>3, <2>6 DEF Emptying
  <2>8. QED
    BY <2>4, <2>5, <2>7
<1>7. CASE slot # "cancel"
  <2>1. slot \in Starter /\ searching' = TRUE /\ results' = {} /\ Set(slot, "starting", NoSearch)
    BY <1>2, <1>3, <1>7, NoCallIs DEF Cancelled, Reset
  <2>2. /\ call' \in [Slots -> [at : {"none", "cancelling", "starting", "begun"}, id : Searches \cup {NoSearch}]]
        /\ call'[slot].at = "starting" /\ call'[slot].id = NoSearch
        /\ \A s \in Slots \ {slot} : call'[s] = call[s]
    BY <1>3, <2>1, CallIs
  <2>3. SearchTypes' /\ Numbered' /\ Answers'
    <3>1. \A s \in Slots : call'[s] = call[s] \/ (s = socket[1].slot /\ call'[s].id = NoSearch)
      BY <2>2
    <3>2. call'["cancel"].at # "starting"
      BY <1>7, <2>2, NoCallIs DEF Answers
    <3>3. results' \subseteq Searches /\ searchID' \in Searches \cup {NoSearch} /\ searchID' <= count
      BY <1>1, <2>1, SearchIs DEF SearchTypes
    <3>4. QED
      BY <1>1, <2>1, <2>2, <3>1, <3>2, <3>3, TakesKeep
  <2>4. \A s \in Starter : call'[s] # NoCall => call[s] # NoCall
    BY <1>3, <2>2, NoCallIs
  <2>5. OneStart' /\ OneSearchsRows'
    BY <1>1, <2>1, <2>4 DEF OneStart, OneSearchsRows
  <2>6. ~overlapped => CancelledAt(1)
    BY <1>1, <1>2, <2>1 DEF Emptying
  <2>7. ~overlapped => Silent(searchID)'
    <3>1. ASSUME ~overlapped, NEW i \in 1 .. Len(socket'), socket'[i].kind = "update"
          PROVE  socket'[i].id # searchID
      <4>1. i + 1 \in 1 .. Len(socket) /\ i + 1 > 1 /\ socket'[i] = socket[i + 1]
        BY <1>2, <3>1
      <4>2. socket[i + 1].id # socket[1].id
        BY <2>6, <3>1, <4>1 DEF CancelledAt
      <4>3. socket[i + 1].id # NoSearch
        BY <3>1, <4>1 DEF Answers, AnswerOf
      <4>4. QED
        BY <2>6, <3>1, <4>1, <4>2, <4>3 DEF CancelledAt
    <3>2. ~overlapped => searchID \notin running
      BY <2>6, SearchIs DEF CancelledAt
    <3>3. QED
      BY <1>1, <3>1, <3>2 DEF Silent
  <2>8. Emptying'
    <3>1. SUFFICES ASSUME ~overlapped, NEW s \in Starter
                   PROVE  /\ Emptied(s)' => results' = {} /\ Silent(searchID)'
                          /\ call'[s].at = "cancelling" => searchID' \in {call'[s].id, NoSearch}
                          /\ \A i \in 1 .. Len(socket') :
                               socket'[i].slot = s /\ socket'[i].kind = "cancelled" => CancelledAt(i)'
      BY <1>1 DEF Emptying
    <3>2. call'[s].at = "cancelling" => s # slot /\ call'[s] = call[s]
      BY <2>2, <3>1, NoCallIs
    <3>3. QED
      BY <1>1, <1>2, <1>5, <2>1, <2>7, <3>1, <3>2 DEF Emptying
  <2>9. QED
    BY <2>3, <2>5, <2>8
<1>8. QED
  BY <1>6, <1>7

LEMMA StartedKeeps ==
  ASSUME SearchInv, Started \/ Refusal
  PROVE  SearchInv'
<1> USE DEF SearchInv
<1> DEFINE slot == socket[1].slot
<1>1. /\ socket # <<>> /\ socket' = Tail(socket) /\ Head(socket).kind \in {"started", "refused"}
      /\ UNCHANGED <<disposed, running, count, overlapped, results>> /\ searching' \in BOOLEAN
      /\ searchID' \in {Head(socket).id, NoSearch} /\ call' = [call EXCEPT ![Head(socket).slot] = NoCall]
  BY DEF Started, Refusal, Gets, SearchTypes
<1>2. /\ Len(socket) \in Nat /\ Len(socket') = Len(socket) - 1 /\ Head(socket) = socket[1] /\ 1 \in 1 .. Len(socket)
      /\ \A i \in 1 .. Len(socket') : i + 1 \in 1 .. Len(socket) /\ i + 1 # 1 /\ socket'[i] = socket[i + 1]
  BY <1>1, TakenIs, SearchIs
<1>3. /\ slot \in Slots /\ call[slot].at = "begun" /\ slot \in Starter
  BY <1>1, <1>2, NoCallIs, SearchIs DEF Answers, AnswerOf
<1>4. /\ call' \in [Slots -> [at : {"none", "cancelling", "starting", "begun"}, id : Searches \cup {NoSearch}]]
      /\ call'[slot] = NoCall /\ \A s \in Slots \ {slot} : call'[s] = call[s]
  <2>1. NoCall \in [at : {"none", "cancelling", "starting", "begun"}, id : Searches \cup {NoSearch}]
    BY DEF NoCall
  <2>2. QED
    BY <1>1, <1>2, <1>3, <2>1 DEF SearchTypes
<1>5. SearchTypes' /\ Numbered' /\ Answers'
  <2>1. \A s \in Slots : call'[s] = call[s] \/ (s = socket[1].slot /\ call'[s].id = NoSearch)
    BY <1>4, NoCallIs
  <2>2. call'["cancel"].at # "starting"
    BY <1>3, <1>4, NoCallIs DEF Answers
  <2>3. results' \subseteq Searches /\ searchID' \in Searches \cup {NoSearch}
    <3>1. socket[1].id \in Searches \cup {NoSearch}
      BY <1>2, SearchIs DEF MessageType
    <3>2. QED
      BY <1>1, <1>2, <3>1 DEF SearchTypes
  <2>4. searchID' <= count
    BY <1>1, <1>2, SearchIs
  <2>5. QED
    BY <1>1, <1>4, <2>1, <2>2, <2>3, <2>4, TakesKeep
<1>6. ~overlapped => results = {}
  BY <1>1, <1>2, <1>3 DEF Emptying, Emptied
<1>7. OneSearchsRows'
  BY <1>1, <1>6 DEF OneSearchsRows
<1>8. \A s \in Starter : call'[s] # NoCall => call[s] # NoCall /\ s # slot
  BY <1>4, NoCallIs
<1>9. OneStart'
  BY <1>1, <1>8 DEF OneStart
<1>10. Emptying'
  <2>1. SUFFICES ASSUME ~overlapped, NEW s \in Starter
                 PROVE  /\ ~Emptied(s)' /\ call'[s].at # "cancelling"
                        /\ \A i \in 1 .. Len(socket') : socket'[i].slot # s
    BY <1>1 DEF Emptying
  <2>2. call'[s] = NoCall
    <3>1. call[slot] # NoCall
      BY <1>3, NoCallIs
    <3>2. s # slot => call[s] = NoCall
      BY <1>3, <2>1, <3>1 DEF OneStart
    <3>3. QED
      BY <1>4, <2>1, <3>2, NoCallIs
  <2>3. \A i \in 1 .. Len(socket') : socket'[i].slot # s
    BY <1>5, <2>1, <2>2, NoCallIs DEF Answers, AnswerOf
  <2>4. QED
    BY <2>2, <2>3, NoCallIs DEF Emptied
<1>11. QED
  BY <1>5, <1>7, <1>9, <1>10

-----------------------------------------------------------------------------
LEMMA SearchInitHolds == SearchViewInit => SearchInv
<1> SUFFICES ASSUME SearchViewInit PROVE SearchInv
  OBVIOUS
<1>1. /\ searchID = NoSearch /\ searching = FALSE /\ results = {} /\ disposed = FALSE
      /\ call = [s \in Slots |-> NoCall] /\ running = {} /\ count = 0 /\ socket = <<>> /\ overlapped = FALSE
  BY DEF SearchViewInit
<1>2. /\ call \in [Slots -> [at : {"none", "cancelling", "starting", "begun"}, id : Searches \cup {NoSearch}]]
      /\ \A s \in Slots : call[s] = NoCall
  <2>1. NoCall \in [at : {"none", "cancelling", "starting", "begun"}, id : Searches \cup {NoSearch}]
    BY DEF NoCall
  <2>2. QED
    BY <1>1, <2>1
<1>3. socket \in Seq(MessageType) /\ Len(socket) = 0 /\ \A i : i \notin 1 .. Len(socket)
  BY <1>1
<1>4. SearchTypes
  <2>1. count \in 0 .. MaxSearches /\ Len(socket) <= MaxSocket
    BY <1>1, <1>3, SearchesAssumption
  <2>2. QED
    BY <1>1, <1>2, <1>3, <2>1 DEF SearchTypes
<1>5. Numbered
  BY <1>1, <1>2, <1>3, NoCallIs DEF Numbered, NoSearch
<1>6. Answers
  BY <1>2, <1>3, NoCallIs DEF Answers
<1>7. OneStart /\ OneSearchsRows
  BY <1>1, <1>2, NoCallIs DEF OneStart, OneSearchsRows
<1>8. Emptying
  BY <1>2, <1>3, NoCallIs DEF Emptying, Emptied
<1>9. QED
  BY <1>4, <1>5, <1>6, <1>7, <1>8 DEF SearchInv

LEMMA SearchNextHolds == SearchInv /\ [SearchViewNext]_searchViewVars => SearchInv'
<1> SUFFICES ASSUME SearchInv, [SearchViewNext]_searchViewVars
             PROVE  SearchInv'
  OBVIOUS
<1>1. CASE UNCHANGED searchViewVars
  BY <1>1 DEF searchViewVars, SearchInv, SearchTypes, Numbered, Answers, OneStart, Emptying, Emptied, Silent,
              CancelledAt, OneSearchsRows
<1>2. CASE SearchViewNext
  <2>1. ASSUME NEW slot \in Slots, Start(slot) \/ BackendCancels(slot) \/ BackendStarts(slot) \/ BackendAnswers(slot)
        PROVE  SearchInv'
    BY <2>1, StartKeeps, BackendCancelsKeeps, BackendStartsKeeps, BackendAnswersKeeps
  <2>2. ASSUME NEW id \in Searches, endSession(id) \/ Finds(id)
        PROVE  SearchInv'
    BY <2>2, FindsKeeps
  <2>3. QED
    BY <1>2, <2>1, <2>2, CancelSearchKeeps, ClearKeeps, UpdateKeeps, CancelledKeeps, StartedKeeps DEF SearchViewNext
<1>3. QED
  BY <1>1, <1>2

LEMMA SearchIsSafe == SearchInv => SearchViewTypeOK /\ OneSearchsRows
BY DEF SearchInv, SearchTypes, SearchViewTypeOK

-----------------------------------------------------------------------------
(* The file browser.  What is shown may differ from the path only while a  *)
(* listing of just that path is under way: whoever shows a path lists it,  *)
(* and an answer for another path that comes first shows that one.         *)

LEMMA LeastFlight ==
  ASSUME NEW S \in SUBSET (1 .. MaxFlights), S # {}
  PROVE  (CHOOSE i \in S : \A j \in S : i <= j) \in S
<1>1. S \in SUBSET Nat
  BY BrowserAssumption
<1>2. \E i \in S : \A j \in S : i <= j
  BY <1>1, LeastOf
<1>3. QED
  BY <1>2, Zenon

ListsPath == \E i \in 1 .. MaxFlights : flight[i].at = "list" /\ flight[i].path = currentPath
ListsSome == \E i \in 1 .. MaxFlights : flight[i].at = "list"
BrowserInv == /\ DOMAIN flight = 1 .. MaxFlights
              /\ listing.dir # currentPath => ListsPath
              /\ loading => ListsSome

LEMMA FliesOne ==
  ASSUME BrowserInv, NEW f, Flies(f)
  PROVE  /\ DOMAIN flight' = 1 .. MaxFlights
         /\ \E i \in 1 .. MaxFlights : flight'[i] = f
         /\ \A j \in 1 .. MaxFlights : flight[j].at = "list" => flight'[j] = flight[j]
<1> DEFINE free == {i \in DOMAIN flight : flight[i] = NoFlight}
           least == CHOOSE i \in free : \A j \in free : i <= j
<1>1. free # {} /\ free \in SUBSET (1 .. MaxFlights) /\ DOMAIN flight = 1 .. MaxFlights
  BY DEF Flies, BrowserInv
<1>2. least \in free
  BY <1>1, LeastFlight
<1>3. flight' = [flight EXCEPT ![least] = f]
  BY DEF Flies
<1>4. least \in 1 .. MaxFlights /\ flight[least].at # "list"
  BY <1>2, <1>1 DEF NoFlight
<1> HIDE DEF free, least
<1>5. QED
  BY <1>1, <1>3, <1>4

\* Whoever shows a path lists it.
LEMMA LoadKeeps ==
  ASSUME BrowserInv, NEW dir, NEW item, loadDirectory(dir, item)
  PROVE  BrowserInv'
<1>1. PICK i \in 1 .. MaxFlights : flight'[i].at = "list" /\ flight'[i].path = dir
  BY FliesOne DEF loadDirectory
<1>2. currentPath' = dir /\ DOMAIN flight' = 1 .. MaxFlights
  BY FliesOne DEF loadDirectory, Intends
<1>3. QED
  BY <1>1, <1>2 DEF BrowserInv, ListsPath, ListsSome

ListKept == UNCHANGED <<currentPath, listing, loading, flight>>
LEMMA ListKeptKeeps == BrowserInv /\ ListKept => BrowserInv'
BY DEF ListKept, BrowserInv, ListsPath, ListsSome

LEMMA OperationKeeps ==
  ASSUME BrowserInv, NEW f, Flies(f), UNCHANGED <<currentPath, listing, loading>>
  PROVE  BrowserInv'
BY FliesOne DEF BrowserInv, ListsPath, ListsSome

LEMMA KeysKeep ==
  ASSUME BrowserInv,
         ListUp \/ ListJump \/ ListRight \/ ItemHover \/ Selects \/ ActionsBack \/ DirectoryActionsMove \/
         PathMoves \/ NameFilterMoves \/ SaveFileNameMoves \/ NameTyped \/ EditorUp
  PROVE  BrowserInv'
BY ListKeptKeeps DEF ListKept, ListUp, ListJump, ListRight, ItemHover, Selects, Leaves, ActionsBack,
     DirectoryActionsMove, PathMoves, NameFilterMoves, SaveFileNameMoves, NameTyped, EditorUp, OnlyFocus, listVars

LEMMA DialogsKeep ==
  ASSUME BrowserInv,
         toggleNameFilter \/ openFilterPanel \/ closeFilterPanel \/ ShowDirectoryDialog \/ ShowRenameDirectory \/
         ShowFileDialog \/ confirmLargeFileEdit \/ Cancel \/ openCustomFilterDialog \/ closeCustomFilterDialog
  PROVE  BrowserInv'
<1>1. ListKept
  BY DEF ListKept, toggleNameFilter, openFilterPanel, closeFilterPanel, ShowDirectoryDialog, ShowRenameDirectory,
     ShowFileDialog, Shows, confirmLargeFileEdit, Cancel, openCustomFilterDialog, closeCustomFilterDialog, listVars
<1>2. QED
  BY <1>1, ListKeptKeeps

LEMMA LoadsKeep ==
  ASSUME BrowserInv,
         ListConfirm \/ ItemClick \/ Back \/ FilterSet \/ confirmCustomFilter \/
         \E dir \in Path : handleBreadcrumbNavigate(dir)
  PROVE  BrowserInv'
<1>1. CASE ListConfirm
  <2>1. ListKept \/ loadDirectory(Target(selectedItem), CameFrom(selectedItem))
    BY <1>1 DEF ListConfirm, navigateInto, listVars, ListKept
  <2>2. QED
    BY <2>1, ListKeptKeeps, LoadKeeps
<1>2. CASE ItemClick
  <2>1. PICK i \in 1 .. Len(filteredItems) : \/ navigateInto(filteredItems[i])
                                             \/ ListKept
    BY <1>2 DEF ItemClick, ListKept
  <2>2. ListKept \/ loadDirectory(Target(filteredItems[i]), CameFrom(filteredItems[i]))
    BY <2>1 DEF navigateInto
  <2>3. QED
    BY <2>2, ListKeptKeeps, LoadKeeps
<1>3. CASE Back
  <2>1. ListKept \/ loadDirectory(currentPath - 1, "directory")
    BY <1>3 DEF Back, navigateUp, Leaves, listVars, ListKept
  <2>2. QED
    BY <2>1, ListKeptKeeps, LoadKeeps
<1>4. CASE FilterSet \/ confirmCustomFilter \/ \E dir \in Path : handleBreadcrumbNavigate(dir)
  <2>1. \E dir : loadDirectory(dir, "none")
    BY <1>4 DEF FilterSet, confirmCustomFilter, handleBreadcrumbNavigate
  <2>2. QED
    BY <2>1, LoadKeeps
<1>5. QED
  BY <1>1, <1>2, <1>3, <1>4

LEMMA RequestsKeep ==
  ASSUME BrowserInv, OpenFile \/ \E what \in Operation : Confirm(what)
  PROVE  BrowserInv'
<1>1. (\E f : Flies(f)) /\ UNCHANGED <<currentPath, listing, loading>>
  BY DEF OpenFile, Confirm, listVars
<1>2. QED
  BY <1>1, OperationKeeps

-----------------------------------------------------------------------------
\* An operation ends, and lists what is shown after it.
LEMMA EndedKeeps ==
  ASSUME BrowserInv, NEW i \in 1 .. MaxFlights, flight[i].at = "operation", Ended(i),
         UNCHANGED <<currentPath, listing, loading>>
  PROVE  BrowserInv'
<1>1. DOMAIN flight' = 1 .. MaxFlights
      /\ \A j \in 1 .. MaxFlights : flight[j].at = "list" => flight'[j] = flight[j]
  BY DEF Ended, BrowserInv
<1>2. QED
  BY <1>1 DEF BrowserInv, ListsPath, ListsSome

LEMMA ListsKeeps ==
  ASSUME BrowserInv, NEW i \in 1 .. MaxFlights, NEW dir, NEW item, Lists(i, dir, item), Intends(dir)
  PROVE  BrowserInv'
<1>1. DOMAIN flight' = 1 .. MaxFlights /\ flight'[i].at = "list" /\ flight'[i].path = dir
  BY DEF Lists, BrowserInv
<1>2. currentPath' = dir
  BY DEF Intends
<1>3. QED
  BY <1>1, <1>2 DEF BrowserInv, ListsPath, ListsSome

LEMMA SucceedsKeeps ==
  ASSUME BrowserInv, NEW i \in 1 .. MaxFlights, Succeeds(i)
  PROVE  BrowserInv'
<1> DEFINE what == flight[i].what
           dir == IF what = "deleteDirectory" THEN currentPath - 1 ELSE currentPath
<1>1. flight[i].at = "operation"
  BY DEF Succeeds
<1>2. \/ Ended(i) /\ UNCHANGED listVars
      \/ Intends(dir) /\ Lists(i, dir, CASE what = "newDirectory" -> "directory"
                                      [] what = "createFile" -> "file"
                                      [] what = "rename" /\ flight[i].select = "file" -> "file"
                                      [] OTHER -> "none")
  BY DEF Succeeds
<1>3. CASE Ended(i) /\ UNCHANGED listVars
  BY <1>1, <1>3, EndedKeeps DEF listVars
<1>4. CASE \E item : Intends(dir) /\ Lists(i, dir, item)
  <2> HIDE DEF dir
  <2>1. QED
    BY <1>4, ListsKeeps
<1>5. QED
  BY <1>2, <1>3, <1>4

LEMMA RefusedKeeps ==
  ASSUME BrowserInv, NEW i \in 1 .. MaxFlights, Refused(i)
  PROVE  BrowserInv'
<1>1. flight[i].at = "operation" /\ Ended(i)
  BY DEF Refused
<1>2. UNCHANGED <<currentPath, listing, loading>>
  BY DEF Refused, listVars
<1>3. QED
  BY <1>1, <1>2, EndedKeeps

LEMMA AnswersKeep ==
  ASSUME BrowserInv, NEW i \in 1 .. MaxFlights, Loaded(i) \/ LoadFails(i) \/ Denied(i)
  PROVE  BrowserInv'
<1>1. CASE Loaded(i)
  <2>1. listing'.dir = currentPath' /\ loading' = FALSE /\ Ended(i)
    BY <1>1 DEF Loaded
  <2>2. DOMAIN flight' = 1 .. MaxFlights
    BY <2>1 DEF Ended, BrowserInv
  <2>3. QED
    BY <2>1, <2>2 DEF BrowserInv
<1>2. CASE LoadFails(i)
  <2>1. listing'.dir = currentPath' /\ loading' = FALSE /\ Ended(i)
    BY <1>2 DEF LoadFails
  <2>2. DOMAIN flight' = 1 .. MaxFlights
    BY <2>1 DEF Ended, BrowserInv
  <2>3. QED
    BY <2>1, <2>2 DEF BrowserInv
<1>3. CASE Denied(i) /\ currentPath # 0
  <2>1. Lists(i, currentPath - 1, "none") /\ Intends(currentPath - 1)
    BY <1>3 DEF Denied
  <2>2. QED
    BY <2>1, ListsKeeps
<1>4. CASE Denied(i) /\ currentPath = 0
  \* What is listed below the root is not what the root shows.
  <2>1. Ended(i) /\ loading' = FALSE /\ UNCHANGED <<currentPath, listing>> /\ flight[i].path # currentPath
    BY <1>4 DEF Denied
  <2>2. DOMAIN flight' = 1 .. MaxFlights /\ \A j \in 1 .. MaxFlights : j # i => flight'[j] = flight[j]
    BY <2>1 DEF Ended, BrowserInv
  <2>3. QED
    BY <2>1, <2>2 DEF BrowserInv, ListsPath
<1>5. QED
  BY <1>1, <1>2, <1>3, <1>4

LEMMA BrowserInitHolds == BrowserInit => BrowserInv
<1> SUFFICES ASSUME BrowserInit PROVE BrowserInv
  OBVIOUS
<1>1. DOMAIN flight = 1 .. MaxFlights
  BY DEF BrowserInit
<1>2. 1 \in 1 .. MaxFlights /\ flight[1].at = "list" /\ flight[1].path = 1 /\ currentPath = 1
  BY BrowserAssumption DEF BrowserInit
<1>3. QED
  BY <1>1, <1>2 DEF BrowserInv, ListsPath, ListsSome

LEMMA BrowserNextHolds == BrowserInv /\ [BrowserNext]_browserVars => BrowserInv'
<1> SUFFICES ASSUME BrowserInv, [BrowserNext]_browserVars
             PROVE  BrowserInv'
  OBVIOUS
<1>1. CASE UNCHANGED browserVars
  BY <1>1, ListKeptKeeps DEF ListKept, browserVars, listVars
<1>2. CASE BrowserNext
  <2>1. DOMAIN flight = 1 .. MaxFlights
    BY DEF BrowserInv
  <2>2. ASSUME NEW i \in DOMAIN flight, Succeeds(i) \/ Refused(i) \/ Loaded(i) \/ Denied(i) \/ LoadFails(i)
        PROVE  BrowserInv'
    BY <2>1, <2>2, SucceedsKeeps, RefusedKeeps, AnswersKeep
  <2>3. QED
    BY <1>2, <2>2, KeysKeep, DialogsKeep, LoadsKeep, RequestsKeep DEF BrowserNext
<1>3. QED
  BY <1>1, <1>2

LEMMA BrowserIsSafe == BrowserInv => ItemsOfPath
BY DEF BrowserInv, ListsPath, ListsSome, ItemsOfPath

LEMMA RowsMove == mcInit => SearchViewInit /\ BrowserInit
BY DEF mcInit

LEMMA RowsStep == [mcNext]_allVars => [SearchViewNext]_searchViewVars /\ [BrowserNext]_browserVars
<1>1. UNCHANGED allVars => UNCHANGED searchViewVars /\ UNCHANGED browserVars
  BY DEF allVars
<1>2. mcNext => SearchViewNext \/ UNCHANGED searchViewVars
  BY DEF mcNext, Sameness
<1>3. mcNext => BrowserNext \/ UNCHANGED browserVars
  BY DEF mcNext, Sameness
<1>4. QED
  BY <1>1, <1>2, <1>3

(* The results shown are one search's (lishSearch.svelte.ts) and the items *)
(* those of the path (FileBrowser.svelte), in whatever order requests are  *)
(* answered, refused and started again, however many there are.            *)
THEOREM RowsStay == mcSpec => []RowsBelong
<1>1. mcInit => SearchInv /\ BrowserInv
  BY RowsMove, SearchInitHolds, BrowserInitHolds
<1>2. SearchInv /\ BrowserInv /\ [mcNext]_allVars => SearchInv' /\ BrowserInv'
  BY RowsStep, SearchNextHolds, BrowserNextHolds
<1>3. SearchInv /\ BrowserInv => RowsBelong
  BY SearchIsSafe, BrowserIsSafe DEF RowsBelong
<1>4. QED
  BY <1>1, <1>2, <1>3, PTL DEF mcSpec

-----------------------------------------------------------------------------
(* The connection: what the client keeps are sockets there are.            *)

SocketType == [at : {"closed", "connecting", "open", "failing", "erred", "closing"}, good : BOOLEAN]
RequestType == [at : {"idle", "waiting", "pending", "done", "failed", "hung"}, on : Socket \cup {NoSocket}]
SocketsKept == /\ sock \in [Socket -> SocketType]
               /\ ws \in Socket \cup {NoSocket} /\ connectPromise \in Socket \cup {NoSocket}
RequestsKept == request \in [Request -> RequestType]
ClientKept ==
  /\ connected \in BOOLEAN /\ reconnectTimer \in BOOLEAN /\ autoReconnect \in BOOLEAN
  /\ hasConnectedOnce \in BOOLEAN /\ up \in BOOLEAN
  /\ token \in {"", "bad", "good"} /\ statusCheck \in {"none", "", "bad", "good"}
  /\ status \in {"connecting", "connected", "disconnected", "auth-required", "auth-failed"}
  /\ connectionEvents \in 0..MaxConnectionEvents
ConnectionInv == SocketsKept /\ RequestsKept /\ ClientKept

LEMMA ToSocketKept ==
  ASSUME SocketsKept, NEW s \in Socket, NEW at \in {"closed", "connecting", "open", "failing", "erred", "closing"},
         ToSocket(s, at)
  PROVE  sock' \in [Socket -> SocketType]
<1>1. sock[s] \in SocketType
  BY DEF SocketsKept
<1>2. [sock[s] EXCEPT !.at = at] \in SocketType
  BY <1>1 DEF SocketType
<1>3. sock' = [sock EXCEPT ![s] = [sock[s] EXCEPT !.at = at]]
  BY DEF ToSocket
<1>4. QED
  BY <1>2, <1>3 DEF SocketsKept

LEMMA CloseSocketKept ==
  ASSUME SocketsKept, CloseSocket
  PROVE  sock' \in [Socket -> SocketType]
<1>1. CASE ws = NoSocket
  BY <1>1 DEF CloseSocket, SocketsKept
<1>2. CASE ws # NoSocket
  <2> DEFINE at == IF sock[ws].at = "open" THEN "closing"
                   ELSE IF sock[ws].at = "connecting" THEN "failing" ELSE sock[ws].at
             closed == [sock[ws] EXCEPT !.at = at]
  <2>1. ws \in Socket /\ sock[ws] \in SocketType
    BY <1>2 DEF SocketsKept
  <2>2. closed \in SocketType
    BY <2>1 DEF SocketType
  <2>3. sock' = [sock EXCEPT ![ws] = closed]
    BY <1>2 DEF CloseSocket
  <2> HIDE DEF closed
  <2>4. QED
    BY <2>1, <2>2, <2>3 DEF SocketsKept
<1>3. QED
  BY <1>1, <1>2

LEMMA NewSocketKept ==
  ASSUME SocketsKept, NEW good \in BOOLEAN, NEW s \in Socket, NewSocket(s, good)
  PROVE  SocketsKept'
<1>1. [at |-> "connecting", good |-> good] \in SocketType
  BY DEF SocketType
<1>2. sock' \in [Socket -> SocketType]
  BY <1>1 DEF NewSocket, SocketsKept
<1>3. QED
  BY <1>2 DEF NewSocket, SocketsKept

LEMMA ConnectKept ==
  ASSUME SocketsKept, NEW good \in BOOLEAN, connect(good)
  PROVE  SocketsKept'
<1>1. CASE UNCHANGED <<sock, ws, connectPromise>>
  BY <1>1 DEF SocketsKept
<1>2. CASE \E s \in Socket : NewSocket(s, good)
  BY <1>2, NewSocketKept
<1>3. QED
  BY <1>1, <1>2 DEF connect

LEMMA SentKept ==
  ASSUME ws \in Socket \cup {NoSocket}, NEW at
  PROVE  Sent(at) \in RequestType
BY DEF Sent, RequestType

LEMMA EventCounted ==
  ASSUME ClientKept, connectionEvents < MaxConnectionEvents, connectionEvents' = connectionEvents + 1
  PROVE  connectionEvents' \in 0 .. MaxConnectionEvents
<1>1. connectionEvents \in 0 .. MaxConnectionEvents
  BY Zenon DEF ClientKept
<1>2. MaxConnectionEvents \in Nat
  BY ConnectionAssumption, Zenon
<1>3. QED
  BY <1>1, <1>2

LEMMA SocketsStill == SocketsKept /\ UNCHANGED <<sock, ws, connectPromise>> => SocketsKept'
  BY Zenon DEF SocketsKept

LEMMA ClientStill ==
  ASSUME ClientKept, UNCHANGED <<connected, reconnectTimer, autoReconnect, hasConnectedOnce, up>>,
         UNCHANGED <<token, statusCheck, status>>, connectionEvents' \in 0 .. MaxConnectionEvents
  PROVE  ClientKept'
  BY Zenon DEF ClientKept

LEMMA CallAnswerKept ==
  ASSUME ConnectionInv, NEW r \in Request, Call(r) \/ Answer(r)
  PROVE  ConnectionInv'
<1> USE DEF ConnectionInv
<1>1. CASE Call(r)
  <2>1. SocketsKept'
    <3>1. (token = "good") \in BOOLEAN
      BY Zenon
    <3>2. CASE UNCHANGED <<sock, ws, connectPromise>>
      BY <3>2 DEF SocketsKept
    <3>3. CASE connect(token = "good")
      BY <3>1, <3>3, ConnectKept
    <3>4. QED
      BY <1>1, <3>2, <3>3 DEF Call
  <2>2. RequestsKept'
    <3>1. Sent(sock) \in RequestType
      BY SentKept DEF SocketsKept
    <3>2. [at |-> "waiting", on |-> connectPromise'] \in RequestType
      BY <2>1 DEF SocketsKept, RequestType
    <3>3. QED
      BY <1>1, <3>1, <3>2 DEF Call, RequestsKept
  <2>3. ClientKept'
    <3>1. connectionEvents' \in 0 .. MaxConnectionEvents
      BY <1>1, EventCounted DEF Call
    <3>2. /\ UNCHANGED <<connected, reconnectTimer, autoReconnect, hasConnectedOnce, up>>
          /\ UNCHANGED <<token, statusCheck, status>>
      BY <1>1 DEF Call, statusVars
    <3>3. QED
      BY <3>1, <3>2, ClientStill
  <2>4. QED
    BY <2>1, <2>2, <2>3
<1>2. CASE Answer(r)
  <2>1. [at |-> "done", on |-> NoSocket] \in RequestType
    BY DEF RequestType
  <2>2. RequestsKept'
    BY <1>2, <2>1 DEF Answer, RequestsKept
  <2>3. UNCHANGED <<sock, ws, connectPromise>> /\ UNCHANGED <<connected, reconnectTimer, autoReconnect>>
        /\ UNCHANGED <<token, statusCheck, status, hasConnectedOnce>> /\ UNCHANGED <<up, connectionEvents>>
    BY <1>2 DEF Answer, clientVars, statusVars
  <2>4. SocketsKept' /\ ClientKept'
    <3>1. connectionEvents' \in 0 .. MaxConnectionEvents
      BY <2>3, Zenon DEF ClientKept
    <3>2. QED
      BY <2>3, <3>1, SocketsStill, ClientStill
  <2>5. QED
    BY <2>2, <2>4
<1>3. QED
  BY <1>1, <1>2

LEMMA SocketEventsKept ==
  ASSUME ConnectionInv, NEW s \in Socket, OnOpen(s) \/ OnError(s) \/ OnClose(s) \/ Lost(s)
  PROVE  ConnectionInv'
<1> USE DEF ConnectionInv
<1>1. [at |-> "failed", on |-> NoSocket] \in RequestType /\ [at |-> "hung", on |-> NoSocket] \in RequestType
  BY DEF RequestType
<1>2. sock' \in [Socket -> SocketType]
  BY ToSocketKept DEF OnOpen, OnError, OnClose, Closes, Lost
<1>3. CASE OnOpen(s)
  <2>1. Sent(sock') \in RequestType
    BY SentKept DEF SocketsKept
  <2>2. RequestsKept'
    BY <1>3, <2>1 DEF OnOpen, RequestsKept
  <2>3. SocketsKept' /\ ClientKept'
    BY <1>2, <1>3 DEF OnOpen, SocketsKept, ClientKept
  <2>4. QED
    BY <2>2, <2>3
<1>4. CASE OnError(s)
  <2>1. RequestsKept'
    BY <1>1, <1>4 DEF OnError, RequestsKept
  <2>2. SocketsKept' /\ ClientKept'
    <3>1. UNCHANGED <<ws, connected, reconnectTimer, autoReconnect, token, status, hasConnectedOnce, up, connectionEvents>>
      BY <1>4 DEF OnError
    <3>2. connectPromise' \in Socket \cup {NoSocket} /\ ws' \in Socket \cup {NoSocket}
      BY <1>4, <3>1 DEF OnError, SocketsKept
    <3>3. SocketsKept'
      BY <1>2, <3>2, Zenon DEF SocketsKept
    <3>4. statusCheck' \in {"none", "", "bad", "good"}
      BY <1>4 DEF OnError, ClientKept
    <3>5. ClientKept'
      BY <3>1, <3>4, Zenon DEF ClientKept
    <3>6. QED
      BY <3>3, <3>5
  <2>3. QED
    BY <2>1, <2>2
<1>5. CASE OnClose(s)
  <2>1. RequestsKept'
    BY <1>1, <1>5 DEF OnClose, Closes, RequestsKept
  <2>2. SocketsKept' /\ ClientKept'
    BY <1>2, <1>5 DEF OnClose, Closes, SocketsKept, ClientKept
  <2>3. QED
    BY <2>1, <2>2
<1>6. CASE Lost(s)
  <2>1. connectionEvents' \in 0 .. MaxConnectionEvents
    BY <1>6, EventCounted DEF Lost, Happens
  <2>2. /\ UNCHANGED <<ws, connectPromise, connected, reconnectTimer, autoReconnect, request>>
        /\ UNCHANGED <<token, statusCheck, status, hasConnectedOnce, up>>
    BY <1>6 DEF Lost, clientVars, statusVars
  <2>3. SocketsKept'
    BY <1>2, <2>2, Zenon DEF SocketsKept
  <2>4. RequestsKept'
    BY <2>2, Zenon DEF RequestsKept
  <2>5. ClientKept'
    BY <2>1, <2>2, Zenon DEF ClientKept
  <2>6. QED
    BY <2>3, <2>4, <2>5
<1>7. QED
  BY <1>3, <1>4, <1>5, <1>6

LEMMA TimerKept ==
  ASSUME ConnectionInv, Timer
  PROVE  ConnectionInv'
<1> USE DEF ConnectionInv
<1>1. (token = "good") \in BOOLEAN
  BY Zenon
<1>2. SocketsKept'
  BY <1>1, ConnectKept DEF Timer
<1>3. QED
  BY <1>2 DEF Timer, RequestsKept, ClientKept, statusVars

LEMMA BackendKept ==
  ASSUME ConnectionInv, Stops \/ Starts
  PROVE  ConnectionInv'
<1> USE DEF ConnectionInv
<1>1. \A s \in Socket : [sock[s] EXCEPT !.at = "closing"] \in SocketType /\ sock[s] \in SocketType
  BY DEF SocketsKept, SocketType
<1>2. CASE Stops
  <2>1. sock' \in [Socket -> SocketType]
    BY <1>1, <1>2 DEF Stops
  <2>2. connectionEvents' \in 0 .. MaxConnectionEvents
    BY <1>2, EventCounted DEF Stops, Happens
  <2>3. QED
    <3>1. /\ up' = FALSE /\ UNCHANGED <<ws, connectPromise, connected, reconnectTimer, autoReconnect, request>>
          /\ UNCHANGED <<token, statusCheck, status, hasConnectedOnce>>
      BY <1>2 DEF Stops, clientVars, statusVars
    <3>2. SocketsKept' /\ RequestsKept'
      BY <2>1, <3>1, Zenon DEF SocketsKept, RequestsKept
    <3>3. ClientKept'
      BY <2>2, <3>1, Zenon DEF ClientKept
    <3>4. QED
      BY <3>2, <3>3
<1>3. CASE Starts
  <2>1. /\ up' = TRUE /\ UNCHANGED <<sock, ws, connectPromise, connected, reconnectTimer, autoReconnect, request>>
        /\ UNCHANGED <<token, statusCheck, status, hasConnectedOnce, connectionEvents>>
    BY <1>3 DEF Starts, clientVars, statusVars
  <2>2. SocketsKept' /\ RequestsKept'
    BY <2>1, Zenon DEF SocketsKept, RequestsKept
  <2>3. ClientKept'
    BY <2>1, Zenon DEF ClientKept
  <2>4. QED
    BY <2>2, <2>3
<1>4. QED
  BY <1>2, <1>3

LEMMA TokenKept ==
  ASSUME ConnectionInv, NEW t \in {"bad", "good"}, setBackendToken(t)
  PROVE  ConnectionInv'
<1> USE DEF ConnectionInv
<1>1. SocketsKept'
  <2>1. CASE CloseSocket /\ UNCHANGED <<ws, connectPromise>>
    BY <2>1, CloseSocketKept DEF SocketsKept
  <2>2. CASE connect(t = "good")
    <3>1. (t = "good") \in BOOLEAN
      BY Zenon
    <3>2. QED
      BY <2>2, <3>1, ConnectKept
  <2>3. QED
    BY <2>1, <2>2 DEF setBackendToken
<1>2. connectionEvents' \in 0 .. MaxConnectionEvents
  BY EventCounted DEF setBackendToken, Happens
<1>3. reconnectTimer' \in BOOLEAN
  BY Zenon DEF setBackendToken
<1>4. ClientKept'
  BY <1>2, <1>3 DEF setBackendToken, ClientKept
<1>5. RequestsKept'
  BY DEF setBackendToken, RequestsKept
<1>6. QED
  BY <1>1, <1>4, <1>5

LEMMA StatusKept ==
  ASSUME ConnectionInv, StatusAnswers
  PROVE  ConnectionInv'
<1> USE DEF ConnectionInv
<1>1. sock' \in [Socket -> SocketType]
  <2>1. CASE CloseSocket
    BY <2>1, CloseSocketKept
  <2>2. CASE UNCHANGED sock
    BY <2>2 DEF SocketsKept
  <2>3. QED
    BY <2>1, <2>2 DEF StatusAnswers
<1>2. ClientKept'
  BY DEF StatusAnswers, ClientKept
<1>3. QED
  BY <1>1, <1>2 DEF StatusAnswers, SocketsKept, RequestsKept

LEMMA ConnectionInitHolds == ConnectionInit => ConnectionInv
<1> SUFFICES ASSUME ConnectionInit PROVE ConnectionInv
  OBVIOUS
<1>1. Closed \in SocketType /\ Idle \in RequestType
  BY DEF Closed, Idle, SocketType, RequestType
<1>2. [at |-> "connecting", good |-> token = "good"] \in SocketType
  <2>1. (token = "good") \in BOOLEAN
    BY Zenon
  <2>2. ASSUME NEW b \in BOOLEAN PROVE [at |-> "connecting", good |-> b] \in SocketType
    BY DEF SocketType
  <2>3. QED
    BY <2>1, <2>2, Zenon
<1>3. SocketsKept
  BY <1>1, <1>2, ConnectionAssumption DEF ConnectionInit, SocketsKept
<1>4. RequestsKept
  BY <1>1 DEF ConnectionInit, RequestsKept
<1>5. ClientKept
  <2>1. connectionEvents = 0 /\ MaxConnectionEvents \in Nat
    BY ConnectionAssumption, Zenon DEF ConnectionInit
  <2>2. connectionEvents \in 0 .. MaxConnectionEvents
    BY <2>1
  <2>3. QED
    BY <2>2 DEF ConnectionInit, ClientKept
<1>6. QED
  BY <1>3, <1>4, <1>5 DEF ConnectionInv

LEMMA ConnectionNextHolds == ConnectionInv /\ [ConnectionNext]_connectionVars => ConnectionInv'
<1> SUFFICES ASSUME ConnectionInv, [ConnectionNext]_connectionVars
             PROVE  ConnectionInv'
  OBVIOUS
<1>1. CASE UNCHANGED connectionVars
  <2>1. /\ UNCHANGED <<sock, ws, connectPromise, connected, reconnectTimer, autoReconnect, request>>
        /\ UNCHANGED <<token, statusCheck, status, hasConnectedOnce, up, connectionEvents>>
    BY <1>1 DEF connectionVars, clientVars, statusVars
  <2>2. SocketsKept' /\ RequestsKept'
    BY <2>1, Zenon DEF ConnectionInv, SocketsKept, RequestsKept
  <2>3. ClientKept'
    BY <2>1, Zenon DEF ConnectionInv, ClientKept
  <2>4. QED
    BY <2>2, <2>3 DEF ConnectionInv
<1>2. CASE ConnectionNext
  BY <1>2, CallAnswerKept, SocketEventsKept, TimerKept, BackendKept, TokenKept, StatusKept DEF ConnectionNext
<1>3. QED
  BY <1>1, <1>2

LEMMA ConnectionIsTyped == ConnectionInv => ConnectionTypeOK
BY DEF ConnectionInv, SocketsKept, RequestsKept, ClientKept, SocketType, RequestType, ConnectionTypeOK

-----------------------------------------------------------------------------
(* What is watched of the networks.  First the sum of the footer: it is    *)
(* nothing only if there is nothing to sum.                                *)

LEMMA SmallerIs ==
  ASSUME NEW S, IsFiniteSet(S), NEW s \in SUBSET S, s # {}
  PROVE  /\ Picked(s) \in s /\ s \ {Picked(s)} \in SUBSET S
         /\ Cardinality(s) \in Nat /\ Cardinality(s \ {Picked(s)}) = Cardinality(s) - 1
<1>1. Picked(s) \in s
  BY DEF Picked
<1>2. IsFiniteSet(s)
  BY FS_Subset
<1>3. QED
  BY <1>1, <1>2, FS_RemoveElement, FS_CardinalityType

\* The sum is defined: on sets of one more if it is on sets of some size.
SumsUpTo(f, S, k, h) == \A s \in SUBSET S : Cardinality(s) <= k => h[s] = Summed(f, h, s)

LEMMA SumGrows ==
  ASSUME NEW S, IsFiniteSet(S), NEW f, NEW k \in Nat, NEW h, k = 0 \/ SumsUpTo(f, S, k - 1, h)
  PROVE  SumsUpTo(f, S, k, [s \in SUBSET S |-> Summed(f, h, s)])
<1> DEFINE g == [s \in SUBSET S |-> Summed(f, h, s)]
<1> SUFFICES ASSUME NEW s \in SUBSET S, Cardinality(s) <= k
             PROVE  g[s] = Summed(f, g, s)
  BY DEF SumsUpTo
<1>1. g[s] = Summed(f, h, s)
  OBVIOUS
<1>2. CASE s = {}
  BY <1>1, <1>2 DEF Summed
<1>3. CASE s # {}
  <2> DEFINE t == s \ {Picked(s)}
  <2>1. t \in SUBSET S /\ Cardinality(s) \in Nat /\ Cardinality(t) = Cardinality(s) - 1
    BY <1>3, SmallerIs
  <2>2. k # 0
    <3>1. Cardinality(t) \in Nat
      BY <2>1, FS_Subset, FS_CardinalityType
    <3> HIDE DEF t
    <3>2. QED
      BY <2>1, <3>1
  <2>3. h[t] = Summed(f, h, t)
    <3> HIDE DEF t
    <3>1. Cardinality(t) <= k - 1
      BY <2>1
    <3>2. QED
      BY <2>1, <2>2, <3>1 DEF SumsUpTo
  <2>4. g[t] = h[t]
    <3> HIDE DEF t
    <3>1. QED
      BY <2>1, <2>3
  <2> HIDE DEF g
  <2>5. QED
    BY <1>1, <1>3, <2>4 DEF Summed
<1>4. QED
  BY <1>2, <1>3

LEMMA SumExists ==
  ASSUME NEW S, IsFiniteSet(S), NEW f
  PROVE  \E h : SumsTo(f, S, h)
<1> DEFINE bad == {k \in Nat : ~ \E h : SumsUpTo(f, S, k, h)}
<1>1. bad = {}
  <2> SUFFICES ASSUME bad # {} PROVE FALSE
    OBVIOUS
  <2>1. PICK k \in bad : \A y \in bad : k <= y
    BY LeastOf
  <2>2. k \in Nat /\ ~ \E h : SumsUpTo(f, S, k, h)
    BY <2>1
  <2>3. \E h : k = 0 \/ SumsUpTo(f, S, k - 1, h)
    <3>1. CASE k = 0
      BY <3>1
    <3>2. CASE k # 0
      <4>1. k - 1 \in Nat /\ ~(k <= k - 1)
        BY <2>2, <3>2
      <4>2. k - 1 \notin bad
        BY <2>1, <4>1
      <4>3. QED
        BY <4>1, <4>2
    <3>3. QED
      BY <3>1, <3>2
  <2>4. QED
    BY <2>2, <2>3, SumGrows
<1>2. Cardinality(S) \in Nat
  BY FS_CardinalityType
<1>3. PICK h : SumsUpTo(f, S, Cardinality(S), h)
  BY <1>1, <1>2
<1>4. \A s \in SUBSET S : h[s] = Summed(f, h, s)
  BY <1>3, FS_Subset DEF SumsUpTo
<1> DEFINE g == [s \in SUBSET S |-> Summed(f, h, s)]
<1>5. ASSUME NEW s \in SUBSET S PROVE Summed(f, h, s) = Summed(f, g, s)
  <2>1. CASE s = {}
    BY <2>1 DEF Summed
  <2>2. CASE s # {}
    <3>1. s \ {Picked(s)} \in SUBSET S
      OBVIOUS
    <3>2. g[s \ {Picked(s)}] = h[s \ {Picked(s)}]
      BY <3>1, <1>4
    <3> HIDE DEF g
    <3>3. QED
      BY <2>2, <3>2 DEF Summed
  <2>3. QED
    BY <2>1, <2>2
<1>6. g = [s \in SUBSET S |-> Summed(f, g, s)]
  BY <1>5
<1>7. QED
  BY <1>6 DEF SumsTo

LEMMA SumIsNothing ==
  ASSUME NEW S, IsFiniteSet(S), NEW f, \A n \in S : f[n].peers \in Nat, NEW h, SumsTo(f, S, h)
  PROVE  h[S] \in Nat /\ (h[S] = 0 => \A n \in S : f[n].peers = 0)
<1> DEFINE Fine(s) == h[s] \in Nat /\ (h[s] = 0 => \A n \in s : f[n].peers = 0)
           bad == {k \in Nat : \E s \in SUBSET S : Cardinality(s) = k /\ ~Fine(s)}
<1>1. bad = {}
  <2> SUFFICES ASSUME bad # {} PROVE FALSE
    OBVIOUS
  <2>1. PICK k \in bad : \A y \in bad : k <= y
    BY LeastOf
  <2>2. PICK s \in SUBSET S : Cardinality(s) = k /\ ~Fine(s)
    BY <2>1
  <2>3. h[s] = Summed(f, h, s)
    BY DEF SumsTo
  <2>4. s # {}
    BY <2>2, <2>3 DEF Summed
  <2> DEFINE t == s \ {Picked(s)}
  <2>5. /\ Picked(s) \in s /\ t \in SUBSET S /\ k \in Nat
        /\ Cardinality(t) = k - 1
    BY <2>2, <2>4, SmallerIs
  <2>6. Fine(t)
    <3> HIDE DEF t, Fine
    <3>1. Cardinality(t) \in Nat /\ ~(k <= Cardinality(t))
      <4>1. Cardinality(t) \in Nat
        BY <2>5, FS_Subset, FS_CardinalityType
      <4>2. QED
        BY <4>1, <2>5
    <3>2. Cardinality(t) \notin bad
      BY <2>1, <3>1
    <3>3. QED
      BY <2>5, <3>1, <3>2
  <2>7. h[s] = h[t] + f[Picked(s)].peers
    BY <2>3, <2>4 DEF Summed
  <2>8. f[Picked(s)].peers \in Nat /\ \A n \in s : n = Picked(s) \/ n \in t
    BY <2>5
  <2> HIDE DEF t
  <2>9. Fine(s)
    <3>1. h[s] \in Nat
      BY <2>6, <2>7, <2>8
    <3>2. ASSUME h[s] = 0 PROVE h[t] = 0 /\ f[Picked(s)].peers = 0
      BY <2>6, <2>7, <2>8, <3>2
    <3>3. QED
      BY <2>6, <2>8, <3>1, <3>2
  <2> HIDE DEF Fine
  <2>10. QED
    BY <2>2, <2>9
<1>2. Cardinality(S) \in Nat
  BY FS_CardinalityType
<1>3. Fine(S)
  <2> HIDE DEF Fine
  <2>1. QED
    BY <1>1, <1>2
<1>4. QED
  BY <1>3

LEMMA PeersAddUp ==
  ASSUME NEW S, IsFiniteSet(S), NEW f, \A n \in S : f[n].peers \in Nat,
         FoldSet(LAMBDA n, sum : sum + f[n].peers, 0, S) = 0
  PROVE  \A n \in S : f[n].peers = 0
<1> DEFINE sums == CHOOSE h : SumsTo(f, S, h)
<1>1. SumsTo(f, S, sums)
  BY SumExists
<1>2. FoldSet(LAMBDA n, sum : sum + f[n].peers, 0, S) = sums[S]
  BY Zenon DEF FoldSet, MapThenFoldSet, SumsTo, Summed, Picked
<1> HIDE DEF sums
<1>3. QED
  BY <1>1, <1>2, SumIsNothing

-----------------------------------------------------------------------------
(* The colours.  A topic that has no mesh has no score, and a mesh is of   *)
(* peers that are counted.                                                 *)

GoodTopics == {t \in TopicState : t.mesh <= t.peers /\ (t.mesh = 0 => t.score = NoScore)}
GoodCounts == UNION {[s -> GoodTopics] : s \in SUBSET Lishnet}

LEMMA GoodIs ==
  ASSUME NEW t \in GoodTopics
  PROVE  /\ t.peers \in 0 .. MaxPeers /\ t.mesh \in 0 .. MaxPeers /\ t.since \in {Never, Recent, Long}
         /\ t.score \in {NoScore, "negative", "positive"}
         /\ t.mesh <= t.peers /\ (t.mesh = 0 => t.score = NoScore)
         /\ t = [peers |-> t.peers, mesh |-> t.mesh, since |-> t.since, score |-> t.score]
BY DEF GoodTopics, TopicState

LEMMA IsGood ==
  ASSUME NEW peers \in 0 .. MaxPeers, NEW mesh \in 0 .. MaxPeers, NEW since \in {Never, Recent, Long},
         NEW score \in {NoScore, "negative", "positive"}, mesh <= peers, mesh = 0 => score = NoScore
  PROVE  [peers |-> peers, mesh |-> mesh, since |-> since, score |-> score] \in GoodTopics
<1> DEFINE t == [peers |-> peers, mesh |-> mesh, since |-> since, score |-> score]
<1>1. t \in TopicState
  BY DEF TopicState
<1>2. t.mesh = mesh /\ t.peers = peers /\ t.score = score
  OBVIOUS
<1> HIDE DEF t
<1>3. t \in GoodTopics
  BY <1>1, <1>2 DEF GoodTopics
<1>4. QED
  BY <1>3 DEF t

LEMMA CountsAre ==
  ASSUME NEW c \in GoodCounts
  PROVE  DOMAIN c \in SUBSET Lishnet /\ c \in [DOMAIN c -> GoodTopics]
<1>1. PICK s \in SUBSET Lishnet : c \in [s -> GoodTopics]
  BY DEF GoodCounts
<1>2. QED
  BY <1>1

LEMMA AreCounts ==
  ASSUME NEW s \in SUBSET Lishnet, NEW c \in [s -> GoodTopics]
  PROVE  c \in GoodCounts
BY DEF GoodCounts

LEMMA FooterAgrees ==
  ASSUME seen.counts \in GoodCounts
  PROVE  OneColour
<1> DEFINE counts == seen.counts
           rows == DOMAIN counts
           states == {evaluateNetworkMeshState(n) : n \in DOMAIN seen.counts}
<1>1. rows \in SUBSET Lishnet /\ IsFiniteSet(rows) /\ \A n \in rows : counts[n] \in GoodTopics
  BY CountsAre, WatchAssumption, FS_Subset
<1>2. \A n \in rows : /\ counts[n].peers \in Nat /\ counts[n].mesh \in Nat
                       /\ counts[n].mesh <= counts[n].peers /\ (counts[n].mesh = 0 => counts[n].score = NoScore)
                       /\ counts[n].since \in {Never, Recent, Long}
  BY <1>1, GoodIs
<1>3. \A n \in rows : evaluateNetworkMeshState(n) =
        IF counts[n].score = "negative" THEN "unstable"
        ELSE IF counts[n].mesh = 0 \/ counts[n].since # Long THEN "forming" ELSE "stable"
  BY DEF evaluateNetworkMeshState
<1>4. networkSummary.total = Cardinality(rows)
      /\ networkSummary.peers = FoldSet(LAMBDA n, sum : sum + counts[n].peers, 0, rows)
  BY Zenon DEF networkSummary
<1>5. CASE rows = {}
  <2>1. networkSummary.total = 0
    BY <1>4, <1>5, FS_EmptySet
  <2>2. states = {}
    BY <1>5
  <2>3. QED
    BY <2>1, <2>2 DEF OneColour, evaluateMeshStatus
<1>6. CASE rows # {} /\ \A n \in rows : counts[n].peers = 0
  <2>1. \A n \in rows : evaluateNetworkMeshState(n) = "forming" /\ counts[n].score # "negative"
                         /\ counts[n].mesh = 0
    <3> SUFFICES ASSUME NEW n \in rows
                 PROVE  /\ evaluateNetworkMeshState(n) = "forming" /\ counts[n].score # "negative"
                        /\ counts[n].mesh = 0
      OBVIOUS
    <3>1. counts[n].mesh = 0
      <4>1. counts[n].mesh \in Nat /\ counts[n].mesh <= 0
        BY <1>2, <1>6
      <4>2. QED
        BY <4>1
    <3>2. counts[n].score # "negative"
      BY <1>2, <3>1 DEF NoScore
    <3>3. QED
      BY <1>3, <3>1, <3>2
  <2>2. states = {"forming"}
    BY <1>6, <2>1
  <2>3. networkSummary.total # 0
    BY <1>1, <1>4, <1>6, FS_EmptySet
  <2>4. evaluateMeshStatus = "forming"
    BY <1>6, <2>1, <2>3 DEF evaluateMeshStatus
  <2>5. QED
    BY <2>2, <2>4 DEF OneColour
<1>7. CASE \E n \in rows : counts[n].peers # 0
  <2>1. networkSummary.peers # 0
    BY <1>1, <1>2, <1>4, <1>7, PeersAddUp, Zenon
  <2>2. networkSummary.total # 0
    BY <1>1, <1>4, <1>7, FS_EmptySet
  <2>3. evaluateMeshStatus =
          IF \E n \in rows : counts[n].score = "negative" THEN "unstable"
          ELSE IF \E n \in rows : counts[n].mesh = 0 \/ counts[n].since = Never THEN "forming"
          ELSE IF \E n \in rows : counts[n].since = Recent THEN "forming"
          ELSE "stable"
    BY <2>1, <2>2 DEF evaluateMeshStatus
  <2>4. CASE \E n \in rows : counts[n].score = "negative"
    <3>1. "unstable" \in states /\ states # {}
      BY <1>3, <2>4
    <3>2. QED
      BY <2>3, <2>4, <3>1 DEF OneColour
  <2>5. CASE /\ \A n \in rows : counts[n].score # "negative"
             /\ \E n \in rows : counts[n].mesh = 0 \/ counts[n].since # Long
    <3>1. evaluateMeshStatus = "forming"
      BY <1>2, <2>3, <2>5
    <3>2. "unstable" \notin states /\ "forming" \in states /\ states # {}
      BY <1>3, <2>5
    <3>3. QED
      BY <3>1, <3>2 DEF OneColour
  <2>6. CASE \A n \in rows : counts[n].score # "negative" /\ counts[n].mesh # 0 /\ counts[n].since = Long
    <3>1. evaluateMeshStatus = "stable"
      BY <2>3, <2>6 DEF Never, Recent, Long
    <3>2. states = {"stable"}
      BY <1>3, <1>7, <2>6
    <3>3. QED
      BY <3>1, <3>2 DEF OneColour
  <2>7. QED
    BY <2>4, <2>5, <2>6
<1>8. QED
  BY <1>5, <1>6, <1>7

-----------------------------------------------------------------------------
(* The calls.  What the frontend means to hear is promised: the last call  *)
(* about it subscribes, or there is none and the backend has it.           *)

CallType == [method : {"subscribe", "unsubscribe"}, event : Watched] \cup
            [method : {"snapshot"}, event : {"first snapshot", "later snapshot"}]
PushType == [event : {"peers:count"}, data : GoodCounts] \cup
            [event : {"lishnets:bootstrapStatus"}, data : [n : Lishnet, status : {"pending", "failed"}]] \cup
            [event : {"unsubscribed"}, data : Watched] \cup
            [event : {"first snapshot", "later snapshot"}, data : [Lishnet -> {"pending", "failed"}]]

LEMMA CallsAre ==
  ASSUME NEW c \in CallType
  PROVE  /\ c.method = "subscribe" \/ c.method = "unsubscribe" => c.event \in Watched
         /\ c.method = "snapshot" => c.event \in {"first snapshot", "later snapshot"}
         /\ c.method = "subscribe" \/ c.method = "unsubscribe" \/ c.method = "snapshot"
         /\ c = Ask(c.method, c.event)
         /\ c.event \in Watched => c.method # "snapshot"
BY DEF CallType, Ask, Watched

LEMMA AreCalls ==
  /\ \A e \in Watched : Ask("subscribe", e) \in CallType /\ Ask("unsubscribe", e) \in CallType
  /\ \A e \in {"first snapshot", "later snapshot"} : Ask("snapshot", e) \in CallType
BY DEF CallType, Ask

LEMMA PushesAre ==
  ASSUME NEW p \in PushType
  PROVE  /\ p.event = "peers:count" => p.data \in GoodCounts
         /\ p.event = "unsubscribed" => p.data \in Watched
BY DEF PushType

LEMMA ArePushes ==
  /\ \A d \in GoodCounts : Push("peers:count", d) \in PushType
  /\ \A n \in Lishnet, s \in {"pending", "failed"} :
       Push("lishnets:bootstrapStatus", [n |-> n, status |-> s]) \in PushType
  /\ \A e \in Watched : Push("unsubscribed", e) \in PushType
  /\ \A w \in {"first snapshot", "later snapshot"}, d \in [Lishnet -> {"pending", "failed"}] : Push(w, d) \in PushType
BY DEF PushType, Push

LastSubscribes(list, e) ==
  \E i \in 1 .. Len(list) : /\ list[i].method = "subscribe" /\ list[i].event = e
                            /\ \A j \in 1 .. Len(list) : j > i => list[j].event # e
NoneAbout(list, e) == \A j \in 1 .. Len(list) : list[j].event # e
Promised(list, heard, e) == LastSubscribes(list, e) \/ (e \in heard /\ NoneAbout(list, e))

\* What follows says nothing of it, or subscribes.
LEMMA PromiseStays ==
  ASSUME NEW s \in Seq(CallType), NEW t \in Seq(CallType), NEW heard, NEW e,
         \/ LastSubscribes(t, e)
         \/ NoneAbout(t, e) /\ Promised(s, heard, e),
         NEW u, u = s \o t
  PROVE  Promised(u, heard, e)
<1>1. /\ Len(u) = Len(s) + Len(t) /\ Len(s) \in Nat /\ Len(t) \in Nat
      /\ \A i \in 1 .. Len(s) : u[i] = s[i]
      /\ \A i \in 1 .. Len(t) : u[Len(s) + i] = t[i]
  OBVIOUS
<1>2. ASSUME NEW j \in 1 .. Len(u), j > Len(s)
      PROVE  \E k \in 1 .. Len(t) : k = j - Len(s) /\ j = Len(s) + k
  <2>1. j - Len(s) \in 1 .. Len(t) /\ j = Len(s) + (j - Len(s))
    BY <1>1, <1>2
  <2>2. QED
    BY <2>1, Zenon
<1>3. CASE LastSubscribes(t, e)
  <2>1. PICK i \in 1 .. Len(t) : /\ t[i].method = "subscribe" /\ t[i].event = e
                                 /\ \A j \in 1 .. Len(t) : j > i => t[j].event # e
    BY <1>3 DEF LastSubscribes
  <2>2. Len(s) + i \in 1 .. Len(u) /\ u[Len(s) + i] = t[i]
    BY <1>1
  <2>3. ASSUME NEW j \in 1 .. Len(u), j > Len(s) + i PROVE u[j].event # e
    <3>1. PICK k \in 1 .. Len(t) : j = Len(s) + k
      BY <1>1, <1>2, <2>3
    <3>2. k > i /\ u[j] = t[k]
      BY <1>1, <2>3, <3>1
    <3>3. QED
      BY <2>1, <3>2
  <2>4. QED
    BY <2>1, <2>2, <2>3 DEF Promised, LastSubscribes
<1>4. CASE NoneAbout(t, e) /\ LastSubscribes(s, e)
  <2>1. PICK i \in 1 .. Len(s) : /\ s[i].method = "subscribe" /\ s[i].event = e
                                 /\ \A j \in 1 .. Len(s) : j > i => s[j].event # e
    BY <1>4 DEF LastSubscribes
  <2>2. i \in 1 .. Len(u) /\ u[i] = s[i]
    BY <1>1
  <2>3. ASSUME NEW j \in 1 .. Len(u), j > i PROVE u[j].event # e
    <3>1. CASE j \in 1 .. Len(s)
      BY <1>1, <2>1, <2>3, <3>1
    <3>2. CASE j > Len(s)
      BY <1>1, <1>2, <1>4, <3>2 DEF NoneAbout
    <3>3. QED
      BY <1>1, <3>1, <3>2
  <2>4. QED
    BY <2>1, <2>2, <2>3 DEF Promised, LastSubscribes
<1>5. CASE NoneAbout(t, e) /\ NoneAbout(s, e) /\ e \in heard
  <2>1. ASSUME NEW j \in 1 .. Len(u) PROVE u[j].event # e
    <3>1. CASE j \in 1 .. Len(s)
      BY <1>1, <1>5, <3>1 DEF NoneAbout
    <3>2. CASE j > Len(s)
      BY <1>1, <1>2, <1>5, <3>2 DEF NoneAbout
    <3>3. QED
      BY <1>1, <3>1, <3>2
  <2>2. QED
    BY <1>5, <2>1 DEF Promised, NoneAbout
<1>6. QED
  BY <1>3, <1>4, <1>5 DEF Promised

LEMMA OneIsAbout ==
  ASSUME NEW c \in CallType, NEW e
  PROVE  /\ c.event # e => NoneAbout(<<c>>, e)
         /\ c.method = "subscribe" /\ c.event = e => LastSubscribes(<<c>>, e)
BY DEF NoneAbout, LastSubscribes

\* The call that is executed is the first one.
LEMMA PromiseIsKept ==
  ASSUME NEW s \in Seq(CallType), s # <<>>, NEW heard, NEW e, NEW after, Promised(s, heard, e),
         e \in heard /\ (s[1].event # e \/ s[1].method # "unsubscribe") => e \in after,
         s[1].event = e /\ s[1].method = "subscribe" => e \in after,
         NEW t, t = Tail(s)
  PROVE  Promised(t, after, e)
<1>1. /\ Len(s) \in Nat /\ Len(s) >= 1 /\ Len(t) = Len(s) - 1
      /\ \A i \in 1 .. Len(t) : t[i] = s[i + 1] /\ i + 1 \in 1 .. Len(s)
  OBVIOUS
<1>2. CASE NoneAbout(s, e) /\ e \in heard
  <2>1. s[1].event # e
    BY <1>1, <1>2 DEF NoneAbout
  <2>2. NoneAbout(t, e)
    BY <1>1, <1>2 DEF NoneAbout
  <2>3. QED
    BY <1>2, <2>1, <2>2 DEF Promised
<1>3. CASE LastSubscribes(s, e)
  <2>1. PICK i \in 1 .. Len(s) : /\ s[i].method = "subscribe" /\ s[i].event = e
                                 /\ \A j \in 1 .. Len(s) : j > i => s[j].event # e
    BY <1>3 DEF LastSubscribes
  <2>2. CASE i = 1
    <3>1. NoneAbout(t, e)
      <4>1. ASSUME NEW j \in 1 .. Len(t) PROVE t[j].event # e
        BY <1>1, <2>1, <2>2
      <4>2. QED
        BY <4>1 DEF NoneAbout
    <3>2. QED
      BY <2>1, <2>2, <3>1 DEF Promised
  <2>3. CASE i # 1
    <3>1. i - 1 \in 1 .. Len(t) /\ t[i - 1] = s[i]
      BY <1>1, <2>3
    <3>2. ASSUME NEW j \in 1 .. Len(t), j > i - 1 PROVE t[j].event # e
      BY <1>1, <2>1, <3>2
    <3>3. QED
      BY <2>1, <3>1, <3>2 DEF Promised, LastSubscribes
  <2>4. QED
    BY <2>2, <2>3
<1>4. QED
  BY <1>2, <1>3 DEF Promised

\* On a reconnect, whoever listens subscribes again, in whatever order.
LEMMA SetAsSeq ==
  ASSUME NEW S, IsFiniteSet(S), NEW t, t = SetToSeq(S)
  PROVE  /\ Len(t) \in Nat /\ t \in [1 .. Len(t) -> S]
         /\ \A x \in S : \E i \in 1 .. Len(t) : t[i] = x
         /\ \A i, j \in 1 .. Len(t) : t[i] = t[j] => i = j
<1> DEFINE N == Cardinality(S)
<1>1. N \in Nat /\ ExistsBijection(1 .. N, S)
  BY FS_CardinalityType
<1>2. t \in [1 .. N -> S] /\ IsInjective(t)
  <2>1. \E f \in [1 .. N -> S] : IsInjective(f)
    BY <1>1 DEF ExistsBijection, Bijection, Injection
  <2>2. QED
    BY <2>1 DEF SetToSeq
<1>3. t \in Injection(1 .. N, S)
  BY <1>2 DEF Injection
<1>4. t \in Surjection(1 .. N, S)
  <2>1. Cardinality(1 .. N) = N
    BY <1>1, FS_Interval
  <2>2. QED
    BY <1>3, <2>1, FS_Injection
<1> HIDE DEF N
<1>5. t \in [1 .. N -> S] /\ Len(t) = N
  BY <1>1, <1>2
<1>6. QED
  BY <1>2, <1>4, <1>5 DEF IsInjective, Surjection

AgainCalls(again) == {Ask("subscribe", e) : e \in again}
                       \cup {Ask("snapshot", "later snapshot") : e \in again \ {"peers:count"}}
AllAgain == {Ask("subscribe", "peers:count"), Ask("subscribe", "lishnets:bootstrapStatus"),
             Ask("snapshot", "later snapshot")}

LEMMA AgainIs ==
  ASSUME NEW again \in SUBSET Watched
  PROVE  /\ AgainCalls(again) \in SUBSET CallType /\ IsFiniteSet(AgainCalls(again))
         /\ \A e \in again : Ask("subscribe", e) \in AgainCalls(again)
         /\ \A x \in AgainCalls(again), e \in again : x.event = e => x = Ask("subscribe", e)
<1>1. AgainCalls(again) \in SUBSET CallType
  BY AreCalls DEF AgainCalls
<1>2. AgainCalls(again) \in SUBSET AllAgain
  BY DEF AgainCalls, AllAgain, Watched
<1>3. IsFiniteSet(AllAgain)
  <2>1. \A a, b, c : IsFiniteSet({a, b, c})
    <3> SUFFICES ASSUME NEW a, NEW b, NEW c PROVE IsFiniteSet({a, b, c})
      OBVIOUS
    <3>1. IsFiniteSet({a})
      BY FS_Singleton
    <3>2. IsFiniteSet({a} \cup {b})
      BY <3>1, FS_AddElement
    <3>3. IsFiniteSet(({a} \cup {b}) \cup {c})
      BY <3>2, FS_AddElement
    <3>4. {a, b, c} = ({a} \cup {b}) \cup {c}
      OBVIOUS
    <3>5. QED
      BY <3>3, <3>4
  <2>2. QED
    BY <2>1, Zenon DEF AllAgain
<1>4. IsFiniteSet(AgainCalls(again))
  BY <1>2, <1>3, FS_Subset
<1>5. ASSUME NEW x \in AgainCalls(again), NEW e \in again, x.event = e PROVE x = Ask("subscribe", e)
  <2>1. CASE \E f \in again : x = Ask("subscribe", f)
    BY <1>5, <2>1 DEF Ask
  <2>2. CASE x = Ask("snapshot", "later snapshot")
    BY <1>5, <2>2 DEF Ask, Watched
  <2>3. QED
    BY <2>1, <2>2 DEF AgainCalls
<1>6. QED
  BY <1>1, <1>4, <1>5 DEF AgainCalls

LEMMA AgainSubscribes ==
  ASSUME NEW again \in SUBSET Watched, NEW t, t = SetToSeq(AgainCalls(again))
  PROVE  t \in Seq(CallType) /\ \A e \in again : LastSubscribes(t, e)
<1>1. /\ Len(t) \in Nat /\ t \in [1 .. Len(t) -> AgainCalls(again)]
      /\ \A x \in AgainCalls(again) : \E i \in 1 .. Len(t) : t[i] = x
      /\ \A i, j \in 1 .. Len(t) : t[i] = t[j] => i = j
  BY AgainIs, SetAsSeq
<1>2. t \in Seq(CallType)
  <2>1. t \in [1 .. Len(t) -> CallType]
    BY <1>1, AgainIs
  <2>2. QED
    <3>1. ASSUME NEW T, NEW n \in Nat, t \in [1 .. n -> T] PROVE t \in Seq(T)
      BY <3>1
    <3>2. QED
      BY <1>1, <2>1, <3>1, Zenon
<1>3. ASSUME NEW e \in again PROVE LastSubscribes(t, e)
  <2>1. PICK i \in 1 .. Len(t) : t[i] = Ask("subscribe", e)
    BY <1>1, AgainIs
  <2>2. t[i].method = "subscribe" /\ t[i].event = e
    BY <2>1 DEF Ask
  <2>3. ASSUME NEW j \in 1 .. Len(t), j > i PROVE t[j].event # e
    <3>1. t[j] \in AgainCalls(again)
      BY <1>1
    <3>2. t[j] # Ask("subscribe", e)
      BY <1>1, <2>1, <2>3
    <3>3. QED
      BY <3>1, <3>2, AgainIs
  <2>4. QED
    BY <2>2, <2>3 DEF LastSubscribes
<1>4. QED
  BY <1>2, <1>3

-----------------------------------------------------------------------------
(* The invariant of what is watched *)

NodeKept == node \in [up : BOOLEAN, topics : SUBSET Lishnet, of : [Lishnet -> GoodTopics]]
BackKept == /\ wanted \in SUBSET Lishnet /\ DOMAIN lastCounts \in SUBSET Lishnet
            /\ checks \in [soon : BOOLEAN, later : BOOLEAN]
            /\ dialled \in [Lishnet -> {"pending", "failed"}]
LineKept == online \in BOOLEAN /\ heardEvents \in SUBSET Watched /\ watchEvents \in 0 .. MaxWatchEvents
PushesKept == pushes \in Seq(PushType) /\ Len(pushes) <= MaxPushes + 2
CallsKept == calls \in Seq(CallType) /\ Len(calls) <= MaxCalls
PageKept == /\ watchers \in [Watched -> 0 .. 2] /\ listeners \in [Watched -> 0 .. 2]
            /\ rejoins \in SUBSET Watched
SeenKept == seen = [counts |-> seen.counts, boot |-> seen.boot] /\ seen.counts \in GoodCounts
PromisesKept == online => \A e \in rejoins : listeners[e] > 0 => Promised(calls, heardEvents, e)
WatchInv == /\ NodeKept /\ BackKept /\ LineKept /\ PushesKept
            /\ CallsKept /\ PageKept /\ SeenKept /\ PromisesKept

PageStill == UNCHANGED <<calls, watchers, listeners, rejoins, seen>>
LineStill == UNCHANGED <<online, heardEvents>>
LEMMA PageStays ==
  ASSUME WatchInv, PageStill, LineStill
  PROVE  CallsKept' /\ PageKept' /\ SeenKept' /\ PromisesKept'
BY DEF WatchInv, PageStill, LineStill, CallsKept, PageKept, SeenKept, PromisesKept

LEMMA HappenedKept ==
  ASSUME LineKept, Happened \/ UNCHANGED watchEvents
  PROVE  watchEvents' \in 0 .. MaxWatchEvents
<1>1. watchEvents \in 0 .. MaxWatchEvents
  BY Zenon DEF LineKept
<1>2. CASE Happened
  BY <1>1, <1>2, WatchAssumption DEF Happened
<1>3. CASE UNCHANGED watchEvents
  BY <1>1, <1>3
<1>4. QED
  BY <1>2, <1>3

LEMMA NodeFields ==
  ASSUME NodeKept
  PROVE  /\ node.up \in BOOLEAN /\ node.topics \in SUBSET Lishnet /\ node.of \in [Lishnet -> GoodTopics]
         /\ node = [up |-> node.up, topics |-> node.topics, of |-> node.of]
BY DEF NodeKept

LEMMA NodeGets ==
  ASSUME NodeKept, NEW n \in Lishnet, NEW t \in GoodTopics, NEW topics \in SUBSET Lishnet,
         node' = [node EXCEPT !.topics = topics, !.of[n] = t]
  PROVE  NodeKept'
<1>1. [node.of EXCEPT ![n] = t] \in [Lishnet -> GoodTopics]
  BY NodeFields
<1>2. node' = [up |-> node.up, topics |-> topics, of |-> [node.of EXCEPT ![n] = t]]
  BY NodeFields
<1>3. QED
  BY <1>1, <1>2, NodeFields DEF NodeKept

LEMMA NodeOf ==
  ASSUME NodeKept, NEW f \in [Lishnet -> GoodTopics], node' = [node EXCEPT !.of = f]
  PROVE  NodeKept'
<1>1. node' = [up |-> node.up, topics |-> node.topics, of |-> f]
  BY NodeFields
<1>2. QED
  BY <1>1, NodeFields DEF NodeKept

LEMMA NoMeshIsGood == NoMesh \in GoodTopics /\ \A since \in {Never, Recent, Long} : [NoMesh EXCEPT !.since = since] \in GoodTopics
<1>1. 0 \in 0 .. MaxPeers
  BY WatchAssumption
<1>2. \A since \in {Never, Recent, Long} :
        [peers |-> 0, mesh |-> 0, since |-> since, score |-> NoScore] \in GoodTopics
  <2> SUFFICES ASSUME NEW since \in {Never, Recent, Long}
               PROVE  [peers |-> 0, mesh |-> 0, since |-> since, score |-> NoScore] \in GoodTopics
    OBVIOUS
  <2>1. NoScore \in {NoScore, "negative", "positive"} /\ 0 <= 0
    OBVIOUS
  <2>2. QED
    BY <1>1, <2>1, IsGood
<1>3. Never \in {Never, Recent, Long}
  OBVIOUS
<1>4. QED
  BY <1>2, <1>3 DEF NoMesh

LEMMA ChecksKept ==
  ASSUME BackKept, NEW b \in BOOLEAN
  PROVE  [checks EXCEPT !.soon = b] \in [soon : BOOLEAN, later : BOOLEAN]
         /\ [checks EXCEPT !.later = b] \in [soon : BOOLEAN, later : BOOLEAN]
BY DEF BackKept

LEMMA TopicsKeep ==
  ASSUME WatchInv, NEW n \in Lishnet, Enable(n) \/ subscribeTopic(n) \/ unsubscribeTopic(n) \/ TopicChanges(n)
  PROVE  WatchInv'
<1> USE DEF WatchInv
<1>1. CallsKept' /\ PageKept' /\ SeenKept' /\ PromisesKept'
  <2>1. PageStill /\ LineStill
    BY DEF Enable, subscribeTopic, unsubscribeTopic, TopicChanges, watcherVars, PageStill, LineStill
  <2>2. QED
    BY <2>1, PageStays
<1>2. LineKept'
  <2>1. (Happened \/ UNCHANGED watchEvents) /\ UNCHANGED <<online, heardEvents>>
    BY DEF Enable, subscribeTopic, unsubscribeTopic, TopicChanges
  <2>2. QED
    BY <2>1, HappenedKept DEF LineKept
<1>3. PushesKept'
  <2>1. UNCHANGED pushes
    BY DEF Enable, subscribeTopic, unsubscribeTopic, TopicChanges
  <2>2. QED
    BY <2>1 DEF PushesKept
<1>4. BackKept'
  <2>1. wanted' \in SUBSET Lishnet
    BY DEF BackKept, Enable, subscribeTopic, unsubscribeTopic, TopicChanges
  <2>2. checks' \in [soon : BOOLEAN, later : BOOLEAN]
    BY ChecksKept DEF BackKept, Enable, subscribeTopic, unsubscribeTopic, TopicChanges, schedulePeerCountCheck
  <2>3. UNCHANGED <<lastCounts, dialled>>
    BY DEF Enable, subscribeTopic, unsubscribeTopic, TopicChanges
  <2>4. QED
    BY <2>1, <2>2, <2>3 DEF BackKept
<1>5. NodeKept'
  <2>1. CASE Enable(n)
    BY <2>1 DEF Enable, NodeKept
  <2>2. CASE subscribeTopic(n)
    <3>1. node' = [node EXCEPT !.topics = node.topics \cup {n}]
      BY <2>2 DEF subscribeTopic
    <3>2. node' = [up |-> node.up, topics |-> node.topics \cup {n}, of |-> node.of]
      BY <3>1, NodeFields
    <3>3. QED
      BY <3>2, NodeFields DEF NodeKept
  <2>3. CASE unsubscribeTopic(n)
    <3>1. PICK since \in {node.of[n].since, IF node.of[n].mesh = 0 THEN node.of[n].since ELSE Recent} :
               node' = [node EXCEPT !.topics = node.topics \ {n}, !.of[n] = [NoMesh EXCEPT !.since = since]]
      BY <2>3 DEF unsubscribeTopic
    <3>2. since \in {Never, Recent, Long}
      <4>1. node.of[n] \in GoodTopics
        BY NodeFields
      <4>2. node.of[n].since \in {Never, Recent, Long}
        BY <4>1, GoodIs
      <4>3. QED
        BY <3>1, <4>2
    <3>3. [NoMesh EXCEPT !.since = since] \in GoodTopics /\ node.topics \ {n} \in SUBSET Lishnet
      BY <3>2, NoMeshIsGood, NodeFields
    <3>4. QED
      BY <3>1, <3>3, NodeGets
  <2>4. CASE TopicChanges(n)
    <3>0. PICK peers \in 0 .. MaxPeers, score \in {"negative", "positive"} :
            \E mesh \in 0 .. peers :
               node' = [node EXCEPT !.of[n] =
                            [peers |-> peers, mesh |-> mesh,
                             since |-> IF mesh = node.of[n].mesh THEN node.of[n].since ELSE Recent,
                             score |-> IF mesh = 0 THEN NoScore ELSE score]]
      BY <2>4 DEF TopicChanges
    <3>1. PICK mesh \in 0 .. peers :
               node' = [node EXCEPT !.of[n] =
                            [peers |-> peers, mesh |-> mesh,
                             since |-> IF mesh = node.of[n].mesh THEN node.of[n].since ELSE Recent,
                             score |-> IF mesh = 0 THEN NoScore ELSE score]]
      BY <3>0
    <3> DEFINE since == IF mesh = node.of[n].mesh THEN node.of[n].since ELSE Recent
               scored == IF mesh = 0 THEN NoScore ELSE score
               topic == [peers |-> peers, mesh |-> mesh, since |-> since, score |-> scored]
    <3>2. since \in {Never, Recent, Long}
      <4>1. node.of[n] \in GoodTopics
        BY NodeFields
      <4>2. node.of[n].since \in {Never, Recent, Long}
        BY <4>1, GoodIs
      <4>3. QED
        BY <4>2
    <3>3. scored \in {NoScore, "negative", "positive"} /\ (mesh = 0 => scored = NoScore)
      OBVIOUS
    <3>4. mesh \in 0 .. MaxPeers /\ mesh <= peers
      BY WatchAssumption
    <3>5. topic \in GoodTopics
      <4> HIDE DEF since, scored
      <4>1. QED
        BY <3>2, <3>3, <3>4, IsGood
    <3> HIDE DEF topic
    <3>6. node' = [node EXCEPT !.of = [node.of EXCEPT ![n] = topic]]
      BY <3>1, NodeFields DEF topic
    <3>7. [node.of EXCEPT ![n] = topic] \in [Lishnet -> GoodTopics]
      BY <3>5, NodeFields
    <3>8. QED
      BY <3>6, <3>7, NodeOf
  <2>5. QED
    BY <2>1, <2>2, <2>3, <2>4
<1>6. QED
  BY <1>1, <1>2, <1>3, <1>4, <1>5

LEMMA FewerIsGood ==
  ASSUME NEW t \in GoodTopics
  PROVE  Changed(t) \in GoodTopics /\ (t.peers > 0 => Changed(Fewer(t)) \in GoodTopics)
<1>1. /\ t.peers \in 0 .. MaxPeers /\ t.mesh \in 0 .. MaxPeers /\ t.since \in {Never, Recent, Long}
      /\ t.score \in {NoScore, "negative", "positive"}
      /\ t.mesh <= t.peers /\ (t.mesh = 0 => t.score = NoScore)
  BY GoodIs
<1>2. t = [peers |-> t.peers, mesh |-> t.mesh, since |-> t.since, score |-> t.score]
  BY GoodIs
<1>3. Changed(t) = [peers |-> t.peers, mesh |-> t.mesh, since |-> Recent, score |-> t.score]
  BY <1>2 DEF Changed
<1>4. [peers |-> t.peers, mesh |-> t.mesh, since |-> Recent, score |-> t.score] \in GoodTopics
  BY <1>1, IsGood
<1>5. ASSUME t.peers > 0 PROVE Changed(Fewer(t)) \in GoodTopics
  <2> DEFINE mesh == IF t.mesh > 0 THEN t.mesh - 1 ELSE 0
             score == IF mesh = 0 THEN NoScore ELSE t.score
  <2>1. Changed(Fewer(t)) = [peers |-> t.peers - 1, mesh |-> mesh, since |-> Recent, score |-> score]
    <3>1. Fewer(t) = [t EXCEPT !.peers = t.peers - 1, !.mesh = mesh, !.score = score]
      BY DEF Fewer
    <3> HIDE DEF mesh, score
    <3>2. Fewer(t) = [peers |-> t.peers - 1, mesh |-> mesh, since |-> t.since, score |-> score]
      BY <1>2, <3>1
    <3>3. QED
      BY <3>2 DEF Changed
  <2>2. t.peers - 1 \in 0 .. MaxPeers /\ mesh \in 0 .. MaxPeers /\ mesh <= t.peers - 1
    BY <1>1, <1>5, WatchAssumption
  <2>3. score \in {NoScore, "negative", "positive"} /\ (mesh = 0 => score = NoScore)
    BY <1>1
  <2> HIDE DEF mesh, score
  <2>4. QED
    BY <2>1, <2>2, <2>3, IsGood
<1>6. QED
  BY <1>3, <1>4, <1>5

LEMMA DisconnectsKeep ==
  ASSUME WatchInv, Disconnects
  PROVE  WatchInv'
<1> USE DEF WatchInv
<1>1. CallsKept' /\ PageKept' /\ SeenKept' /\ PromisesKept'
  BY PageStays DEF Disconnects, watcherVars, PageStill, LineStill
<1>2. LineKept' /\ PushesKept'
  BY HappenedKept DEF Disconnects, LineKept, PushesKept
<1>3. BackKept'
  <2>1. checks' \in [soon : BOOLEAN, later : BOOLEAN]
    BY ChecksKept DEF Disconnects, schedulePeerCountCheck
  <2>2. QED
    BY <2>1 DEF Disconnects, BackKept
<1>4. NodeKept'
  <2>1. PICK left \in SUBSET {n \in node.topics : node.of[n].peers > 0} :
           node' = [node EXCEPT !.of = [n \in Lishnet |->
                        IF n \in left THEN Changed(Fewer(node.of[n]))
                        ELSE IF n \in node.topics THEN Changed(node.of[n]) ELSE node.of[n]]]
    BY DEF Disconnects
  <2> DEFINE of == [n \in Lishnet |-> IF n \in left THEN Changed(Fewer(node.of[n]))
                                      ELSE IF n \in node.topics THEN Changed(node.of[n]) ELSE node.of[n]]
  <2>2. \A n \in Lishnet : node.of[n] \in GoodTopics
    BY NodeFields
  <2>3. of \in [Lishnet -> GoodTopics]
    BY <2>2, FewerIsGood
  <2>4. node' = [node EXCEPT !.of = of]
    BY <2>1
  <2> HIDE DEF of
  <2>5. QED
    BY <2>3, <2>4, NodeOf
<1>5. QED
  BY <1>1, <1>2, <1>3, <1>4

-----------------------------------------------------------------------------
(* What the backend pushes and answers *)

LEMMA PushesGrow ==
  ASSUME PushesKept, PushRoom, NEW p \in PushType, pushes' = Append(pushes, p) \/ pushes' = pushes
  PROVE  PushesKept'
<1>1. Append(pushes, p) \in Seq(PushType) /\ Len(Append(pushes, p)) = Len(pushes) + 1 /\ Len(pushes) \in Nat
  BY DEF PushesKept
<1>2. CASE pushes' = Append(pushes, p)
  BY <1>1, <1>2, WatchAssumption DEF PushesKept, PushRoom
<1>3. CASE pushes' = pushes
  BY <1>3 DEF PushesKept
<1>4. QED
  BY <1>2, <1>3

LEMMA CountedIsGood ==
  ASSUME NodeKept, NEW s \in SUBSET Lishnet
  PROVE  [n \in s |-> node.of[n]] \in GoodCounts
<1>1. [n \in s |-> node.of[n]] \in [s -> GoodTopics]
  BY NodeFields
<1>2. QED
  BY <1>1, AreCounts

LEMMA ChecksRun ==
  ASSUME WatchInv, DelayedCheck \/ checkPeerCounts
  PROVE  WatchInv'
<1> USE DEF WatchInv
<1>1. CallsKept' /\ PageKept' /\ SeenKept' /\ PromisesKept'
  BY PageStays DEF DelayedCheck, checkPeerCounts, watcherVars, PageStill, LineStill
<1>2. LineKept' /\ NodeKept'
  BY DEF DelayedCheck, checkPeerCounts, LineKept, NodeKept
<1>3. CASE DelayedCheck
  <2>1. BackKept'
    BY <1>3 DEF DelayedCheck, BackKept
  <2>2. PushesKept'
    BY <1>3 DEF DelayedCheck, PushesKept
  <2>3. QED
    BY <1>1, <1>2, <2>1, <2>2
<1>4. CASE checkPeerCounts
  <2>1. BackKept'
    <3>1. checks' \in [soon : BOOLEAN, later : BOOLEAN] /\ UNCHANGED <<wanted, dialled>>
      BY <1>4, ChecksKept DEF checkPeerCounts
    <3>2. DOMAIN CountedNow \in SUBSET Lishnet
      BY NodeFields DEF CountedNow
    <3>3. DOMAIN lastCounts' \in SUBSET Lishnet
      BY <1>4, <3>2 DEF checkPeerCounts, BackKept
    <3>4. QED
      BY <3>1, <3>3 DEF BackKept
  <2>2. PushesKept'
    <3>1. Push("peers:count", getMeshHealth) \in PushType
      BY CountedIsGood, NodeFields, ArePushes DEF getMeshHealth
    <3>2. pushes' = Append(pushes, Push("peers:count", getMeshHealth)) \/ pushes' = pushes
      BY <1>4 DEF checkPeerCounts, Emitted
    <3>3. QED
      BY <1>4, <3>1, <3>2, PushesGrow DEF checkPeerCounts
  <2>3. QED
    BY <1>1, <1>2, <2>1, <2>2
<1>5. QED
  BY <1>3, <1>4

LEMMA NodeKeeps ==
  ASSUME WatchInv, NodeStops \/ NodeStarts
  PROVE  WatchInv'
<1> USE DEF WatchInv
<1>1. CallsKept' /\ PageKept' /\ SeenKept' /\ PromisesKept'
  BY PageStays DEF NodeStops, NodeStarts, watcherVars, PageStill, LineStill
<1>2. LineKept' /\ PushesKept'
  BY HappenedKept DEF NodeStops, NodeStarts, LineKept, PushesKept
<1>3. CASE NodeStops
  <2>1. NodeKept'
    BY <1>3, NoMeshIsGood DEF NodeStops, NodeKept
  <2>2. DOMAIN lastCounts' \in SUBSET Lishnet
    <3>1. lastCounts' = <<>>
      BY <1>3 DEF NodeStops
    <3>2. QED
      BY <3>1
  <2>3. BackKept'
    BY <1>3, <2>2 DEF NodeStops, BackKept
  <2>4. QED
    BY <1>1, <1>2, <2>1, <2>3
<1>4. CASE NodeStarts
  <2>1. node' = [up |-> TRUE, topics |-> node.topics, of |-> node.of]
    BY <1>4, NodeFields DEF NodeStarts
  <2>2. NodeKept'
    BY <2>1, NodeFields DEF NodeKept
  <2>3. BackKept'
    BY <1>4 DEF NodeStarts, BackKept
  <2>4. QED
    BY <1>1, <1>2, <2>2, <2>3
<1>5. QED
  BY <1>3, <1>4

LEMMA DialledKeeps ==
  ASSUME WatchInv, NEW n \in Lishnet, Dialled(n)
  PROVE  WatchInv'
<1> USE DEF WatchInv
<1>1. CallsKept' /\ PageKept' /\ SeenKept' /\ PromisesKept'
  BY PageStays DEF Dialled, watcherVars, PageStill, LineStill
<1>2. LineKept' /\ NodeKept'
  BY HappenedKept DEF Dialled, LineKept, NodeKept
<1>3. dialled' \in [Lishnet -> {"pending", "failed"}] /\ dialled'[n] \in {"pending", "failed"}
  BY DEF Dialled, BackKept
<1>4. BackKept'
  BY <1>3 DEF Dialled, BackKept
<1>5. PushesKept'
  <2> DEFINE p == Push("lishnets:bootstrapStatus", [n |-> n, status |-> dialled'[n]])
  <2>1. p \in PushType
    BY <1>3, ArePushes
  <2>2. pushes' = Append(pushes, p) \/ pushes' = pushes
    BY DEF Dialled, Emitted
  <2> HIDE DEF p
  <2>3. QED
    BY <2>1, <2>2, PushesGrow DEF Dialled
<1>6. QED
  BY <1>1, <1>2, <1>4, <1>5

\* The first call, and what is left.
LEMMA CallTaken ==
  ASSUME CallsKept, calls # <<>>, calls' = Tail(calls)
  PROVE  CallsKept' /\ Head(calls) \in CallType /\ Head(calls) = calls[1]
<1>1. calls \in Seq(CallType) /\ Len(calls) <= MaxCalls /\ calls # <<>>
  BY DEF CallsKept
<1>2. Tail(calls) \in Seq(CallType) /\ Len(Tail(calls)) = Len(calls) - 1 /\ Len(calls) \in Nat
      /\ Head(calls) \in CallType /\ Head(calls) = calls[1]
  BY <1>1
<1>3. QED
  BY <1>1, <1>2 DEF CallsKept, MaxCalls

LEMMA ExecuteKeeps ==
  ASSUME WatchInv, Execute
  PROVE  WatchInv'
<1> USE DEF WatchInv
<1> DEFINE first == Head(calls)
<1>1. CallsKept' /\ first \in CallType /\ first = calls[1]
  BY CallTaken DEF Execute
<1>2. /\ UNCHANGED <<node, wanted, lastCounts, checks, dialled>> /\ UNCHANGED <<watchers, listeners, rejoins, seen>>
      /\ UNCHANGED <<online, watchEvents>> /\ PushRoom /\ calls # <<>> /\ calls' = Tail(calls) /\ online
  BY DEF Execute, backendVars, watcherVars
<1>3. \/ first.method = "subscribe" /\ AddsEvent(first.event)
      \/ first.method = "unsubscribe" /\ Unsubscribe(first.event)
      \/ first.method = "snapshot" /\ Snapshot(first.event)
  BY DEF Execute
<1> HIDE DEF first
<1>4. NodeKept' /\ BackKept' /\ PageKept' /\ SeenKept'
  BY <1>2 DEF NodeKept, BackKept, PageKept, SeenKept
<1>5. heardEvents' \in SUBSET Watched
  <2>1. first.method = "subscribe" => first.event \in Watched
    BY <1>1, CallsAre
  <2>2. heardEvents \in SUBSET Watched
    BY DEF LineKept
  <2>3. QED
    BY <1>3, <2>1, <2>2 DEF AddsEvent, Unsubscribe, Snapshot
<1>6. LineKept'
  BY <1>2, <1>5 DEF LineKept
<1>7. PushesKept'
  <2>1. CASE first.method = "subscribe" /\ AddsEvent(first.event)
    <3>1. Push("peers:count", getCurrentPeerCounts) \in PushType
      BY CountedIsGood, ArePushes DEF getCurrentPeerCounts, BackKept
    <3>2. pushes' = Append(pushes, Push("peers:count", getCurrentPeerCounts)) \/ pushes' = pushes
      BY <2>1 DEF AddsEvent
    <3>3. QED
      BY <1>2, <3>1, <3>2, PushesGrow
  <2>2. CASE first.method = "unsubscribe" /\ Unsubscribe(first.event)
    <3>1. Push("unsubscribed", first.event) \in PushType
      BY <1>1, <2>2, CallsAre, ArePushes
    <3>2. pushes' = Append(pushes, Push("unsubscribed", first.event))
      BY <2>2 DEF Unsubscribe
    <3>3. QED
      BY <1>2, <3>1, <3>2, PushesGrow
  <2>3. CASE first.method = "snapshot" /\ Snapshot(first.event)
    <3>1. Push(first.event, dialled) \in PushType
      BY <1>1, <2>3, CallsAre, ArePushes DEF BackKept
    <3>2. pushes' = Append(pushes, Push(first.event, dialled))
      BY <2>3 DEF Snapshot
    <3>3. QED
      BY <1>2, <3>1, <3>2, PushesGrow
  <2>4. QED
    BY <1>3, <2>1, <2>2, <2>3
<1>8. PromisesKept'
  <2> SUFFICES ASSUME NEW e \in rejoins, listeners[e] > 0
               PROVE  Promised(calls', heardEvents', e)
    BY <1>2 DEF PromisesKept
  <2>1. Promised(calls, heardEvents, e)
    BY <1>2 DEF PromisesKept
  <2>2. e \in heardEvents /\ (calls[1].event # e \/ calls[1].method # "unsubscribe") => e \in heardEvents'
    BY <1>1, <1>3 DEF AddsEvent, Unsubscribe, Snapshot
  <2>3. calls[1].event = e /\ calls[1].method = "subscribe" => e \in heardEvents'
    BY <1>1, <1>3 DEF AddsEvent
  <2>4. calls \in Seq(CallType)
    BY DEF CallsKept
  <2>5. QED
    BY <1>2, <2>1, <2>2, <2>3, <2>4, PromiseIsKept
<1>9. QED
  BY <1>1, <1>4, <1>6, <1>7, <1>8

-----------------------------------------------------------------------------
(* What the frontend asks and is sent *)

LEMMA AsksMany ==
  ASSUME CallsKept, NEW list \in Seq(CallType), Asks(list)
  PROVE  /\ CallsKept'
         /\ \A heard, e : \/ LastSubscribes(list, e)
                          \/ NoneAbout(list, e) /\ Promised(calls, heard, e)
                          => Promised(calls', heard, e)
<1>1. calls \in Seq(CallType) /\ calls' = calls \o list
      /\ Len(calls) + Len(list) <= MaxCalls
  BY DEF CallsKept, Asks
<1>2. calls' \in Seq(CallType) /\ Len(calls') = Len(calls) + Len(list)
  BY <1>1
<1>3. ASSUME NEW heard, NEW e, LastSubscribes(list, e) \/ (NoneAbout(list, e) /\ Promised(calls, heard, e))
      PROVE  Promised(calls', heard, e)
  BY <1>1, <1>3, PromiseStays
<1>4. QED
  BY <1>1, <1>2, <1>3 DEF CallsKept

LEMMA AsksOne ==
  ASSUME CallsKept, NEW c \in CallType, Asks(<<c>>)
  PROVE  /\ CallsKept'
         /\ \A heard, e : \/ c.method = "subscribe" /\ c.event = e
                          \/ c.event # e /\ Promised(calls, heard, e)
                          => Promised(calls', heard, e)
<1> DEFINE list == <<c>>
<1>1. list \in Seq(CallType) /\ Asks(list)
  OBVIOUS
<1>2. \A e : (c.event # e => NoneAbout(list, e)) /\ (c.method = "subscribe" /\ c.event = e => LastSubscribes(list, e))
  BY OneIsAbout
<1> HIDE DEF list
<1>3. QED
  BY <1>1, <1>2, AsksMany

LEMMA AskIs ==
  ASSUME NEW m, NEW e
  PROVE  Ask(m, e).method = m /\ Ask(m, e).event = e
BY DEF Ask

LEMMA BackendStill ==
  ASSUME WatchInv, UNCHANGED backendVars
  PROVE  NodeKept' /\ BackKept'
BY DEF WatchInv, backendVars, NodeKept, BackKept

LEMMA SubscribesKeep ==
  ASSUME WatchInv, subscribePeerCounts \/ subscribeBootstrapStatuses
  PROVE  WatchInv'
<1> USE DEF WatchInv
<1>1. NodeKept' /\ BackKept'
  BY BackendStill DEF subscribePeerCounts, subscribeBootstrapStatuses
<1>2. LineKept' /\ PushesKept' /\ SeenKept'
  BY HappenedKept DEF subscribePeerCounts, subscribeBootstrapStatuses, LineKept, PushesKept, SeenKept
<1>3. watchers' \in [Watched -> 0 .. 2]
  <2>1. \E event \in Watched : watchers[event] < 2 /\ watchers' = [watchers EXCEPT ![event] = watchers[event] + 1]
    BY DEF subscribePeerCounts, subscribeBootstrapStatuses, Watched
  <2>2. watchers \in [Watched -> 0 .. 2]
    BY DEF PageKept
  <2>3. QED
    BY <2>1, <2>2
<1>4. CASE UNCHANGED <<listeners, rejoins, calls>> /\ UNCHANGED <<online, heardEvents>>
  BY <1>1, <1>2, <1>3, <1>4 DEF PageKept, CallsKept, PromisesKept
<1>5. CASE subscribePeerCounts /\ listeners["peers:count"] = 0
  <2> DEFINE event == "peers:count"
             c == Ask("subscribe", event)
  <2>1. /\ listeners' = [listeners EXCEPT ![event] = 1] /\ rejoins' = rejoins \cup {event}
        /\ Asks(<<c>>) /\ UNCHANGED <<online, heardEvents>>
    BY <1>5 DEF subscribePeerCounts
  <2>2. event \in Watched /\ c \in CallType /\ c.method = "subscribe" /\ c.event = event
    BY AreCalls, AskIs DEF Watched
  <2> HIDE DEF c
  <2>3. CallsKept' /\ \A heard, e : \/ e = event
                                    \/ e # event /\ Promised(calls, heard, e)
                                    => Promised(calls', heard, e)
    BY <2>1, <2>2, AsksOne
  <2>4. PageKept'
    BY <1>3, <2>1, <2>2 DEF PageKept
  <2>5. PromisesKept'
    <3> SUFFICES ASSUME online, NEW e \in rejoins \cup {event}, listeners'[e] > 0
                 PROVE  Promised(calls', heardEvents, e)
      BY <2>1 DEF PromisesKept
    <3>1. CASE e = event
      BY <2>3, <3>1
    <3>2. CASE e # event
      <4>1. listeners'[e] = listeners[e] /\ e \in rejoins
        BY <2>1, <3>2 DEF PageKept
      <4>2. QED
        BY <2>3, <3>2, <4>1 DEF PromisesKept
    <3>3. QED
      BY <3>1, <3>2
  <2>6. QED
    BY <1>1, <1>2, <2>3, <2>4, <2>5
<1>6. CASE subscribeBootstrapStatuses /\ Asks(<<Ask("snapshot", "first snapshot")>>)
  <2> DEFINE c == Ask("snapshot", "first snapshot")
  <2>1. UNCHANGED <<listeners, rejoins, online, heardEvents>> /\ Asks(<<c>>)
    BY <1>6 DEF subscribeBootstrapStatuses
  <2>2. c \in CallType /\ c.event = "first snapshot"
    BY AreCalls, AskIs
  <2> HIDE DEF c
  <2>3. CallsKept' /\ \A heard, e : "first snapshot" # e /\ Promised(calls, heard, e) => Promised(calls', heard, e)
    BY <2>1, <2>2, AsksOne
  <2>4. \A e \in rejoins : e # "first snapshot"
    BY DEF PageKept, Watched
  <2>5. PromisesKept' /\ PageKept'
    BY <1>3, <2>1, <2>3, <2>4 DEF PromisesKept, PageKept
  <2>6. QED
    BY <1>1, <1>2, <2>3, <2>5
<1>7. listeners["peers:count"] \in 0 .. 2
  BY DEF PageKept, Watched
<1>8. CASE subscribePeerCounts
  <2>1. CASE listeners["peers:count"] > 0
    BY <1>4, <1>8, <2>1 DEF subscribePeerCounts
  <2>2. CASE listeners["peers:count"] = 0
    BY <1>5, <1>8, <2>2
  <2>3. QED
    BY <1>7, <2>1, <2>2
<1>9. CASE subscribeBootstrapStatuses
  BY <1>4, <1>6, <1>9 DEF subscribeBootstrapStatuses
<1>10. QED
  BY <1>8, <1>9

LEMMA UnsubscribeKeeps ==
  ASSUME WatchInv, NEW event \in Watched, unsubscribe(event)
  PROVE  WatchInv'
<1> USE DEF WatchInv
<1>1. NodeKept' /\ BackKept'
  BY BackendStill DEF unsubscribe
<1>2. LineKept' /\ PushesKept' /\ SeenKept'
  BY HappenedKept DEF unsubscribe, LineKept, PushesKept, SeenKept
<1>3. watchers' \in [Watched -> 0 .. 2]
  BY DEF unsubscribe, PageKept
<1>4. UNCHANGED <<online, heardEvents, listeners>>
  BY DEF unsubscribe
<1>5. \/ UNCHANGED <<rejoins, calls>>
      \/ rejoins' = rejoins \ {event} /\ UNCHANGED calls
      \/ rejoins' = rejoins \ {event} /\ Asks(<<Ask("unsubscribe", event)>>)
  BY DEF unsubscribe
<1>6. PageKept'
  BY <1>3, <1>4, <1>5 DEF PageKept
<1>7. CASE rejoins' \in SUBSET rejoins /\ UNCHANGED calls
  BY <1>1, <1>2, <1>4, <1>6, <1>7 DEF CallsKept, PromisesKept
<1>8. CASE rejoins' = rejoins \ {event} /\ Asks(<<Ask("unsubscribe", event)>>)
  <2> DEFINE c == Ask("unsubscribe", event)
  <2>1. c \in CallType /\ c.event = event
    BY AreCalls, AskIs
  <2>2. Asks(<<c>>)
    BY <1>8
  <2> HIDE DEF c
  <2>3. CallsKept' /\ \A heard, e : event # e /\ Promised(calls, heard, e) => Promised(calls', heard, e)
    BY <2>1, <2>2, AsksOne
  <2>4. PromisesKept'
    BY <1>4, <1>8, <2>3 DEF PromisesKept
  <2>5. QED
    BY <1>1, <1>2, <1>6, <2>3, <2>4
<1>9. QED
  BY <1>5, <1>7, <1>8

-----------------------------------------------------------------------------
(* What arrives, is lost and grows old *)

LEMMA NoCounts == <<>> \in GoodCounts
<1>1. <<>> \in [{} -> GoodTopics]
  OBVIOUS
<1>2. QED
  BY <1>1, AreCounts

LEMMA SeenGets ==
  ASSUME SeenKept, NEW c \in GoodCounts, NEW b
  PROVE  /\ seen' = [seen EXCEPT !.counts = c] => SeenKept'
         /\ seen' = [seen EXCEPT !.boot = b] => SeenKept'
<1>1. seen = [counts |-> seen.counts, boot |-> seen.boot] /\ seen.counts \in GoodCounts
  BY DEF SeenKept
<1>2. ASSUME seen' = [seen EXCEPT !.counts = c] PROVE SeenKept'
  <2>1. seen' = [counts |-> c, boot |-> seen.boot]
    BY <1>1, <1>2
  <2>2. QED
    BY <2>1 DEF SeenKept
<1>3. ASSUME seen' = [seen EXCEPT !.boot = b] PROVE SeenKept'
  <2>1. seen' = [counts |-> seen.counts, boot |-> b]
    BY <1>1, <1>3
  <2>2. QED
    BY <1>1, <2>1 DEF SeenKept
<1>4. QED
  BY <1>2, <1>3

LEMMA PushTaken ==
  ASSUME PushesKept, pushes # <<>>, pushes' = Tail(pushes)
  PROVE  PushesKept' /\ Head(pushes) \in PushType
<1>1. pushes \in Seq(PushType) /\ Len(pushes) <= MaxPushes + 2 /\ pushes # <<>>
  BY DEF PushesKept
<1>2. Tail(pushes) \in Seq(PushType) /\ Len(Tail(pushes)) = Len(pushes) - 1 /\ Len(pushes) \in Nat
      /\ Head(pushes) \in PushType
  BY <1>1
<1>3. QED
  BY <1>1, <1>2, WatchAssumption DEF PushesKept

\* Who listens less and asks nothing is promised no more.
LEMMA PromiseHolds ==
  ASSUME PromisesKept, UNCHANGED <<online, heardEvents, calls, rejoins>>,
         \A e \in rejoins : listeners'[e] > 0 => listeners[e] > 0
  PROVE  PromisesKept'
BY DEF PromisesKept

LEMMA UnwatchedKeeps ==
  ASSUME PageKept, PromisesKept, SeenKept, CallsKept, UNCHANGED <<online, heardEvents, watchers>>,
         NEW event \in Watched, Unwatched(event)
  PROVE  PageKept' /\ PromisesKept' /\ SeenKept' /\ CallsKept'
<1>1. listeners' = [listeners EXCEPT ![event] = IF listeners[event] > 0 THEN listeners[event] - 1 ELSE 0]
      /\ UNCHANGED <<rejoins, calls>>
  BY DEF Unwatched
<1>2. \A e \in Watched : listeners[e] \in 0 .. 2
  BY DEF PageKept
<1>3. listeners' \in [Watched -> 0 .. 2]
  <2>1. (IF listeners[event] > 0 THEN listeners[event] - 1 ELSE 0) \in 0 .. 2
    BY <1>2
  <2>2. QED
    BY <1>1, <2>1 DEF PageKept
<1>4. PageKept'
  BY <1>1, <1>3 DEF PageKept
<1>5. PromisesKept'
  <2>1. ASSUME NEW e \in rejoins, listeners'[e] > 0 PROVE listeners[e] > 0
    <3>1. e \in Watched
      BY DEF PageKept
    <3>2. CASE e = event
      BY <1>1, <1>2, <2>1, <3>1, <3>2 DEF PageKept
    <3>3. CASE e # event
      BY <1>1, <2>1, <3>1, <3>3 DEF PageKept
    <3>4. QED
      BY <3>2, <3>3
  <2>2. QED
    BY <1>1, <2>1, PromiseHolds
<1>6. SeenKept'
  BY NoCounts, SeenGets DEF Unwatched
<1>7. QED
  BY <1>1, <1>4, <1>5, <1>6 DEF CallsKept

LEMMA ListensKeeps ==
  ASSUME PageKept, PromisesKept, CallsKept, UNCHANGED <<online, heardEvents, watchers>>, Listens
  PROVE  PageKept' /\ PromisesKept' /\ CallsKept'
<1> DEFINE event == "lishnets:bootstrapStatus"
           c == Ask("subscribe", event)
<1>1. /\ listeners' = [listeners EXCEPT ![event] = IF listeners[event] < 2 THEN listeners[event] + 1 ELSE listeners[event]]
      /\ rejoins' = rejoins \cup {event} /\ Asks(<<c>>)
  BY DEF Listens
<1>2. event \in Watched /\ c \in CallType /\ c.method = "subscribe" /\ c.event = event
  BY AreCalls, AskIs DEF Watched
<1> HIDE DEF c, event
<1>3. CallsKept' /\ \A heard, e : \/ e = event
                                  \/ e # event /\ Promised(calls, heard, e)
                                  => Promised(calls', heard, e)
  BY <1>1, <1>2, AsksOne
<1>4. listeners' \in [Watched -> 0 .. 2]
  <2>1. listeners[event] \in 0 .. 2
    BY <1>2 DEF PageKept
  <2>2. (IF listeners[event] < 2 THEN listeners[event] + 1 ELSE listeners[event]) \in 0 .. 2
    BY <2>1
  <2>3. QED
    BY <1>1, <2>2 DEF PageKept
<1>5. PageKept'
  BY <1>1, <1>2, <1>4 DEF PageKept
<1>6. PromisesKept'
  <2> SUFFICES ASSUME online, NEW e \in rejoins \cup {event}, listeners'[e] > 0
               PROVE  Promised(calls', heardEvents, e)
    BY <1>1 DEF PromisesKept
  <2>1. CASE e = event
    BY <1>3, <2>1
  <2>2. CASE e # event
    <3>1. listeners'[e] = listeners[e] /\ e \in rejoins
      BY <1>1, <2>2 DEF PageKept
    <3>2. QED
      BY <1>3, <2>2, <3>1 DEF PromisesKept
  <2>3. QED
    BY <2>1, <2>2
<1>7. QED
  BY <1>3, <1>5, <1>6

LEMMA ArrivesKeeps ==
  ASSUME WatchInv, Arrives
  PROVE  WatchInv'
<1> USE DEF WatchInv
<1> DEFINE push == Head(pushes)
<1>1. PushesKept' /\ push \in PushType
  BY PushTaken DEF Arrives
<1>2. UNCHANGED <<online, heardEvents, watchers, watchEvents>>
  BY DEF Arrives
<1>3. NodeKept' /\ BackKept' /\ LineKept'
  BY <1>2, BackendStill DEF Arrives, LineKept
<1>4. \/ push.event = "peers:count" /\ CountsArrive(push.data)
      \/ push.event = "lishnets:bootstrapStatus" /\ StatusArrives(push.data)
      \/ push.event = "unsubscribed" /\ Unwatched(push.data)
      \/ push.event = "first snapshot" /\ Listens /\ seen' = [seen EXCEPT !.boot = push.data]
      \/ seen' = [seen EXCEPT !.boot = push.data] /\ UNCHANGED <<listeners, rejoins, calls>>
  BY DEF Arrives
<1> HIDE DEF push
<1>5. CASE UNCHANGED <<listeners, rejoins, calls>> /\ SeenKept'
  BY <1>1, <1>2, <1>3, <1>5 DEF PageKept, CallsKept, PromisesKept
<1>6. CASE push.event = "peers:count" /\ CountsArrive(push.data)
  <2>1. push.data \in GoodCounts
    BY <1>1, <1>6, PushesAre
  <2>2. SeenKept'
    <3>1. CASE seen' = [seen EXCEPT !.counts = push.data]
      BY <2>1, <3>1, SeenGets
    <3>2. CASE seen' = seen
      BY <3>2 DEF SeenKept
    <3>3. QED
      BY <1>6, <3>1, <3>2 DEF CountsArrive
  <2>3. QED
    BY <1>5, <1>6, <2>2 DEF CountsArrive
<1>7. CASE push.event = "lishnets:bootstrapStatus" /\ StatusArrives(push.data)
  <2>1. SeenKept'
    <3>1. CASE \E b : seen' = [seen EXCEPT !.boot = b]
      BY <3>1, NoCounts, SeenGets
    <3>2. CASE seen' = seen
      BY <3>2 DEF SeenKept
    <3>3. QED
      BY <1>7, <3>1, <3>2, Zenon DEF StatusArrives
  <2>2. QED
    BY <1>5, <1>7, <2>1 DEF StatusArrives
<1>8. CASE push.event = "unsubscribed" /\ Unwatched(push.data)
  <2>1. push.data \in Watched
    BY <1>1, <1>8, PushesAre
  <2>2. QED
    BY <1>1, <1>2, <1>3, <1>8, <2>1, UnwatchedKeeps
<1>9. CASE Listens /\ seen' = [seen EXCEPT !.boot = push.data]
  BY <1>1, <1>2, <1>3, <1>9, ListensKeeps, NoCounts, SeenGets
<1>10. CASE seen' = [seen EXCEPT !.boot = push.data] /\ UNCHANGED <<listeners, rejoins, calls>>
  BY <1>5, <1>10, NoCounts, SeenGets
<1>11. QED
  BY <1>4, <1>6, <1>7, <1>8, <1>9, <1>10

LEMMA CountedIn ==
  ASSUME NEW s, Len(s) \in Nat, DOMAIN s = 1 .. Len(s), NEW what
  PROVE  Cardinality({i \in DOMAIN s : s[i].event = what}) \in Nat
<1>1. IsFiniteSet(1 .. Len(s))
  BY FS_Interval
<1>2. {i \in DOMAIN s : s[i].event = what} \in SUBSET (1 .. Len(s))
  OBVIOUS
<1>3. QED
  BY <1>1, <1>2, FS_Subset, FS_CardinalityType

LEMMA DropsKeeps ==
  ASSUME WatchInv, Drops
  PROVE  WatchInv'
<1> USE DEF WatchInv
<1> DEFINE event == "lishnets:bootstrapStatus"
           total == listeners[event] + Waiting
<1>1. NodeKept' /\ BackKept' /\ SeenKept'
  BY BackendStill DEF Drops, SeenKept
<1>2. /\ Happened /\ online' = FALSE /\ heardEvents' = {} /\ pushes' = <<>> /\ UNCHANGED watchers
      /\ listeners' = [listeners EXCEPT ![event] = IF total < 2 THEN total ELSE 2]
      /\ \/ calls' = <<Ask("subscribe", event)>> /\ rejoins' = rejoins \cup {event}
         \/ calls' = <<>> /\ UNCHANGED rejoins
  BY DEF Drops
<1>3. LineKept'
  <2>1. watchEvents' \in 0 .. MaxWatchEvents
    BY <1>2, HappenedKept
  <2>2. QED
    BY <1>2, <2>1 DEF LineKept
<1>4. PushesKept'
  BY <1>2, WatchAssumption DEF PushesKept
<1>5. event \in Watched /\ Ask("subscribe", event) \in CallType
  BY AreCalls DEF Watched
<1>6. CallsKept'
  <2>1. \A c \in CallType : <<c>> \in Seq(CallType) /\ Len(<<c>>) = 1
    OBVIOUS
  <2>2. <<>> \in Seq(CallType) /\ Len(<<>>) = 0
    OBVIOUS
  <2> DEFINE c == Ask("subscribe", event)
  <2>3. calls' = <<c>> \/ calls' = <<>>
    BY <1>2
  <2>4. c \in CallType
    BY <1>5
  <2> HIDE DEF c
  <2>5. calls' \in Seq(CallType) /\ (Len(calls') = 0 \/ Len(calls') = 1)
    BY <2>1, <2>2, <2>3, <2>4
  <2>6. Len(calls') <= MaxCalls
    <3>1. \A k : k = 0 \/ k = 1 => k <= MaxCalls
      BY DEF MaxCalls
    <3>2. QED
      BY <2>5, <3>1, Zenon
  <2>7. QED
    BY <2>5, <2>6, Zenon DEF CallsKept
<1>7. Waiting \in Nat
  <2>1. Len(calls) \in Nat /\ DOMAIN calls = 1 .. Len(calls)
    BY DEF CallsKept
  <2>2. Len(pushes) \in Nat /\ DOMAIN pushes = 1 .. Len(pushes)
    BY DEF PushesKept
  <2>3. Cardinality({i \in DOMAIN calls : calls[i].event = "first snapshot"}) \in Nat
    BY <2>1, CountedIn
  <2>4. Cardinality({i \in DOMAIN pushes : pushes[i].event = "first snapshot"}) \in Nat
    BY <2>2, CountedIn
  <2> DEFINE asked == Cardinality({i \in DOMAIN calls : calls[i].event = "first snapshot"})
             sent == Cardinality({i \in DOMAIN pushes : pushes[i].event = "first snapshot"})
  <2>5. Waiting = asked + sent
    BY DEF Waiting
  <2>6. asked \in Nat /\ sent \in Nat
    BY <2>3, <2>4
  <2> HIDE DEF asked, sent
  <2>7. QED
    BY <2>5, <2>6
<1>8. PageKept'
  <2>1. listeners[event] \in 0 .. 2
    BY <1>5 DEF PageKept
  <2>2. (IF total < 2 THEN total ELSE 2) \in 0 .. 2
    BY <1>7, <2>1
  <2> HIDE DEF total, event
  <2>3. listeners' \in [Watched -> 0 .. 2]
    BY <1>2, <2>2 DEF PageKept
  <2>4. QED
    BY <1>2, <1>5, <2>3 DEF PageKept
<1>9. PromisesKept'
  BY <1>2 DEF PromisesKept
<1>10. QED
  BY <1>1, <1>3, <1>4, <1>6, <1>8, <1>9

LEMMA ConnectsAgainKeeps ==
  ASSUME WatchInv, ConnectsAgain
  PROVE  WatchInv'
<1> USE DEF WatchInv
<1> DEFINE again == {e \in rejoins : listeners[e] > 0}
           list == SetToSeq(AgainCalls(again))
<1>1. NodeKept' /\ BackKept'
  BY BackendStill DEF ConnectsAgain
<1>2. PushesKept' /\ PageKept' /\ SeenKept'
  BY DEF ConnectsAgain, watcherVars, PushesKept, PageKept, SeenKept
<1>3. LineKept'
  BY DEF ConnectsAgain, LineKept
<1>4. again \in SUBSET Watched
  BY DEF PageKept
<1>5. Asks(list) /\ UNCHANGED <<heardEvents, listeners, rejoins>>
  BY DEF ConnectsAgain, AgainCalls, watcherVars
<1>6. list \in Seq(CallType) /\ \A e \in again : LastSubscribes(list, e)
  BY <1>4, AgainSubscribes
<1> HIDE DEF list
<1>7. CallsKept' /\ \A heard, e : LastSubscribes(list, e) => Promised(calls', heard, e)
  BY <1>5, <1>6, AsksMany
<1>8. PromisesKept'
  BY <1>5, <1>6, <1>7 DEF PromisesKept
<1>9. QED
  BY <1>1, <1>2, <1>3, <1>7, <1>8

LEMMA AgedIsGood ==
  ASSUME NEW s \in SUBSET Lishnet, NEW c \in [s -> GoodTopics]
  PROVE  Aged(c) \in [s -> GoodTopics]
<1>1. ASSUME NEW t \in GoodTopics PROVE [t EXCEPT !.since = IF t.since = Recent THEN Long ELSE t.since] \in GoodTopics
  <2> DEFINE since == IF t.since = Recent THEN Long ELSE t.since
  <2>1. /\ t.peers \in 0 .. MaxPeers /\ t.mesh \in 0 .. MaxPeers /\ since \in {Never, Recent, Long}
        /\ t.score \in {NoScore, "negative", "positive"}
        /\ t.mesh <= t.peers /\ (t.mesh = 0 => t.score = NoScore)
    BY GoodIs
  <2> HIDE DEF since
  <2>2. [t EXCEPT !.since = since] = [peers |-> t.peers, mesh |-> t.mesh, since |-> since, score |-> t.score]
    <3>1. t = [peers |-> t.peers, mesh |-> t.mesh, since |-> t.since, score |-> t.score]
      BY GoodIs
    <3>2. QED
      BY <3>1
  <2>3. [peers |-> t.peers, mesh |-> t.mesh, since |-> since, score |-> t.score] \in GoodTopics
    BY <2>1, IsGood
  <2>4. QED
    BY <2>2, <2>3 DEF since
<1>2. \A n \in s : c[n] \in GoodTopics
  OBVIOUS
<1>3. \A n \in s : [c[n] EXCEPT !.since = IF c[n].since = Recent THEN Long ELSE c[n].since] \in GoodTopics
  BY <1>1, <1>2
<1>4. DOMAIN c = s
  OBVIOUS
<1>5. Aged(c) = [n \in s |-> [c[n] EXCEPT !.since = IF c[n].since = Recent THEN Long ELSE c[n].since]]
  BY <1>4 DEF Aged
<1>6. QED
  BY <1>3, <1>5

LEMMA AgesKeeps ==
  ASSUME WatchInv, Ages
  PROVE  WatchInv'
<1> USE DEF WatchInv
<1>1. NodeKept'
  <2>1. Aged(node.of) \in [Lishnet -> GoodTopics]
    BY AgedIsGood, NodeFields
  <2>2. node' = [node EXCEPT !.of = Aged(node.of)]
    BY DEF Ages
  <2>3. QED
    BY <2>1, <2>2, NodeOf
<1>2. SeenKept'
  <2>1. seen.counts \in GoodCounts
    BY DEF SeenKept
  <2>2. Aged(seen.counts) \in GoodCounts
    BY <2>1, CountsAre, AgedIsGood, AreCounts
  <2>3. seen' = [seen EXCEPT !.counts = Aged(seen.counts)]
    BY DEF Ages
  <2>4. QED
    BY <2>2, <2>3, SeenGets
<1>3. BackKept' /\ LineKept' /\ PushesKept' /\ CallsKept' /\ PageKept' /\ PromisesKept'
  BY DEF Ages, BackKept, LineKept, PushesKept, CallsKept, PageKept, PromisesKept
<1>4. QED
  BY <1>1, <1>2, <1>3

-----------------------------------------------------------------------------
LEMMA WatchInitHolds == WatchInit => WatchInv
<1> SUFFICES ASSUME WatchInit PROVE WatchInv
  OBVIOUS
<1>1. NodeKept
  BY NoMeshIsGood DEF WatchInit, NodeKept
<1>2. BackKept
  <2>1. lastCounts = <<>> /\ DOMAIN <<>> = {}
    BY DEF WatchInit
  <2>2. DOMAIN lastCounts \in SUBSET Lishnet
    BY <2>1
  <2>3. QED
    BY <2>2 DEF WatchInit, BackKept
<1>3. LineKept /\ PushesKept /\ CallsKept /\ PageKept
  BY WatchAssumption DEF WatchInit, LineKept, PushesKept, CallsKept, PageKept, MaxCalls
<1>4. SeenKept
  BY NoCounts DEF WatchInit, SeenKept
<1>5. PromisesKept
  BY DEF WatchInit, PromisesKept
<1>6. QED
  BY <1>1, <1>2, <1>3, <1>4, <1>5 DEF WatchInv

LEMMA WatchNextHolds == WatchInv /\ [WatchNext]_watchVars => WatchInv'
<1> SUFFICES ASSUME WatchInv, [WatchNext]_watchVars
             PROVE  WatchInv'
  OBVIOUS
<1>1. CASE UNCHANGED watchVars
  <2>1. UNCHANGED <<node, wanted, lastCounts, checks, dialled>> /\ UNCHANGED <<online, heardEvents, pushes, calls>>
        /\ UNCHANGED <<watchers, listeners, rejoins, seen, watchEvents>>
    BY <1>1 DEF watchVars, backendVars, watcherVars
  <2>2. QED
    BY <2>1 DEF WatchInv, NodeKept, BackKept, LineKept, PushesKept, CallsKept, PageKept, SeenKept, PromisesKept
<1>2. CASE WatchNext
  BY <1>2, TopicsKeep, DialledKeeps, DisconnectsKeep, ChecksRun, NodeKeeps, ExecuteKeeps, SubscribesKeep,
     UnsubscribeKeeps, ArrivesKeeps, DropsKeeps, ConnectsAgainKeeps, AgesKeeps DEF WatchNext
<1>3. QED
  BY <1>1, <1>2

LEMMA WatchIsSafe == WatchInv => WatchTypeOK /\ ListeningIsSubscribed /\ OneColour
<1> SUFFICES ASSUME WatchInv PROVE WatchTypeOK /\ ListeningIsSubscribed /\ OneColour
  OBVIOUS
<1> USE DEF WatchInv
<1>1. WatchTypeOK
  <2>1. \A t \in GoodTopics : t \in TopicState
    BY DEF GoodTopics
  <2>2. node \in [up : BOOLEAN, topics : SUBSET Lishnet, of : [Lishnet -> TopicState]]
    BY <2>1, NodeFields
  <2>3. seen.counts \in Counts
    <3>1. DOMAIN seen.counts \in SUBSET Lishnet /\ seen.counts \in [DOMAIN seen.counts -> GoodTopics]
      BY CountsAre DEF SeenKept
    <3>2. seen.counts \in [DOMAIN seen.counts -> TopicState]
      BY <2>1, <3>1
    <3>3. QED
      BY <3>1, <3>2 DEF Counts
  <2>4. QED
    BY <2>2, <2>3 DEF BackKept, LineKept, PushesKept, CallsKept, PageKept, WatchTypeOK
<1>2. ListeningIsSubscribed
  <2> SUFFICES ASSUME online, calls = <<>>, NEW e \in rejoins, listeners[e] > 0
               PROVE  e \in heardEvents
    BY DEF ListeningIsSubscribed
  <2>1. Promised(calls, heardEvents, e)
    BY DEF PromisesKept
  <2>2. QED
    BY <2>1 DEF Promised, LastSubscribes
<1>3. OneColour
  BY FooterAgrees DEF SeenKept
<1>4. QED
  BY <1>1, <1>2, <1>3

LEMMA WatchMove == mcInit => WatchInit /\ ConnectionInit
BY DEF mcInit

LEMMA WatchStep == [mcNext]_allVars => [WatchNext]_watchVars /\ [ConnectionNext]_connectionVars
<1>1. UNCHANGED allVars => UNCHANGED watchVars /\ UNCHANGED connectionVars
  BY DEF allVars
<1>2. mcNext => WatchNext \/ UNCHANGED watchVars
  BY DEF mcNext, Sameness
<1>3. mcNext => ConnectionNext \/ UNCHANGED connectionVars
  BY DEF mcNext, Sameness
<1>4. QED
  BY <1>1, <1>2, <1>3

(* The footer has the colour its networks have one by one, and what the    *)
(* frontend means to hear the backend sends once nothing is on the way     *)
(* (networks.ts, backend network.ts and api.ts), for any finite set of     *)
(* networks, any number of peers and pushes, and however often the         *)
(* connection is lost.                                                     *)
THEOREM WatchGoesOn == mcSpec => []WatchHolds
<1>1. mcInit => WatchInv /\ ConnectionInv
  BY WatchMove, WatchInitHolds, ConnectionInitHolds
<1>2. WatchInv /\ ConnectionInv /\ [mcNext]_allVars => WatchInv' /\ ConnectionInv'
  BY WatchStep, WatchNextHolds, ConnectionNextHolds
<1>3. WatchInv /\ ConnectionInv => WatchHolds
  BY WatchIsSafe, ConnectionIsTyped DEF WatchHolds
<1>4. QED
  BY <1>1, <1>2, <1>3, PTL DEF mcSpec
=============================================================================
