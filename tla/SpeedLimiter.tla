----------------------------- MODULE SpeedLimiter ----------------------------
(***************************************************************************)
(* speed-limiter.ts: callers wait in line for their slot on a virtual      *)
(* clock.  Time is nondeterministic: when the line moves, any number of    *)
(* its first callers may find that their slot has come, the others wait    *)
(* for the one timer.                                                      *)
(***************************************************************************)
EXTENDS Naturals, Sequences, FiniteSets, SequencesExt

CONSTANT Clients

ASSUME LimiterAssumption == IsFiniteSet(Clients)

VARIABLE limiter

NoSlot == "none"
NewLimiter == [limited |-> FALSE, pending |-> <<>>, timer |-> FALSE, released |-> {}, last |-> NoSlot]

Released(l, n) ==
  [l EXCEPT !.pending = SubSeq(@, n + 1, Len(@)), !.released = @ \cup Range(SubSeq(l.pending, 1, n)),
            !.last = IF n = 0 THEN @ ELSE l.pending[n]]

\* scheduleNext and startNext, as long as slots have come; the first due of them certainly has.
Schedules(l, due) ==
  IF l.timer \/ l.pending = <<>> THEN {l}
  ELSE IF ~l.limited THEN {[l EXCEPT !.pending = <<>>, !.released = @ \cup Range(l.pending)]}
  ELSE {[Released(l, n) EXCEPT !.timer = n < Len(l.pending)] : n \in due..Len(l.pending)}

Untimed(l) == [l EXCEPT !.timer = FALSE]

\* throttle: at once where there is no limit.
Throttles(c) ==
  IF ~limiter.limited THEN limiter' = [limiter EXCEPT !.released = @ \cup {c}]
  ELSE limiter' \in Schedules([limiter EXCEPT !.pending = Append(@, c)], 0)

\* One caller leaves the line at its place.
LetGo(i) == [limiter EXCEPT !.pending = RemoveAt(@, i), !.released = @ \cup {limiter.pending[i]}]

\* Mutant: the timer is left to whoever comes next.
ForgetsLine(c) ==
  IF c \notin Range(limiter.pending) THEN UNCHANGED limiter
  ELSE \E i \in DOMAIN limiter.pending : limiter.pending[i] = c /\ limiter' = Untimed(LetGo(i))

\* The abort of a caller that waits: it is let go and the line looks again.
AbortsWait(c) ==
  IF c \notin Range(limiter.pending) THEN UNCHANGED limiter
  ELSE \E i \in DOMAIN limiter.pending : limiter.pending[i] = c /\ limiter' \in Schedules(Untimed(LetGo(i)), 0)

TimerFires == limiter.timer /\ limiter' \in Schedules(Untimed(limiter), 1)

\* A new limit, or none; the clock starts anew.
SetLimit(limited) ==
  LET new == Untimed([limiter EXCEPT !.limited = limited, !.last = NoSlot])
  IN  limiter' \in Schedules(new, IF new.pending = <<>> THEN 0 ELSE 1)
Resets == SetLimit(limiter.limited)

\* The last caller did not need its slot: the next one may have it.
Refunds(c) ==
  IF limiter.last # c THEN UNCHANGED limiter
  ELSE limiter' \in Schedules(Untimed([limiter EXCEPT !.last = NoSlot]), 0)

LimiterInit == limiter = NewLimiter
Waits(c) == c \in Range(limiter.pending)
LimiterNext ==
  \/ \E limited \in BOOLEAN : SetLimit(limited)
  \/ Resets \/ TimerFires
  \/ \E c \in Clients : \/ ~Waits(c) /\ c \notin limiter.released /\ Throttles(c)
                        \/ AbortsWait(c)
                        \/ c \in limiter.released /\ ~Waits(c) /\ Refunds(c)
                        \/ c \in limiter.released /\ limiter' = [limiter EXCEPT !.released = @ \ {c}]

-----------------------------------------------------------------------------
\* Whoever waits for a slot has a timer that will call, whatever is aborted, refunded, reset
\* or limited anew in between; without a limit nobody waits.
LineIsTimed == limiter.pending # <<>> => limiter.timer /\ limiter.limited
=============================================================================
