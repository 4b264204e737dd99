---------------------------- MODULE FixedRateClock ----------------------------
(***************************************************************************)
(* The clock of the authoritative runtime (ferrum-runtime/lib.rs): it is   *)
(* polled whenever its thread gets to it and answers with the ticks that   *)
(* have fallen due.  A poll that comes late runs the last MaxCatchUp of    *)
(* them and drops the others; an error leaves the clock as it is.          *)
(***************************************************************************)
EXTENDS Integers

CONSTANTS
  Interval,      \* between two ticks
  MaxCatchUp,    \* max_catch_up, a NonZeroU32
  MaxDue,        \* u32::MAX, the most that one poll accounts for
  MaxTick,       \* u64::MAX
  Delays,        \* bound: how much time may pass at once
  Horizon        \* bound: when the model's time ends

ASSUME FixedRateClockAssumption ==
  /\ {Interval, MaxCatchUp, MaxDue} \subseteq Nat \ {0}
  /\ {MaxTick, Horizon} \subseteq Nat /\ Delays \subseteq Nat

VARIABLES
  now,           \* the time since the clock was made
  deadline,      \* next_deadline
  tick,          \* current_tick
  batch,         \* what the last poll answered, or NoBatch
  ran, dropped   \* history: how many ticks were run, and dropped

clockVars == <<now, deadline, tick, batch, ran, dropped>>

NoBatch == [first |-> 0, count |-> 0, dropped |-> 0]

ClockInit ==
  /\ now = 0 /\ deadline = Interval /\ tick = 0
  /\ batch = NoBatch /\ ran = 0 /\ dropped = 0

TimePasses ==
  /\ \E d \in Delays : now + d <= Horizon /\ now' = now + d
  /\ UNCHANGED <<deadline, tick, batch, ran, dropped>>

AtMost(x, bound) == IF x <= bound THEN x ELSE bound

\* A mutated form: a poll that comes early or late starts a new interval.
NextDeadlineFromNow(due) == now + Interval
NextDeadline(due) == deadline + Interval * due

\* The ticks that are due at this time.
Due == AtMost((now - deadline) \div Interval + 1, MaxDue)

PollEarly ==
  /\ now < deadline
  /\ batch' = NoBatch
  /\ UNCHANGED <<now, deadline, tick, ran, dropped>>

PollDue ==
  /\ now >= deadline /\ tick + Due <= MaxTick
  /\ LET due   == Due
         count == AtMost(due, MaxCatchUp)
     IN /\ batch' = [first |-> tick + due - count + 1, count |-> count,
                     dropped |-> due - count]
        /\ deadline' = NextDeadline(due)
        /\ tick' = tick + due
        /\ ran' = ran + count
        /\ dropped' = dropped + (due - count)
  /\ UNCHANGED now

\* ClockError::TickOverflow: the runtime's thread ends with it.
PollOverflows ==
  /\ now >= deadline /\ tick + Due > MaxTick
  /\ UNCHANGED clockVars

ClockNext == TimePasses \/ PollEarly \/ PollDue \/ PollOverflows

ClockSpec == ClockInit /\ [][ClockNext]_clockVars

----------------------------------------------------------------------------
ClockTypeOK ==
  /\ now \in Nat /\ deadline \in Nat /\ tick \in Nat
  /\ ran \in Nat /\ dropped \in Nat
  /\ batch \in [first : Nat, count : Nat, dropped : Nat]

\* However late the polls are, the clock does not drift: the next deadline is
\* that of the next tick, no tick falls due ahead of time, every one was run or
\* dropped exactly once, and what a poll answers ends with the current tick.
ClockKeepsTime ==
  /\ deadline = Interval * (tick + 1)
  /\ Interval * tick <= now
  /\ ran + dropped = tick
  /\ batch.count <= MaxCatchUp
  /\ batch.count # 0 => batch.first + batch.count = tick + 1
=============================================================================
