----------------------------- MODULE RateLimiter -----------------------------
(***************************************************************************)
(* The sliding-window limiter of the signaling server (server/src/         *)
(* security/rateLimiter.ts): check() for every message and every new       *)
(* connection of an address, sweep() on an interval.                       *)
(*                                                                         *)
(* A key's array of timestamps is kept as a set of hits <<time, number>>,  *)
(* the number telling hits of one time apart: the code only filters the    *)
(* array, takes its length and adds the present time.                      *)
(***************************************************************************)
EXTENDS Naturals, FiniteSets

CONSTANTS
  Keys,     \* remote addresses
  WindowMs, \* SIGNALING_RATE_LIMIT_WINDOW_MS
  MaxHits,  \* SIGNALING_RATE_LIMIT_MAX_MESSAGES, CONNECTION_RATE_LIMIT_MAX
  MaxTime,  \* bound: the clock
  MaxBurst  \* bound: hits of one key at one time

ASSUME LimiterConstants ==
  /\ WindowMs \in Nat \ {0} /\ MaxHits \in Nat
  /\ MaxTime \in Nat /\ MaxBurst \in Nat

Times == 0..MaxTime
Hits == Times \X (1..MaxBurst)

VARIABLES
  hits,    \* the map: the recorded hits of each key, {} without an entry
  now,     \* Date.now()
  log,     \* every hit there ever was (history)
  granted  \* the hits that were allowed (history)

vars == <<hits, now, log, granted>>

\* Slip: the hit at the very start of the window is kept.
RecentClosed(h, time) == {x \in h : x[1] + WindowMs >= time}

\* filter((t) => t > now - windowMs)
Recent(h, time) == {x \in h : x[1] + WindowMs > time}

\* Slip: one hit more.
AllowsOneMore(h) == Cardinality(h) <= MaxHits + 1
\* recent.length <= this.maxHits, the present hit counted
Allows(h) == Cardinality(h) <= MaxHits

\* Slip: a key is dropped when its last hit is older than half a window.
SweepHard(h, time) == {x \in h : 2 * x[1] + WindowMs > 2 * time}
\* sweep() of one key: an entry that is empty is deleted
Sweep(h, time) == Recent(h, time)

Init ==
  /\ hits = [k \in Keys |-> {}] /\ now = 0
  /\ log = hits /\ granted = hits

\* Hits of the present time that have not been.
Unused(k) == ({now} \X (1..MaxBurst)) \ log[k]

\* check(): a refused hit is recorded as well.
Check(k) ==
  LET hit == CHOOSE x \in Unused(k) : TRUE
      recent == Recent(hits[k], now) \cup {hit}
  IN
  /\ Unused(k) # {}
  /\ hits' = [hits EXCEPT ![k] = recent]
  /\ log' = [log EXCEPT ![k] = @ \cup {hit}]
  /\ granted' = IF Allows(recent) THEN [granted EXCEPT ![k] = @ \cup {hit}] ELSE granted
  /\ UNCHANGED now

SweepAll ==
  /\ hits' = [k \in Keys |-> Sweep(hits[k], now)]
  /\ UNCHANGED <<now, log, granted>>

Tick ==
  /\ now < MaxTime
  /\ now' = now + 1
  /\ UNCHANGED <<hits, log, granted>>

Next == (\E k \in Keys : Check(k)) \/ SweepAll \/ Tick

Spec == Init /\ [][Next]_vars
-----------------------------------------------------------------------------
\* The hits of the window that ends at a time, by the definition of a window.
Window(h, time) == {x \in h : x[1] <= time /\ time < x[1] + WindowMs}

\* Every variable holds a value of its type.
TypeOK ==
  /\ hits \in [Keys -> SUBSET Hits] /\ log \in [Keys -> SUBSET Hits]
  /\ granted \in [Keys -> SUBSET Hits]
  /\ now \in Times

\* Forgetting is invisible: what check() and sweep() threw away could not have
\* counted in any decision to come, for the hits the window still covers are all
\* there, however the sweeps fell.
ForgetsOnlyTheOld == \A k \in Keys : Window(hits[k], now) = Window(log[k], now)

\* In no window, wherever it lies, were more than MaxHits hits of a key allowed.
WindowBound ==
  \A k \in Keys : \A time \in 0..now : Cardinality(Window(granted[k], time)) <= MaxHits

\* A hit is refused only when the window held MaxHits hits before it.
RefusedWhenFull ==
  [][\A k \in Keys :
       log'[k] # log[k] /\ granted'[k] = granted[k] =>
         Cardinality(Window(log[k], now)) >= MaxHits]_vars
=============================================================================
