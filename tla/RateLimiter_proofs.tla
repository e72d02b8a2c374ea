------------------------- MODULE RateLimiter_proofs --------------------------
(***************************************************************************)
(* Proofs about the rate limiter, for every window, limit, number of keys  *)
(* and schedule of hits and sweeps: forgetting old hits is invisible to    *)
(* check(), which allows no window more than its limit and refuses none    *)
(* that holds less.                                                        *)
(***************************************************************************)
EXTENDS RateLimiter, FiniteSetTheorems, TLAPS

\* A hit that the window covers is in the record, no time to come has hits, which makes a
\* dropped hit stay out of every later window, and only hits that were are allowed.
Remembered ==
  \A k \in Keys :
    /\ \A x \in Hits : x[1] + WindowMs > now => (x \in hits[k] <=> x \in log[k])
    /\ \A x \in hits[k] \cup log[k] : x[1] <= now
    /\ granted[k] \subseteq log[k]

IInv == TypeOK /\ Remembered

LEMMA HitsFinite ==
  /\ IsFiniteSet(Hits)
  /\ \A x \in Hits : x[1] \in Nat
<1>1. IsFiniteSet(Times) /\ IsFiniteSet(1..MaxBurst)
  BY LimiterConstants, FS_Interval DEF Times
<1>2. IsFiniteSet(Hits)
  BY <1>1, FS_Product DEF Hits
<1> QED  BY <1>2, LimiterConstants DEF Hits, Times

\* Fewer hits count for less, and one hit more for one more at most.
LEMMA Counting ==
  ASSUME NEW h \in SUBSET Hits
  PROVE  /\ Cardinality(h) \in Nat
         /\ \A g \in SUBSET h : Cardinality(g) <= Cardinality(h)
         /\ \A x \in Hits : Cardinality(h \cup {x}) <= Cardinality(h) + 1
<1>1. IsFiniteSet(h)
  BY HitsFinite, FS_Subset
<1>2. Cardinality(h) \in Nat
  BY <1>1, FS_CardinalityType
<1>3. \A g \in SUBSET h : Cardinality(g) <= Cardinality(h)
  BY <1>1, FS_Subset
<1>4. \A x \in Hits : Cardinality(h \cup {x}) <= Cardinality(h) + 1
  <2>1. \A x \in Hits : Cardinality(h \cup {x}) = IF x \in h THEN Cardinality(h)
                                                  ELSE Cardinality(h) + 1
    BY <1>1, FS_AddElement
  <2> QED  BY <1>2, <2>1
<1> QED  BY <1>2, <1>3, <1>4

LEMMA InitInv == Init => IInv
BY LimiterConstants DEF Init, IInv, TypeOK, Remembered, Times

\* check() records a hit of the present time that was not there.
LEMMA CheckStep ==
  ASSUME IInv, NEW k \in Keys, Check(k)
  PROVE  \E hit \in Hits :
           /\ hit[1] = now /\ hit \notin log[k]
           /\ hits' = [hits EXCEPT ![k] = Recent(hits[k], now) \cup {hit}]
           /\ log' = [log EXCEPT ![k] = log[k] \cup {hit}]
           /\ granted' = IF Allows(Recent(hits[k], now) \cup {hit})
                         THEN [granted EXCEPT ![k] = granted[k] \cup {hit}] ELSE granted
           /\ now' = now
<1> DEFINE hit == CHOOSE x \in Unused(k) : TRUE
<1>1. hit \in Unused(k)
  BY DEF Check
<1>2. hit \in Hits /\ hit[1] = now /\ hit \notin log[k]
  BY <1>1 DEF Unused, Hits, IInv, TypeOK
<1>3. /\ hits' = [hits EXCEPT ![k] = Recent(hits[k], now) \cup {hit}]
      /\ log' = [log EXCEPT ![k] = log[k] \cup {hit}]
      /\ granted' = IF Allows(Recent(hits[k], now) \cup {hit})
                    THEN [granted EXCEPT ![k] = granted[k] \cup {hit}] ELSE granted
      /\ now' = now
  BY DEF Check
<1> HIDE DEF hit
<1> QED  BY <1>2, <1>3

LEMMA NextInv == IInv /\ [Next]_vars => IInv'
<1> SUFFICES ASSUME IInv, [Next]_vars PROVE IInv'
  OBVIOUS
<1>0. /\ hits \in [Keys -> SUBSET Hits] /\ log \in [Keys -> SUBSET Hits]
      /\ granted \in [Keys -> SUBSET Hits] /\ now \in Times /\ now \in Nat
      /\ WindowMs \in Nat \ {0} /\ \A x \in Hits : x[1] \in Nat
  BY LimiterConstants, HitsFinite DEF IInv, TypeOK, Times
<1>1. ASSUME NEW k \in Keys, Check(k) PROVE IInv'
  <2>1. PICK hit \in Hits :
          /\ hit[1] = now
          /\ hits' = [hits EXCEPT ![k] = Recent(hits[k], now) \cup {hit}]
          /\ log' = [log EXCEPT ![k] = log[k] \cup {hit}]
          /\ granted' \in {[granted EXCEPT ![k] = granted[k] \cup {hit}], granted}
          /\ now' = now
    BY <1>1, CheckStep
  <2>2. Recent(hits[k], now) \subseteq hits[k]
        /\ \A x \in hits[k] : x[1] + WindowMs > now => x \in Recent(hits[k], now)
    BY DEF Recent
  <2>3. TypeOK'
    BY <1>0, <2>1, <2>2 DEF TypeOK
  <2>4. ASSUME NEW j \in Keys, j # k
        PROVE  hits'[j] = hits[j] /\ log'[j] = log[j] /\ granted'[j] = granted[j]
    BY <1>0, <2>1, <2>4
  <2>5. /\ hits'[k] = Recent(hits[k], now) \cup {hit} /\ log'[k] = log[k] \cup {hit}
        /\ granted'[k] \subseteq granted[k] \cup {hit}
    BY <1>0, <2>1
  <2>6. Remembered'
    BY <1>0, <2>1, <2>2, <2>4, <2>5 DEF IInv, Remembered
  <2> QED  BY <2>3, <2>6 DEF IInv
<1>2. CASE SweepAll
  <2>1. /\ UNCHANGED <<now, log, granted>>
        /\ hits' = [k \in Keys |-> {x \in hits[k] : x[1] + WindowMs > now}]
    BY <1>2 DEF SweepAll, Sweep, Recent
  <2>2. TypeOK'
    BY <1>0, <2>1 DEF TypeOK
  <2>3. Remembered'
    BY <1>0, <2>1 DEF IInv, Remembered
  <2> QED  BY <2>2, <2>3 DEF IInv
<1>3. CASE Tick
  <2>1. now' = now + 1 /\ now' \in Times /\ UNCHANGED <<hits, log, granted>>
    BY <1>0, <1>3, LimiterConstants DEF Tick, Times
  <2>2. TypeOK'
    BY <1>0, <2>1 DEF TypeOK
  <2>3. Remembered'
    BY <1>0, <2>1 DEF IInv, Remembered
  <2> QED  BY <2>2, <2>3 DEF IInv
<1>4. CASE UNCHANGED vars
  BY <1>4 DEF IInv, TypeOK, Remembered, vars
<1> QED  BY <1>1, <1>2, <1>3, <1>4 DEF Next

LEMMA SpecInv == Spec => []IInv
BY InitInv, NextInv, PTL DEF Spec

\* Type correctness of the record, the log and the clock.
THEOREM TypeCorrect == Spec => []TypeOK
<1>1. IInv => TypeOK
  BY DEF IInv
<1> QED  BY <1>1, SpecInv, PTL

\* What check() keeps is the window that ends now.
LEMMA KeptIsWindow ==
  ASSUME IInv, NEW k \in Keys
  PROVE  Recent(hits[k], now) = Window(log[k], now) /\ Window(hits[k], now) = Window(log[k], now)
<1>1. /\ hits[k] \subseteq Hits /\ log[k] \subseteq Hits
      /\ \A x \in hits[k] \cup log[k] : x[1] <= now
      /\ \A x \in Hits : x[1] + WindowMs > now => (x \in hits[k] <=> x \in log[k])
      /\ \A x \in Hits : x[1] \in Nat
      /\ now \in Nat /\ WindowMs \in Nat
  BY HitsFinite, LimiterConstants DEF IInv, TypeOK, Remembered, Times
<1>2. \A x \in Hits : now < x[1] + WindowMs <=> x[1] + WindowMs > now
  BY <1>1
<1> QED  BY <1>1, <1>2 DEF Recent, Window

\* Neither the filter of check() nor sweep() ever throws away a hit that a
\* decision to come would count (rateLimiter.ts check, sweep).
THEOREM ForgettingIsInvisible == Spec => []ForgetsOnlyTheOld
<1>1. IInv => ForgetsOnlyTheOld
  BY KeptIsWindow DEF ForgetsOnlyTheOld
<1> QED  BY <1>1, SpecInv, PTL

LEMMA WindowBoundStep ==
  ASSUME IInv, IInv', WindowBound, [Next]_vars
  PROVE  WindowBound'
<1>1. /\ hits \in [Keys -> SUBSET Hits] /\ log \in [Keys -> SUBSET Hits]
      /\ granted \in [Keys -> SUBSET Hits] /\ now \in Nat /\ now' \in Nat
      /\ granted' \in [Keys -> SUBSET Hits]
      /\ WindowMs \in Nat \ {0} /\ MaxHits \in Nat /\ \A x \in Hits : x[1] \in Nat
  BY LimiterConstants, HitsFinite DEF IInv, TypeOK, Times
<1>2. SUFFICES ASSUME NEW j \in Keys, NEW time \in 0..now'
               PROVE  Cardinality(Window(granted'[j], time)) <= MaxHits
  BY DEF WindowBound
<1>3. time \in Nat
  OBVIOUS
\* a window that ended before, and has not more hits now
<1>4. ASSUME NEW t \in 0..now, Window(granted'[j], time) \subseteq Window(granted[j], t)
      PROVE  Cardinality(Window(granted'[j], time)) <= MaxHits
  <2> DEFINE old == Window(granted[j], t)
             new == Window(granted'[j], time)
  <2>1. old \in SUBSET Hits /\ new \in SUBSET old
    BY <1>1, <1>4 DEF Window
  <2>2. Cardinality(old) <= MaxHits
    BY <1>4 DEF WindowBound
  <2> HIDE DEF old, new
  <2>3. Cardinality(old) \in Nat /\ Cardinality(new) \in Nat /\ Cardinality(new) <= Cardinality(old)
    <3>1. new \in SUBSET Hits
      BY <2>1
    <3> QED  BY <2>1, <3>1, Counting
  <2>4. Cardinality(new) <= MaxHits
    BY <1>1, <2>2, <2>3
  <2> QED  BY <2>4 DEF new
<1>5. CASE UNCHANGED <<granted, now>>
  BY <1>4, <1>5
<1>6. ASSUME NEW k \in Keys, Check(k)
      PROVE  Cardinality(Window(granted'[j], time)) <= MaxHits
  <2>1. PICK hit \in Hits :
          /\ hit[1] = now
          /\ granted' = IF Allows(Recent(hits[k], now) \cup {hit})
                        THEN [granted EXCEPT ![k] = granted[k] \cup {hit}] ELSE granted
          /\ now' = now
    BY <1>6, CheckStep
  <2>2. CASE granted'[j] = granted[j]
    <3>1. time \in 0..now /\ Window(granted'[j], time) \subseteq Window(granted[j], time)
      BY <2>1, <2>2
    <3> QED  BY <1>4, <3>1
  <2>3. CASE granted'[j] # granted[j]
    <3> DEFINE recent == Recent(hits[k], now) \cup {hit}
    <3>1. j = k /\ granted'[j] = granted[j] \cup {hit} /\ Cardinality(recent) <= MaxHits
      BY <1>1, <2>1, <2>3 DEF Allows
    <3>2. CASE time < now
      <4>1. Window(granted'[j], time) \subseteq Window(granted[j], time)
        BY <1>1, <1>3, <2>1, <3>1, <3>2 DEF Window
      <4>2. time \in 0..now
        BY <2>1
      <4> QED  BY <1>4, <4>1, <4>2
    <3>3. CASE time = now
      <4>1. Window(granted[j], now) \subseteq Window(log[j], now)
        BY DEF Window, IInv, Remembered
      <4>2. Window(granted'[j], time) \subseteq Window(log[j], now) \cup {hit}
        BY <3>1, <3>3, <4>1 DEF Window
      <4>3. Window(granted'[j], time) \subseteq recent
        BY <3>1, <4>2, KeptIsWindow
      <4>4. recent \in SUBSET Hits
        BY <1>1 DEF Recent
      <4> DEFINE new == Window(granted'[j], time)
      <4> HIDE DEF recent, new
      <4>5. Cardinality(recent) \in Nat /\ Cardinality(new) \in Nat
            /\ Cardinality(new) <= Cardinality(recent)
        <5>1. new \in SUBSET recent /\ new \in SUBSET Hits
          BY <4>3, <4>4 DEF new
        <5> QED  BY <4>4, <5>1, Counting
      <4>6. Cardinality(new) <= MaxHits
        BY <1>1, <3>1, <4>5
      <4> QED  BY <4>6 DEF new
    <3> QED  BY <1>1, <1>3, <2>1, <3>2, <3>3
  <2> QED  BY <2>2, <2>3
<1>7. CASE SweepAll
  BY <1>5, <1>7 DEF SweepAll
<1>8. CASE Tick
  <2>1. now' = now + 1 /\ UNCHANGED granted
    BY <1>8 DEF Tick
  <2>2. CASE time \in 0..now
    BY <1>4, <2>1, <2>2
  <2>3. CASE time = now + 1
    <3>1. \A x \in granted[j] : x \in Hits /\ x[1] <= now
      BY <1>1 DEF IInv, Remembered
    <3>2. Window(granted'[j], time) \subseteq Window(granted[j], now)
      BY <1>1, <2>1, <2>3, <3>1 DEF Window
    <3> QED  BY <1>1, <1>4, <3>2
  <2> QED  BY <1>1, <1>3, <2>1, <2>2, <2>3
<1>9. CASE UNCHANGED vars
  BY <1>5, <1>9 DEF vars
<1> QED  BY <1>6, <1>7, <1>8, <1>9 DEF Next

\* check() allows no more than maxHits hits of a key in any window, although it counts the
\* refused ones too and only ever looks at the window that ends now.
THEOREM WindowIsBounded == Spec => []WindowBound
<1>1. Init => WindowBound
  <2>1. ASSUME Init, NEW k \in Keys, NEW time \in 0..now
        PROVE  Cardinality(Window(granted[k], time)) <= MaxHits
    <3>1. Window(granted[k], time) = {}
      BY <2>1 DEF Init, Window
    <3> QED  BY <3>1, FS_EmptySet, LimiterConstants
  <2> QED  BY <2>1 DEF WindowBound
<1>2. IInv /\ IInv' /\ WindowBound /\ [Next]_vars => WindowBound'
  BY WindowBoundStep
<1> QED  BY <1>1, <1>2, SpecInv, PTL DEF Spec

\* check() refuses a hit only if the window that ends now held maxHits hits before it.
THEOREM RefusesOnlyWhenFull == Spec => RefusedWhenFull
<1>1. ASSUME IInv, [Next]_vars, NEW k \in Keys, log'[k] # log[k], granted'[k] = granted[k]
      PROVE  Cardinality(Window(log[k], now)) >= MaxHits
  <2>1. /\ log \in [Keys -> SUBSET Hits] /\ granted \in [Keys -> SUBSET Hits]
        /\ hits[k] \in SUBSET Hits /\ MaxHits \in Nat
    BY <1>1, LimiterConstants DEF IInv, TypeOK
  <2>2. PICK j \in Keys : Check(j)
    BY <1>1 DEF Next, SweepAll, Tick, vars
  <2>3. PICK hit \in Hits :
          /\ hit \notin log[j]
          /\ log' = [log EXCEPT ![j] = log[j] \cup {hit}]
          /\ granted' = IF Allows(Recent(hits[j], now) \cup {hit})
                        THEN [granted EXCEPT ![j] = granted[j] \cup {hit}] ELSE granted
    BY <1>1, <2>2, CheckStep
  <2>4. j = k
    BY <1>1, <2>1, <2>3
  <2>5. hit \notin granted[k]
    BY <1>1, <2>3, <2>4 DEF IInv, Remembered
  <2>6. ~(Cardinality(Recent(hits[k], now) \cup {hit}) <= MaxHits)
    BY <1>1, <2>1, <2>3, <2>4, <2>5 DEF Allows
  <2> DEFINE recent == Recent(hits[k], now)
  <2>7. recent \in SUBSET Hits /\ recent = Window(log[k], now)
    BY <1>1, <2>1, KeptIsWindow DEF Recent
  <2> HIDE DEF recent
  <2>8. Cardinality(recent) \in Nat /\ Cardinality(recent \cup {hit}) <= Cardinality(recent) + 1
        /\ Cardinality(recent \cup {hit}) \in Nat
    <3>1. recent \cup {hit} \in SUBSET Hits
      BY <2>7
    <3> QED  BY <2>7, <3>1, Counting
  <2> QED  BY <2>1, <2>6, <2>7, <2>8 DEF recent
<1>2. IInv /\ [Next]_vars =>
        [\A k \in Keys : log'[k] # log[k] /\ granted'[k] = granted[k] =>
           Cardinality(Window(log[k], now)) >= MaxHits]_vars
  BY <1>1
<1> QED  BY <1>2, SpecInv, PTL DEF Spec, RefusedWhenFull
=============================================================================
