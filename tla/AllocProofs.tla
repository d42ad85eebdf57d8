---------------------------- MODULE AllocProofs ----------------------------
(***************************************************************************)
(* Proofs about AllocCounter: for any number of ticks and whatever the     *)
(* program requests, what gate G5, its trap and the totals report is what  *)
(* was requested where they say.                                           *)
(***************************************************************************)
EXTENDS AllocCounter, TLAPS

Amount   == [calls : Nat, bytes : Nat]
Kinds    == AllocKinds \cup FreeKinds
Counters == [calls : [Kinds -> Nat], bytes : Nat]
Traps    == [triggered : BOOLEAN, phase : {"", "latency", "feas"}, tick : Nat, calls : Nat,
             bytes : Nat]

\* One allocation of n bytes.
One(n) == [calls |-> 1, bytes |-> n]

Typed ==
    /\ enabled \in BOOLEAN /\ projecting \in BOOLEAN /\ t \in Nat
    /\ phase \in {"setup", "warmup", "measured", "done"}
    /\ counters \in Counters /\ before \in Counters /\ afterWarmup \in Counters
    /\ loop \in Amount /\ total \in Amount /\ inside \in Amount /\ around \in Amount
    /\ asked \in [Ticks -> Amount]

\* Counting is on from before the warmup to the end; calls come in measured ticks only.
Phased ==
    /\ enabled <=> phase \in {"warmup", "measured"}
    /\ projecting => phase = "measured" /\ t \in Ticks
    /\ phase \in {"setup", "warmup"} => /\ inside = Nothing /\ around = Nothing
                                        /\ t = 0

\* What the current call has requested is between its first snapshot and now.
CallCounted ==
    /\ ~projecting => loop = inside
    /\ projecting => /\ Allocated(counters) = Plus(Allocated(before), asked[t])
                     /\ inside = Plus(loop, asked[t])

\* What the measured phases have requested is between the warmup and now.
RunCounted ==
    /\ phase = "measured" =>
            Allocated(counters) = Plus(Allocated(afterWarmup), Plus(inside, around))
    /\ phase = "done" => total = Plus(inside, around)

\* Ticks that have not begun requested nothing; no bytes come without a call.
TicksCounted ==
    /\ \A i \in Ticks : i > t \/ (i = t /\ ~projecting) => asked[i] = Nothing
    /\ \A i \in Ticks : asked[i].calls = 0 => asked[i].bytes = 0
    /\ inside.calls = 0 => inside.bytes = 0
    /\ inside.calls = 0 <=> \A i \in Ticks : asked[i].calls = 0

AInv == Typed /\ Phased /\ CallCounted /\ RunCounted /\ TicksCounted

-----------------------------------------------------------------------------

\* The ticks are numbers.
LEMMA TickNumbers == MeasuredTicks \in Nat /\ Ticks \subseteq Nat
  BY AllocAssumption DEF MeasuredTicks, Ticks

\* Amounts add up in any order.
LEMMA AmountsAdd ==
  ASSUME NEW x \in Amount, NEW y \in Amount
  PROVE  /\ Plus(x, y) \in Amount /\ Plus(x, Nothing) = x /\ Nothing \in Amount
         /\ \A z \in Amount : Plus(Plus(x, y), z) = Plus(x, Plus(y, z))
         /\ Plus(x, y) = Plus(y, x)
  BY DEF Plus, Amount, Nothing

\* A snapshot tells an amount.
LEMMA AllocatedIsAmount == \A c \in Counters : Allocated(c) \in Amount
  BY DEF Allocated, Counters, Amount, Kinds, AllocKinds

\* What was added since an earlier snapshot is its difference from a later one.
LEMMA SinceIsAdded ==
  ASSUME NEW c \in Counters, NEW d \in Counters, NEW x \in Amount,
         Allocated(d) = Plus(Allocated(c), x)
  PROVE  Since(c, d) = x
<1> DEFINE a == Allocated(c)
<1>1. a \in Amount /\ Allocated(d) = [calls |-> a.calls + x.calls, bytes |-> a.bytes + x.bytes]
  BY AllocatedIsAmount DEF Plus
<1> HIDE DEF a
<1>2. a.calls \in Nat /\ a.bytes \in Nat /\ x.calls \in Nat /\ x.bytes \in Nat
  BY <1>1 DEF Amount
<1>3. Since(c, d) = [calls |-> x.calls, bytes |-> x.bytes]
  BY <1>1, <1>2 DEF Since, a
<1> QED
  BY <1>3 DEF Amount

\* The counters see each request once; a free allocates nothing.
LEMMA RequestIsNoted ==
  ASSUME NEW c \in Counters, NEW k \in Kinds, NEW n \in Nat, enabled
  PROVE  /\ Noted(c, k, n) \in Counters
         /\ k \in AllocKinds => Allocated(Noted(c, k, n)) = Plus(Allocated(c), One(n))
         /\ k \in FreeKinds => Allocated(Noted(c, k, n)) = Allocated(c)
  BY DEF Noted, Counters, Kinds, AllocKinds, FreeKinds, Allocated, Plus, One

-----------------------------------------------------------------------------
\* The invariant holds of every run.

\* It holds before the run.
LEMMA AllocInit == Init => AInv
<1> SUFFICES ASSUME Init PROVE AInv
  OBVIOUS
<1>1. Zeroed \in Counters /\ Nothing \in Amount
  BY DEF Zeroed, Counters, Kinds, Nothing, Amount
<1>2. Typed
  BY <1>1 DEF Init, Typed
<1>3. Phased /\ CallCounted /\ RunCounted
  BY DEF Init, Phased, CallCounted, RunCounted
<1>4. TicksCounted
  BY DEF Init, TicksCounted, Nothing
<1> QED
  BY <1>2, <1>3, <1>4 DEF AInv

\* A request that is counted is counted once, and where it is made; before the run
\* nothing is counted.
LEMMA AllocRequest ==
  ASSUME AInv, NEW k \in Kinds, NEW n \in Nat, Request(k, n)
  PROVE  AInv'
<1> DEFINE one == IF k \in AllocKinds THEN [calls |-> 1, bytes |-> n] ELSE Nothing
<1>1. /\ counters' = Noted(counters, k, n)
      /\ inside' = IF projecting THEN Plus(inside, one) ELSE inside
      /\ asked' = IF projecting THEN [asked EXCEPT ![t] = Plus(@, one)] ELSE asked
      /\ around' = IF phase = "measured" /\ ~projecting THEN Plus(around, one) ELSE around
      /\ UNCHANGED <<enabled, phase, t, projecting, before, afterWarmup, loop, trap, total>>
  BY DEF Request
<1>2. one \in Amount
  BY DEF Amount, Nothing
<1>3. /\ counters \in Counters /\ before \in Counters /\ afterWarmup \in Counters
      /\ loop \in Amount /\ inside \in Amount /\ around \in Amount
      /\ asked \in [Ticks -> Amount]
  BY DEF AInv, Typed
<1>4. CASE ~enabled
  <2>1. counters' = counters /\ phase # "measured" /\ ~projecting
    BY <1>1, <1>4 DEF Noted, AInv, Phased
  <2> QED
    BY <1>1, <2>1 DEF AInv, Typed, Phased, CallCounted, RunCounted, TicksCounted
<1>5. CASE enabled
  <2>1. counters' \in Counters
    BY <1>1, <1>3, <1>5, RequestIsNoted
  <2>2. Allocated(counters') = Plus(Allocated(counters), one)
    <3>1. CASE k \in AllocKinds
      BY <1>1, <1>3, <1>5, <3>1, RequestIsNoted DEF One
    <3>2. CASE k \notin AllocKinds
      <4>1. k \in FreeKinds /\ one = Nothing
        BY <3>2 DEF Kinds
      <4>2. Allocated(counters') = Allocated(counters)
        BY <1>1, <1>3, <1>5, <4>1, RequestIsNoted
      <4> QED
        BY <1>3, <4>1, <4>2, AllocatedIsAmount, AmountsAdd
    <3> QED
      BY <3>1, <3>2
  <2>3. Allocated(counters) \in Amount /\ Allocated(before) \in Amount
        /\ Allocated(afterWarmup) \in Amount
    BY <1>3, AllocatedIsAmount
  <2> HIDE DEF one
  <2>4. CASE projecting
    <3>1. /\ phase = "measured" /\ t \in Ticks
          /\ asked[t] \in Amount
      BY <1>3, <2>4 DEF AInv, Phased
    <3>2. /\ asked' = [asked EXCEPT ![t] = Plus(asked[t], one)]
          /\ asked'[t] = Plus(asked[t], one)
          /\ inside' = Plus(inside, one) /\ around' = around
      BY <1>1, <1>3, <2>4, <3>1
    <3>3. Plus(asked[t], one) \in Amount /\ Plus(inside, one) \in Amount
      BY <1>2, <1>3, <3>1, AmountsAdd
    <3>4. Typed' /\ Phased'
      BY <1>1, <1>3, <2>1, <2>4, <3>1, <3>2, <3>3 DEF AInv, Typed, Phased
    <3>5. CallCounted'
      <4>1. Allocated(counters) = Plus(Allocated(before), asked[t]) /\ inside = Plus(loop, asked[t])
        BY <2>4 DEF AInv, CallCounted
      <4>2. Allocated(counters') = Plus(Allocated(before), asked'[t])
        <5>1. Plus(Plus(Allocated(before), asked[t]), one)
                = Plus(Allocated(before), Plus(asked[t], one))
          BY <1>2, <2>3, <3>1, AmountsAdd
        <5> QED
          BY <2>2, <3>2, <4>1, <5>1
      <4>3. inside' = Plus(loop, asked'[t])
        BY <1>2, <1>3, <3>1, <3>2, <4>1, AmountsAdd
      <4> QED
        BY <1>1, <2>4, <4>2, <4>3 DEF CallCounted
    <3>6. RunCounted'
      <4>1. Allocated(counters) = Plus(Allocated(afterWarmup), Plus(inside, around))
        BY <3>1 DEF AInv, RunCounted
      <4>2. Plus(inside, around) \in Amount
        BY <1>3, AmountsAdd
      <4>3. Plus(Plus(inside, around), one) = Plus(Plus(inside, one), around)
        BY <1>2, <1>3, AmountsAdd
      <4>4. Allocated(counters') = Plus(Allocated(afterWarmup), Plus(inside', around'))
        BY <1>2, <2>2, <2>3, <3>2, <4>1, <4>2, <4>3, AmountsAdd
      <4> QED
        BY <1>1, <3>1, <4>4 DEF RunCounted
    <3>7. TicksCounted'
      <4>1. /\ inside' = [calls |-> inside.calls + one.calls, bytes |-> inside.bytes + one.bytes]
            /\ asked'[t] = [calls |-> asked[t].calls + one.calls,
                            bytes |-> asked[t].bytes + one.bytes]
        BY <3>2 DEF Plus
      <4>2. /\ inside.calls \in Nat /\ inside.bytes \in Nat
            /\ asked[t].calls \in Nat /\ asked[t].bytes \in Nat
            /\ one.calls \in Nat /\ one.bytes \in Nat
        BY <1>2, <1>3, <3>1 DEF Amount
      <4>3. one.calls = 0 => one.bytes = 0
        BY DEF one, Nothing
      <4>4. \A i \in Ticks : i # t => asked'[i] = asked[i]
        BY <1>3, <3>2
      <4>5. /\ \A i \in Ticks : i > t => asked[i] = Nothing
            /\ \A i \in Ticks : asked[i].calls = 0 => asked[i].bytes = 0
            /\ inside.calls = 0 => inside.bytes = 0
            /\ inside.calls = 0 <=> \A i \in Ticks : asked[i].calls = 0
        BY DEF AInv, TicksCounted
      <4>6. t \in Nat
        BY DEF AInv, Typed
      <4>7. \A i \in Ticks : i > t => asked'[i] = Nothing
        BY <4>4, <4>5, <4>6, TickNumbers
      <4>8. ASSUME NEW i \in Ticks, asked'[i].calls = 0 PROVE asked'[i].bytes = 0
        <5>1. CASE i = t
          <6>1. asked[t].calls = 0 /\ one.calls = 0
            BY <4>1, <4>2, <4>8, <5>1
          <6>2. asked[t].bytes = 0 /\ one.bytes = 0
            BY <3>1, <4>3, <4>5, <6>1
          <6> QED
            BY <4>1, <5>1, <6>2
        <5>2. CASE i # t
          BY <4>4, <4>5, <4>8, <5>2
        <5> QED
          BY <5>1, <5>2
      <4>9. inside'.calls = 0 => inside'.bytes = 0
        BY <4>1, <4>2, <4>3, <4>5
      <4>10. inside'.calls = 0 <=> \A i \in Ticks : asked'[i].calls = 0
        <5>1. CASE one.calls = 0
          BY <4>1, <4>2, <4>4, <4>5, <5>1
        <5>2. CASE one.calls # 0
          BY <3>1, <4>1, <4>2, <5>2
        <5> QED
          BY <5>1, <5>2
      <4> QED
        BY <1>1, <2>4, <4>7, <4>8, <4>9, <4>10 DEF TicksCounted
    <3> QED
      BY <3>4, <3>5, <3>6, <3>7 DEF AInv
  <2>5. CASE ~projecting
    <3>1. inside' = inside /\ asked' = asked
      BY <1>1, <2>5
    <3>2. around' = IF phase = "measured" THEN Plus(around, one) ELSE around
      BY <1>1, <2>5
    <3>3. around' \in Amount
      BY <1>2, <1>3, <3>2, AmountsAdd
    <3>4. Typed' /\ CallCounted' /\ TicksCounted'
      BY <1>1, <2>1, <2>5, <3>1, <3>3 DEF AInv, Typed, CallCounted, TicksCounted
    <3>5. Phased'
      BY <1>1, <2>5, <3>1, <3>2 DEF AInv, Phased
    <3>6. RunCounted'
      <4>1. phase # "done"
        BY <1>5 DEF AInv, Phased
      <4>2. ASSUME phase = "measured"
            PROVE  Allocated(counters') = Plus(Allocated(afterWarmup), Plus(inside', around'))
        <5>1. Allocated(counters) = Plus(Allocated(afterWarmup), Plus(inside, around))
          BY <4>2 DEF AInv, RunCounted
        <5>2. Plus(inside, around) \in Amount
          BY <1>3, AmountsAdd
        <5>3. Plus(Plus(inside, around), one) = Plus(inside, Plus(around, one))
          BY <1>2, <1>3, AmountsAdd
        <5> QED
          BY <1>2, <2>2, <2>3, <3>1, <3>2, <4>2, <5>1, <5>2, <5>3, AmountsAdd
      <4> QED
        BY <1>1, <4>1, <4>2 DEF RunCounted
    <3> QED
      BY <3>4, <3>5, <3>6 DEF AInv
  <2> QED
    BY <2>4, <2>5
<1> QED
  BY <1>4, <1>5

\* The steps of the bench.
LEMMA AllocBenchStep ==
  ASSUME AInv, StartRun \/ EndWarmup \/ BeginProject \/ EndProject \/ EndRun
  PROVE  AInv'
<1>0. /\ counters \in Counters /\ before \in Counters /\ afterWarmup \in Counters
      /\ loop \in Amount /\ inside \in Amount /\ around \in Amount
      /\ asked \in [Ticks -> Amount] /\ t \in Nat
      /\ Allocated(counters) \in Amount
  BY AllocatedIsAmount DEF AInv, Typed
<1>1. CASE StartRun
  <2>1. Zeroed \in Counters
    BY DEF Zeroed, Counters, Kinds
  <2> QED
    BY <1>1, <2>1 DEF StartRun, history, AInv, Typed, Phased, CallCounted, RunCounted, TicksCounted
<1>2. CASE EndWarmup
  <2>1. inside = Nothing /\ around = Nothing /\ ~projecting
    BY <1>2 DEF EndWarmup, AInv, Phased
  <2>2. Allocated(counters) = Plus(Allocated(counters), Plus(inside, around))
    BY <1>0, <2>1, AmountsAdd
  <2> QED
    BY <1>2, <2>1, <2>2 DEF EndWarmup, history, AInv, Typed, Phased, CallCounted, RunCounted,
                            TicksCounted
<1>3. CASE BeginProject
  <2>1. t \in Ticks
    BY <1>0, <1>3, TickNumbers DEF BeginProject, Ticks
  <2>2. asked[t] = Nothing /\ inside = loop
    BY <1>3, <2>1 DEF BeginProject, AInv, TicksCounted, CallCounted
  <2>3. Allocated(counters) = Plus(Allocated(counters), asked[t]) /\ inside = Plus(loop, asked[t])
    BY <1>0, <2>2, AmountsAdd
  <2>4. before' = counters /\ projecting'
        /\ UNCHANGED <<enabled, counters, phase, t, afterWarmup, loop, trap, total, inside, asked, around>>
    BY <1>3 DEF BeginProject, history
  <2>5. Typed' /\ CallCounted' /\ RunCounted'
    BY <1>0, <1>3, <2>3, <2>4 DEF BeginProject, AInv, Typed, CallCounted, RunCounted
  <2>6. Phased'
    BY <1>3, <2>1, <2>4 DEF BeginProject, AInv, Phased
  <2>7. TicksCounted'
    BY <2>4 DEF AInv, TicksCounted
  <2> QED
    BY <2>5, <2>6, <2>7 DEF AInv
<1>4. CASE EndProject
  <2>1. /\ projecting /\ phase = "measured" /\ t \in Ticks
        /\ Allocated(counters) = Plus(Allocated(before), asked[t])
        /\ inside = Plus(loop, asked[t])
    BY <1>4 DEF EndProject, AInv, Phased, CallCounted
  <2>2. Since(before, counters) = asked[t]
    BY <1>0, <2>1, SinceIsAdded
  <2>3. /\ loop' = inside /\ projecting' = FALSE /\ t' = t + 1
        /\ UNCHANGED <<enabled, counters, phase, before, afterWarmup, total, inside, asked, around>>
    BY <1>4, <2>1, <2>2 DEF EndProject, history
  <2>4. Typed' /\ CallCounted' /\ RunCounted'
    <3>1. t' \in Nat
      BY <1>0, <2>3
    <3>2. projecting' \in BOOLEAN /\ ~projecting'
      BY <2>3
    <3>3. Typed'
      BY <1>0, <2>3, <3>1, <3>2 DEF AInv, Typed
    <3>4. CallCounted'
      BY <2>3, <3>2 DEF CallCounted
    <3>5. RunCounted'
      BY <2>3 DEF AInv, RunCounted
    <3> QED
      BY <3>3, <3>4, <3>5
  <2>6. Phased'
    BY <2>1, <2>3 DEF AInv, Phased
  <2>5. TicksCounted'
    BY <1>0, <2>3, TickNumbers DEF AInv, TicksCounted
  <2> QED
    BY <2>4, <2>5, <2>6 DEF AInv
<1>5. CASE EndRun
  <2>1. Allocated(counters) = Plus(Allocated(afterWarmup), Plus(inside, around))
    BY <1>5 DEF EndRun, AInv, RunCounted
  <2>2. Plus(inside, around) \in Amount
    BY <1>0, AmountsAdd
  <2>3. total' = Plus(inside, around)
    BY <1>0, <1>5, <2>1, <2>2, SinceIsAdded DEF EndRun
  <2> QED
    BY <1>5, <2>2, <2>3 DEF EndRun, history, AInv, Typed, Phased, CallCounted, RunCounted, TicksCounted
<1> QED
  BY <1>1, <1>2, <1>3, <1>4, <1>5

\* Every step keeps it.
LEMMA AllocInvariant == Spec => []AInv
<1>1. Init => AInv
  BY AllocInit
<1>2. AInv /\ [Next]_vars => AInv'
  <2> SUFFICES ASSUME AInv, [Next]_vars PROVE AInv'
    OBVIOUS
  <2>1. ASSUME NEW k \in AllocKinds, NEW n \in Sizes, Request(k, n) PROVE AInv'
    <3>1. k \in Kinds /\ n \in Nat
      BY AllocAssumption DEF Kinds
    <3> QED
      BY <2>1, <3>1, AllocRequest
  <2>2. ASSUME NEW k \in FreeKinds, Request(k, 0) PROVE AInv'
    <3>1. k \in Kinds
      BY DEF Kinds
    <3> QED
      BY <2>2, <3>1, AllocRequest
  <2>3. CASE UNCHANGED vars
    BY <2>3 DEF vars, history, AInv, Typed, Phased, CallCounted, RunCounted, TicksCounted
  <2> QED
    BY <2>1, <2>2, <2>3, AllocBenchStep DEF Next
<1> QED
  BY <1>1, <1>2, PTL DEF Spec

-----------------------------------------------------------------------------

\* Gate G5 judges what project requested in measured ticks and nothing else, for any
\* number of ticks and whatever is requested around them: bench_baselines.cpp:689-716
\* and 899-902.
THEOREM LoopIsProject == Spec => []LoopCountsProject
<1>1. AInv => LoopCountsProject
  <2> SUFFICES ASSUME AInv, ~projecting
               PROVE  loop = inside /\ (G5Pass <=> \A i \in Ticks : asked[i].calls = 0)
    BY DEF LoopCountsProject
  <2>1. loop = inside
    BY DEF AInv, CallCounted
  <2>2. /\ inside.calls = 0 => inside.bytes = 0
        /\ inside.calls = 0 <=> \A i \in Ticks : asked[i].calls = 0
    BY DEF AInv, TicksCounted
  <2>3. G5Pass <=> inside.calls = 0
    BY <2>1, <2>2 DEF G5Pass
  <2> QED
    BY <2>1, <2>2, <2>3
<1> QED
  BY <1>1, AllocInvariant, PTL

\* The totals of a finished run are what project and the rest of the measured phases
\* requested (bench_baselines.cpp:857-866).
THEOREM TotalsAreSplit == Spec => []TotalsSplit
<1>1. AInv => TotalsSplit
  BY DEF AInv, RunCounted, TotalsSplit
<1> QED
  BY <1>1, AllocInvariant, PTL

-----------------------------------------------------------------------------
\* The trap.

Past    == {i \in Ticks : i < t}
Calling == {i \in Past : asked[i].calls > 0}
Paying  == {i \in Past : asked[i].bytes > 0}

\* What the trap says of the ticks that are over; that it knows no bytes exactly when
\* none were asked for is what lets EndProject fill them in later.
TrapKept ==
    /\ trap \in Traps
    /\ trap.triggered <=> Calling # {}
    /\ trap.triggered =>
        /\ trap.tick \in Calling
        /\ \A i \in Calling : trap.tick <= i
        /\ trap.calls = asked[trap.tick].calls
        /\ trap.phase = "latency" <=> trap.tick < LatencyTicks
        /\ trap.bytes = 0 <=> Paying = {}
        /\ \A i \in Paying : (\A j \in Paying : i <= j) => trap.bytes = asked[i].bytes

\* A request is one of the current tick, which is not over.
LEMMA TrapUntouched ==
  ASSUME AInv, TrapKept, trap' = trap, t' = t, \A i \in Past : asked'[i] = asked[i]
  PROVE  TrapKept'
<1>1. Past' = Past
  BY DEF Past
<1>2. Calling' = Calling /\ Paying' = Paying
  BY <1>1 DEF Calling, Paying
<1>3. ASSUME NEW i \in Past PROVE asked'[i] = asked[i]
  BY <1>3
<1>4. Calling \subseteq Past /\ Paying \subseteq Past
  BY DEF Calling, Paying
<1>5. trap.triggered => asked'[trap.tick] = asked[trap.tick]
  BY <1>3, <1>4 DEF TrapKept
<1>6. \A i \in Paying : asked'[i] = asked[i]
  BY <1>3, <1>4
<1> QED
  BY <1>2, <1>5, <1>6 DEF TrapKept

\* At the end of a call the trap takes in its tick.
LEMMA TrapTaken ==
  ASSUME AInv, TrapKept, EndProject
  PROVE  TrapKept'
<1> DEFINE d == asked[t]
<1>1. /\ projecting /\ t \in Ticks /\ t \in Nat /\ d \in Amount
      /\ Allocated(counters) = Plus(Allocated(before), d)
  BY DEF EndProject, AInv, Typed, Phased, CallCounted
<1>2. Since(before, counters) = d
  BY <1>1, SinceIsAdded DEF AInv, Typed
<1>3. trap' = Trapped(d) /\ t' = t + 1 /\ asked' = asked
  BY <1>2 DEF EndProject, history
<1>4. d.calls \in Nat /\ d.bytes \in Nat /\ (d.calls = 0 => d.bytes = 0)
  BY <1>1 DEF Amount, AInv, TicksCounted
<1>5. Past' = Past \cup {t} /\ t \notin Past
  <2>1. \A i \in Ticks : i < t + 1 <=> i < t \/ i = t
    BY <1>1, TickNumbers
  <2>2. Past' = {i \in Ticks : i < t + 1}
    BY <1>3 DEF Past
  <2>3. Past' = Past \cup {t}
    BY <1>1, <2>1, <2>2, Zenon DEF Past
  <2>4. t \notin Past
    BY <1>1 DEF Past
  <2> QED
    BY <2>3, <2>4
<1>6. /\ Calling' = IF d.calls > 0 THEN Calling \cup {t} ELSE Calling
      /\ Paying' = IF d.bytes > 0 THEN Paying \cup {t} ELSE Paying
  BY <1>3, <1>5 DEF Calling, Paying
<1>7. /\ Calling \subseteq Past /\ Paying \subseteq Past
      /\ \A i \in Past : i \in Nat /\ i < t
  BY TickNumbers DEF Calling, Paying, Past
<1>8. \A i \in Ticks : asked[i].calls = 0 => asked[i].bytes = 0
  BY DEF AInv, TicksCounted
<1>9. \A i \in Ticks : asked[i].calls \in Nat /\ asked[i].bytes \in Nat
  BY DEF AInv, Typed, Amount
<1>10. Paying \subseteq Calling
  BY <1>8, <1>9 DEF Paying, Calling, Past
<1>11. trap \in Traps
  BY DEF TrapKept
<1> HIDE DEF d
<1>12. CASE ~trap.triggered /\ d.calls = 0
  <2>1. trap' = trap
    BY <1>3, <1>12 DEF Trapped
  <2>2. Calling = {} /\ Calling' = {}
    BY <1>4, <1>6, <1>12 DEF TrapKept
  <2> QED
    BY <1>11, <1>12, <2>1, <2>2 DEF TrapKept
<1>13. CASE ~trap.triggered /\ d.calls > 0
  <2>1. trap' = [triggered |-> TRUE, phase |-> IF t < LatencyTicks THEN "latency" ELSE "feas",
                 tick |-> t, calls |-> d.calls, bytes |-> d.bytes]
    BY <1>3, <1>13 DEF Trapped
  <2>2. Calling = {} /\ Paying = {}
    BY <1>10, <1>13 DEF TrapKept
  <2>3. Calling' = {t} /\ Paying' = IF d.bytes > 0 THEN {t} ELSE {}
    BY <1>6, <1>13, <2>2
  <2>4. trap' \in Traps
    BY <1>1, <1>4, <2>1 DEF Traps
  <2>5. trap'.phase = "latency" <=> t < LatencyTicks
    BY <2>1
  <2>6. /\ trap'.triggered /\ trap'.tick = t /\ trap'.calls = d.calls /\ trap'.bytes = d.bytes
    BY <2>1
  <2>7. asked'[t] = d
    BY <1>3 DEF d
  <2>8. trap'.bytes = 0 <=> Paying' = {}
    BY <1>4, <2>3, <2>6
  <2>9. trap'.tick \in Calling' /\ \A i \in Calling' : trap'.tick <= i
    BY <1>1, <2>3, <2>6
  <2>10. \A i \in Paying' : (\A j \in Paying' : i <= j) => trap'.bytes = asked'[i].bytes
    BY <2>3, <2>6, <2>7
  <2> QED
    BY <2>3, <2>4, <2>5, <2>6, <2>7, <2>8, <2>9, <2>10 DEF TrapKept
<1>14. CASE trap.triggered
  <2>1. trap' = IF trap.bytes = 0 THEN [trap EXCEPT !.bytes = d.bytes] ELSE trap
    BY <1>3, <1>14 DEF Trapped
  <2>2. /\ trap'.triggered /\ trap'.tick = trap.tick /\ trap'.calls = trap.calls
        /\ trap'.phase = trap.phase /\ trap' \in Traps
        /\ trap'.bytes = IF trap.bytes = 0 THEN d.bytes ELSE trap.bytes
    BY <1>4, <1>11, <1>14, <2>1 DEF Traps
  <2>3. /\ trap.tick \in Calling
        /\ \A i \in Calling : trap.tick <= i
        /\ trap.calls = asked[trap.tick].calls
        /\ trap.phase = "latency" <=> trap.tick < LatencyTicks
        /\ trap.bytes = 0 <=> Paying = {}
        /\ \A i \in Paying : (\A j \in Paying : i <= j) => trap.bytes = asked[i].bytes
    BY <1>14 DEF TrapKept
  <2>4. trap.tick \in Nat /\ trap.tick < t /\ trap.bytes \in Nat
    BY <1>7, <1>11, <2>3 DEF Traps
  <2>5. trap'.tick \in Calling' /\ \A i \in Calling' : trap'.tick <= i
    BY <1>1, <1>6, <2>2, <2>3, <2>4
  <2>6. trap'.calls = asked'[trap'.tick].calls
    BY <1>3, <2>2, <2>3
  <2>7. trap'.bytes = 0 <=> Paying' = {}
    BY <1>4, <1>6, <2>2, <2>3, <2>4
  <2>8. ASSUME NEW i \in Paying', \A j \in Paying' : i <= j
        PROVE  trap'.bytes = asked'[i].bytes
    <3>1. CASE Paying = {}
      <4>1. i = t /\ trap.bytes = 0
        BY <1>6, <2>3, <2>8, <3>1
      <4> QED
        BY <1>3, <2>2, <4>1 DEF d
    <3>2. CASE Paying # {}
      <4>1. PICK j \in Paying : TRUE
        BY <3>2
      <4>2. j \in Paying' /\ j \in Nat /\ j < t /\ i <= j
        BY <1>6, <1>7, <2>8, <4>1
      <4>3. i # t
        BY <1>1, <4>2
      <4>4. i \in Paying /\ \A k \in Paying : i <= k
        BY <1>6, <2>8, <4>3
      <4>5. trap'.bytes = trap.bytes
        BY <2>2, <2>3, <3>2
      <4> QED
        BY <1>3, <2>3, <4>4, <4>5
    <3> QED
      BY <3>1, <3>2
  <2> QED
    BY <2>2, <2>3, <2>5, <2>6, <2>7, <2>8 DEF TrapKept
<1> QED
  <2>1. d.calls = 0 \/ d.calls > 0
    BY <1>4
  <2> QED
    BY <1>12, <1>13, <1>14, <2>1, Zenon

\* The trap of a run names the first measured tick in which project allocated, with its
\* own calls, and the first bytes (alloc_trap_* in bench_baselines.cpp:699-716).
THEOREM TrapNamesFirstTick == Spec => []TrapNamesFirst
<1>1. Init => TrapKept
  <2> SUFFICES ASSUME Init PROVE TrapKept
    OBVIOUS
  <2>1. Calling = {}
    <3>1. t = 0
      BY DEF Init
    <3>2. \A i \in Ticks : ~(i < 0)
      BY TickNumbers
    <3>3. Past = {}
      BY <3>1, <3>2, Zenon DEF Past
    <3> QED
      BY <3>3 DEF Calling
  <2>2. trap \in Traps /\ ~trap.triggered
    BY DEF Init, NoTrap, Traps
  <2> QED
    BY <2>1, <2>2 DEF TrapKept
<1>2. AInv /\ TrapKept /\ [Next]_vars => TrapKept'
  <2> SUFFICES ASSUME AInv, TrapKept, [Next]_vars PROVE TrapKept'
    OBVIOUS
  <2>1. ASSUME NEW k, NEW n, Request(k, n) PROVE TrapKept'
    <3>1. trap' = trap /\ t' = t
      BY <2>1 DEF Request
    <3>2. \A i \in Past : i # t /\ i \in Ticks
      BY TickNumbers DEF Past, AInv, Typed
    <3>3. \A i \in Past : asked'[i] = asked[i]
      BY <2>1, <3>2 DEF Request, AInv, Typed
    <3> QED
      BY <3>1, <3>3, TrapUntouched
  <2>2. CASE StartRun \/ EndWarmup \/ BeginProject \/ EndRun
    BY <2>2, TrapUntouched DEF StartRun, EndWarmup, BeginProject, EndRun, history
  <2>3. CASE EndProject
    BY <2>3, TrapTaken
  <2>4. CASE UNCHANGED vars
    BY <2>4, TrapUntouched DEF vars, history
  <2> QED
    BY <2>1, <2>2, <2>3, <2>4 DEF Next
<1>3. AInv /\ TrapKept => TrapNamesFirst
  <2> SUFFICES ASSUME AInv, TrapKept, ~projecting PROVE TrapNamesFirst
    BY DEF TrapNamesFirst
  <2>1. \A i \in Ticks : i \notin Past => asked[i] = Nothing
    BY TickNumbers DEF AInv, Typed, TicksCounted, Past
  <2>2. /\ Calling = {i \in Ticks : asked[i].calls > 0}
        /\ Paying = {i \in Ticks : asked[i].bytes > 0}
    BY <2>1 DEF Calling, Paying, Past, Nothing
  <2>3. trap.triggered /\ Paying = {} => trap.bytes = 0
    BY DEF TrapKept
  <2> QED
    BY <2>2, <2>3 DEF TrapKept, TrapNamesFirst
<1> QED
  BY <1>1, <1>2, <1>3, AllocInvariant, PTL DEF Spec
=============================================================================
