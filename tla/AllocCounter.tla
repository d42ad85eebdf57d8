---------------------------- MODULE AllocCounter ----------------------------
(***************************************************************************)
(* The allocation counters (src/src/alloc_counter.cpp) and the accounting  *)
(* that bench_baselines builds on them for gate G5: the counters are       *)
(* global and see every request of the program, the gate is about those    *)
(* made inside project in a measured tick, told apart by a snapshot before *)
(* and one after the call.                                                 *)
(*                                                                         *)
(* The program may make any wrapped request at any time; the number of     *)
(* counted requests is bounded by MaxRequests.  It has one thread.         *)
(***************************************************************************)
EXTENDS Integers

CONSTANTS
    Sizes,                   \* byte counts of a request, after nmemb * nbytes
    LatencyTicks, FeasTicks, \* latency_ticks, feas_ticks
    MaxRequests

ASSUME AllocAssumption ==
    /\ Sizes \subseteq Nat
    /\ LatencyTicks \in Nat
    /\ FeasTicks \in Nat
    /\ MaxRequests \in Nat

VARIABLES
    enabled, counters,   \* the globals of alloc_counter.cpp
    phase,               \* "setup", "warmup", "measured" or "done"
    t,                   \* the measured tick
    projecting,          \* between the snapshots of tick t
    before, afterWarmup, \* snapshots
    loop,                \* alloc_calls_ and bytes_allocated_during_project_loop
    trap,                \* alloc_trap_*
    total,               \* alloc_calls_ and alloc_bytes_total_after_warmup
    inside, asked, around \* history: what was requested inside project in measured ticks,
                         \* by tick, and what elsewhere since the warmup

history == <<inside, asked, around>>
vars    == <<enabled, counters, phase, t, projecting, before, afterWarmup, loop, trap, total,
             history>>

AllocKinds == {"malloc", "calloc", "realloc", "new"}
FreeKinds  == {"free", "delete"}

MeasuredTicks == IF LatencyTicks > FeasTicks THEN LatencyTicks ELSE FeasTicks
Ticks         == 0 .. MeasuredTicks - 1

Nothing  == [calls |-> 0, bytes |-> 0]
NoTrap   == [triggered |-> FALSE, phase |-> "", tick |-> 0, calls |-> 0, bytes |-> 0]
Zeroed   == [calls |-> [k \in AllocKinds \cup FreeKinds |-> 0], bytes |-> 0]

Plus(x, y) == [calls |-> x.calls + y.calls, bytes |-> x.bytes + y.bytes]

-----------------------------------------------------------------------------

\* Bug: operator new is counted again by the malloc that serves it.
NotedTwice(c, k, n) ==
    IF ~enabled THEN c
    ELSE [calls |-> [j \in DOMAIN c.calls |->
                        IF j = k \/ (k = "new" /\ j = "malloc") THEN c.calls[j] + 1
                        ELSE c.calls[j]],
          bytes |-> c.bytes + (IF k \in AllocKinds THEN n ELSE 0)]

\* alloc_counter_note_*: operator new takes its memory from __real_malloc, which no
\* wrapper counts.
Noted(c, k, n) ==
    IF ~enabled THEN c
    ELSE [calls |-> [c.calls EXCEPT ![k] = @ + 1],
          bytes |-> c.bytes + (IF k \in AllocKinds THEN n ELSE 0)]

\* A snapshot's alloc_calls_total() and bytes_allocated.
Allocated(c) ==
    [calls |-> c.calls["malloc"] + c.calls["calloc"] + c.calls["realloc"] + c.calls["new"],
     bytes |-> c.bytes]

\* What was allocated between two snapshots; a difference below zero counts as none.
Since(earlier, later) ==
    LET x == Allocated(earlier)
        y == Allocated(later)
    IN  [calls |-> IF y.calls >= x.calls THEN y.calls - x.calls ELSE 0,
         bytes |-> IF y.bytes >= x.bytes THEN y.bytes - x.bytes ELSE 0]

\* Bug: the trap is set again by every later tick.
TrapAgain(delta) ==
    LET set == IF delta.calls > 0
               THEN [triggered |-> TRUE,
                     phase |-> IF t < LatencyTicks THEN "latency" ELSE "feas",
                     tick |-> t, calls |-> delta.calls, bytes |-> 0]
               ELSE trap
    IN  IF set.triggered /\ set.bytes = 0 THEN [set EXCEPT !.bytes = delta.bytes] ELSE set

\* The trap keeps the first tick whose project allocated, and the first bytes from then on.
Trapped(delta) ==
    LET set == IF ~trap.triggered /\ delta.calls > 0
               THEN [triggered |-> TRUE,
                     phase |-> IF t < LatencyTicks THEN "latency" ELSE "feas",
                     tick |-> t, calls |-> delta.calls, bytes |-> 0]
               ELSE trap
    IN  IF set.triggered /\ set.bytes = 0 THEN [set EXCEPT !.bytes = delta.bytes] ELSE set

-----------------------------------------------------------------------------

Init ==
    /\ enabled = FALSE
    /\ counters = Zeroed
    /\ phase = "setup"
    /\ t = 0
    /\ projecting = FALSE
    /\ before = Zeroed
    /\ afterWarmup = Zeroed
    /\ loop = Nothing
    /\ trap = NoTrap
    /\ total = Nothing
    /\ inside = Nothing
    /\ asked = [i \in Ticks |-> Nothing]
    /\ around = Nothing

\* The requests and frees that are counted: what MaxRequests bounds.
CountedRequests == Allocated(counters).calls + counters.calls["free"] + counters.calls["delete"]

\* The wrappers and the replaced operators: a request of n bytes, or a free.
Request(k, n) ==
    /\ CountedRequests < MaxRequests
    /\ counters' = Noted(counters, k, n)
    /\ LET one == IF k \in AllocKinds THEN [calls |-> 1, bytes |-> n] ELSE Nothing
       IN  /\ inside' = IF projecting THEN Plus(inside, one) ELSE inside
           /\ asked' = IF projecting THEN [asked EXCEPT ![t] = Plus(@, one)] ELSE asked
           /\ around' = IF phase = "measured" /\ ~projecting THEN Plus(around, one) ELSE around
    /\ UNCHANGED <<enabled, phase, t, projecting, before, afterWarmup, loop, trap, total>>

\* alloc_counter_reset and alloc_counter_set_enabled(true), before the warmup
StartRun ==
    /\ phase = "setup"
    /\ phase' = "warmup"
    /\ counters' = Zeroed
    /\ enabled' = TRUE
    /\ UNCHANGED <<t, projecting, before, afterWarmup, loop, trap, total, history>>

EndWarmup ==
    /\ phase = "warmup"
    /\ phase' = "measured"
    /\ afterWarmup' = counters
    /\ UNCHANGED <<enabled, counters, t, projecting, before, loop, trap, total, history>>

\* Bug: the snapshot before the call is the one taken for the previous tick.
BeginWithOldSnapshot ==
    /\ phase = "measured"
    /\ ~projecting
    /\ t < MeasuredTicks
    /\ before' = IF t = 0 THEN counters ELSE before
    /\ projecting' = TRUE
    /\ UNCHANGED <<enabled, counters, phase, t, afterWarmup, loop, trap, total, history>>

BeginProject ==
    /\ phase = "measured"
    /\ ~projecting
    /\ t < MeasuredTicks
    /\ before' = counters
    /\ projecting' = TRUE
    /\ UNCHANGED <<enabled, counters, phase, t, afterWarmup, loop, trap, total, history>>

EndProject ==
    /\ projecting
    /\ LET delta == Since(before, counters)
       IN  /\ loop' = Plus(loop, delta)
           /\ trap' = Trapped(delta)
    /\ projecting' = FALSE
    /\ t' = t + 1
    /\ UNCHANGED <<enabled, counters, phase, before, afterWarmup, total, history>>

EndRun ==
    /\ phase = "measured"
    /\ ~projecting
    /\ t = MeasuredTicks
    /\ phase' = "done"
    /\ enabled' = FALSE
    /\ total' = Since(afterWarmup, counters)
    /\ UNCHANGED <<counters, t, projecting, before, afterWarmup, loop, trap, history>>

Next ==
    \/ \E k \in AllocKinds, n \in Sizes : Request(k, n)
    \/ \E k \in FreeKinds : Request(k, 0)
    \/ StartRun
    \/ EndWarmup
    \/ BeginProject
    \/ EndProject
    \/ EndRun

Spec == Init /\ [][Next]_vars

\* gates.G5_pass
G5Pass == loop.calls = 0 /\ loop.bytes = 0

-----------------------------------------------------------------------------
\* Properties.

\* Gate G5 judges project and nothing else: between two calls the sums of the loop are
\* exactly what was requested inside project in measured ticks, whatever the stream, the
\* scans and the sample rows request around it, before it or in the warmup; so G5 passes
\* exactly when project requested nothing.
LoopCountsProject ==
    ~projecting => /\ loop = inside
                   /\ G5Pass <=> \A i \in Ticks : asked[i].calls = 0

\* The trap names the first measured tick in which project allocated, with its phase and
\* its number of calls; its bytes are those of the first such tick that asked for any,
\* which is a later one when the first asked for zero bytes only.
TrapNamesFirst ==
    ~projecting =>
        LET calling == {i \in Ticks : asked[i].calls > 0}
            paying  == {i \in Ticks : asked[i].bytes > 0}
        IN  /\ trap.triggered <=> calling # {}
            /\ trap.triggered =>
                /\ trap.tick \in calling
                /\ \A i \in calling : trap.tick <= i
                /\ trap.calls = asked[trap.tick].calls
                /\ trap.phase = "latency" <=> trap.tick < LatencyTicks
                /\ paying = {} => trap.bytes = 0
                /\ \A i \in paying : (\A j \in paying : i <= j) => trap.bytes = asked[i].bytes

\* The totals of the summary split into what project requested and what the rest of
\* the measured phases did; nothing of the warmup is in them.
TotalsSplit ==
    phase = "done" => total = Plus(inside, around)
=============================================================================
