----------------------------- MODULE RateLimiter -----------------------------
(***************************************************************************)
(* The sliding window of the MCP tool servers (mcp-servers/shared):        *)
(* every tool call is charged to its correlation id before anything else   *)
(* is done for it.  check() reads the clock first and takes the lock       *)
(* afterwards.  The tool functions are coroutines of one event loop, so    *)
(* nothing runs between the two; with Threads the limiter is used from     *)
(* several threads, as its module comment allows.                          *)
(***************************************************************************)
EXTENDS Integers, Sequences, FiniteSets

CONSTANTS
    Ids,        \* correlation ids
    Callers,    \* tool calls under way at the same time
    MaxCalls,   \* max_calls
    Window,     \* window_seconds, in ticks of the clock
    Threads,    \* callers are threads, not coroutines of one event loop
    Horizon     \* bound: the clock stops here

ASSUME MaxCallsAssumption == MaxCalls \in Nat
ASSUME WindowAssumption == Window \in Nat
ASSUME ThreadsAssumption == Threads \in BOOLEAN
ASSUME HorizonAssumption == Horizon \in Nat

VARIABLES
    clock,      \* time.monotonic(), in ticks
    calls,      \* _calls: the times recorded for each id
    call,       \* where each caller is in run_tool, and the time it read
    admitted    \* history: the times of all calls admitted since the last reset

vars == <<clock, calls, call, admitted>>

Call == [pc: {"idle", "checking", "admitted", "rejected"},
         id: Ids \cup {"none"},
         now: Nat]

Idle == [pc |-> "idle", id |-> "none", now |-> 0]

Init ==
    /\ clock = 0
    /\ calls = [i \in Ids |-> <<>>]
    /\ call = [c \in Callers |-> Idle]
    /\ admitted = [i \in Ids |-> <<>>]

\* Nothing else runs on the event loop between two awaits.
MayRun == Threads \/ \A c \in Callers : call[c].pc # "checking"

(***************************************************************************)
(* check                                                                   *)
(***************************************************************************)
Begin(c, i) ==
    /\ call[c].pc = "idle"
    /\ MayRun
    /\ call' = [call EXCEPT ![c] = [pc |-> "checking", id |-> i, now |-> clock]]
    /\ UNCHANGED <<clock, calls, admitted>>

\* Variant: an entry exactly one window old is kept.
EvictsOnlyOlder(w, cutoff, n) ==
    /\ \A k \in 1 .. n : w[k] < cutoff
    /\ n < Len(w) => w[n + 1] >= cutoff

\* Variant: an entry leaves one tick before its window has passed.
EvictsEarly(w, cutoff, n) ==
    /\ \A k \in 1 .. n : w[k] <= cutoff + 1
    /\ n < Len(w) => w[n + 1] > cutoff + 1

\* The loop drops n entries from the head: all of them old, the next one not.
Evicts(w, cutoff, n) ==
    /\ \A k \in 1 .. n : w[k] <= cutoff
    /\ n < Len(w) => w[n + 1] > cutoff

Live(w, cutoff) ==
    LET n == CHOOSE n \in 0 .. Len(w) : Evicts(w, cutoff, n)
    IN  SubSeq(w, n + 1, Len(w))

LiveFor(c) == Live(calls[call[c].id], call[c].now - Window)

\* Variant: the ceiling is off by one.
LeavesOneMore(w) == Len(w) <= MaxCalls

LeavesRoom(w) == Len(w) < MaxCalls

Admit(c) ==
    /\ call[c].pc = "checking"
    /\ LeavesRoom(LiveFor(c))
    /\ calls' = [calls EXCEPT ![call[c].id] = Append(LiveFor(c), call[c].now)]
    /\ admitted' = [admitted EXCEPT ![call[c].id] = Append(@, call[c].now)]
    /\ call' = [call EXCEPT ![c].pc = "admitted"]
    /\ UNCHANGED clock

Reject(c) ==
    /\ call[c].pc = "checking"
    /\ ~LeavesRoom(LiveFor(c))
    /\ calls' = [calls EXCEPT ![call[c].id] = LiveFor(c)]
    /\ call' = [call EXCEPT ![c].pc = "rejected"]
    /\ UNCHANGED <<clock, admitted>>

\* The rest of run_tool: a rejected call returns at once, an admitted one
\* after its guardrails and its REST call.
Return(c) ==
    /\ call[c].pc \in {"admitted", "rejected"}
    /\ MayRun
    /\ call' = [call EXCEPT ![c] = Idle]
    /\ UNCHANGED <<clock, calls, admitted>>

(***************************************************************************)
(* reset, for some ids or for all                                          *)
(***************************************************************************)
Reset(S) ==
    /\ MayRun
    /\ calls' = [i \in Ids |-> IF i \in S THEN <<>> ELSE calls[i]]
    /\ admitted' = [i \in Ids |-> IF i \in S THEN <<>> ELSE admitted[i]]
    /\ UNCHANGED <<clock, call>>

ResetOne == \E i \in Ids : Reset({i})

ResetAll == Reset(Ids)

Tick ==
    /\ clock < Horizon
    /\ clock' = clock + 1
    /\ UNCHANGED <<calls, call, admitted>>

Next ==
    \/ \E c \in Callers :
        \/ \E i \in Ids : Begin(c, i)
        \/ Admit(c)
        \/ Reject(c)
        \/ Return(c)
    \/ ResetOne
    \/ ResetAll
    \/ Tick

Spec == Init /\ [][Next]_vars

(***************************************************************************)
(* Properties                                                              *)
(***************************************************************************)
\* Every variable has its type, and no window holds more than max_calls
\* entries, so the memory of an id is bounded (check, RateLimiter.__init__).
TypeOK ==
    /\ clock \in 0 .. Horizon
    /\ calls \in [Ids -> Seq(Nat)]
    /\ admitted \in [Ids -> Seq(Nat)]
    /\ call \in [Callers -> Call]
    /\ \A c \in Callers : call[c].pc # "idle" => call[c].id \in Ids
    /\ \A i \in Ids : Len(calls[i]) <= MaxCalls

\* The admitted calls of an id whose time lies in the window that ends at t.
InWindow(i, t) ==
    {k \in DOMAIN admitted[i] : t - Window < admitted[i][k] /\ admitted[i][k] <= t}

\* Whatever window one looks at, whether or not a check was made at its end,
\* no more than max_calls calls of one correlation id were admitted in it: the
\* REST services are protected from an agent that loops (check).
Ceiling ==
    \A i \in Ids, t \in 0 .. Horizon : Cardinality(InWindow(i, t)) <= MaxCalls

\* A call is rejected only when max_calls calls were really admitted in the
\* window that ends at it: rejected calls, calls of other ids and calls that
\* have left the window are never held against an id (check).
RejectsOnlyAtCeiling ==
    [][\A c \in Callers :
         (call[c].pc = "checking" /\ call'[c].pc = "rejected")
         => Cardinality(InWindow(call[c].id, call[c].now)) >= MaxCalls]_vars

=============================================================================
