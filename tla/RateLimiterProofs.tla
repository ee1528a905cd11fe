-------------------------- MODULE RateLimiterProofs --------------------------
(***************************************************************************)
(* Theorems about RateLimiter for any ceiling, window, ids and callers: on *)
(* an event loop the recorded times are exactly what is needed to keep the *)
(* ceiling over every window, and nothing is rejected below it.            *)
(***************************************************************************)
EXTENDS RateLimiter, FiniteSetTheorems, WellFoundedInduction, TLAPS

LEMMA LeastNatural ==
    ASSUME NEW S, S \subseteq Nat, S # {}
    PROVE  \E m \in S : \A k \in S : m <= k
  <1> DEFINE R == {ss \in Nat \X Nat : ss[1] < ss[2]}
  <1>1. IsWellFoundedOn(R, Nat)
    BY NatLessThanWellFounded DEF OpToRel
  <1>2. PICK m \in S : \A k \in S : ~(<<k, m>> \in R)
    <2> HIDE DEF R
    <2> QED BY <1>1, WFMin
  <1>3. ASSUME NEW k \in S PROVE m <= k
    <2>1. k \in Nat /\ m \in Nat
      OBVIOUS
    <2>2. <<k, m>> \in Nat \X Nat /\ <<k, m>>[1] = k /\ <<k, m>>[2] = m
      BY <2>1
    <2>3. ~(k < m)
      BY <1>2, <2>2
    <2> QED BY <2>1, <2>3
  <1> QED BY <1>3

\* The eviction loop ends: some prefix is what it drops.
LEMMA EvictionEnds ==
    ASSUME NEW w \in Seq(Nat), NEW cutoff \in Int
    PROVE  \E n \in 0 .. Len(w) :
               Evicts(w, cutoff, n) /\ Live(w, cutoff) = SubSeq(w, n + 1, Len(w))
  <1> DEFINE D == {k \in 0 .. Len(w) : k < Len(w) => w[k + 1] > cutoff}
  <1>1. D \subseteq Nat /\ Len(w) \in D
    OBVIOUS
  <1>2. PICK n \in D : \A k \in D : n <= k
    BY <1>1, LeastNatural
  <1>3. ASSUME NEW k \in 1 .. n PROVE w[k] <= cutoff
    <2>1. k - 1 \notin D
      <3>1. n \in Nat /\ k \in Nat /\ ~(n <= k - 1)
        OBVIOUS
      <3> QED BY <1>2, <3>1
    <2>2. n \in 0 .. Len(w) /\ k \in 1 .. Len(w)
      OBVIOUS
    <2>3. w[k] \in Nat /\ k - 1 \in 0 .. Len(w) /\ (k - 1) + 1 = k /\ k - 1 < Len(w)
      BY <2>2
    <2>4. ~(w[k] > cutoff)
      BY <2>1, <2>3
    <2> QED BY <2>3, <2>4
  <1>4. Evicts(w, cutoff, n)
    BY <1>3 DEF Evicts
  <1>5. \E k \in 0 .. Len(w) : Evicts(w, cutoff, k)
    BY <1>4
  <1> QED BY <1>5 DEF Live

LEMMA LiveIsShorter ==
    ASSUME NEW w \in Seq(Nat), NEW cutoff \in Int
    PROVE  Live(w, cutoff) \in Seq(Nat) /\ Len(Live(w, cutoff)) <= Len(w)
  <1>1. PICK n \in 0 .. Len(w) : Live(w, cutoff) = SubSeq(w, n + 1, Len(w))
    BY EvictionEnds
  <1> QED BY <1>1

(***************************************************************************)
(* Types                                                                   *)
(***************************************************************************)
LEMMA TypeOKKept == TypeOK /\ [Next]_vars => TypeOK'
  <1> SUFFICES ASSUME TypeOK, [Next]_vars PROVE TypeOK'
    OBVIOUS
  <1> USE MaxCallsAssumption, WindowAssumption, HorizonAssumption DEF TypeOK, Call
  <1>1. ASSUME NEW c \in Callers, NEW i \in Ids, Begin(c, i) PROVE TypeOK'
    BY <1>1 DEF Begin
  <1>2. ASSUME NEW c \in Callers, call[c].pc = "checking"
        PROVE  /\ call[c].id \in Ids /\ call[c].now \in Nat
               /\ LiveFor(c) \in Seq(Nat)
               /\ Len(LiveFor(c)) <= MaxCalls
    <2>1. call[c].id \in Ids /\ call[c].now \in Nat
      BY <1>2
    <2>2. calls[call[c].id] \in Seq(Nat) /\ call[c].now - Window \in Int
      BY <2>1
    <2> QED BY <2>1, <2>2, LiveIsShorter DEF LiveFor
  <1>3. ASSUME NEW c \in Callers, Admit(c) PROVE TypeOK'
    <2>1. call[c].pc = "checking" /\ Len(LiveFor(c)) < MaxCalls
      BY <1>3 DEF Admit, LeavesRoom
    <2>2. /\ call[c].id \in Ids /\ call[c].now \in Nat
          /\ Append(LiveFor(c), call[c].now) \in Seq(Nat)
          /\ Len(Append(LiveFor(c), call[c].now)) <= MaxCalls
      BY <1>2, <2>1
    <2> HIDE DEF Call
    <2>3. /\ calls' \in [Ids -> Seq(Nat)] /\ admitted' \in [Ids -> Seq(Nat)]
          /\ \A i \in Ids : Len(calls'[i]) <= MaxCalls
      BY <1>3, <2>2 DEF Admit
    <2>4. call' \in [Callers -> Call] /\ \A d \in Callers : call'[d].id = call[d].id
      BY <1>3 DEF Admit, Call
    <2>5. \A d \in Callers : call'[d].pc # "idle" => call[d].pc # "idle"
      BY <1>3, <2>1 DEF Admit, Call
    <2> QED BY <1>3, <2>3, <2>4, <2>5 DEF Admit
  <1>4. ASSUME NEW c \in Callers, Reject(c) PROVE TypeOK'
    BY <1>2, <1>4 DEF Reject
  <1>5. ASSUME NEW c \in Callers, Return(c) PROVE TypeOK'
    BY <1>5 DEF Return, Idle
  <1>6. ASSUME NEW S, Reset(S) PROVE TypeOK'
    BY <1>6 DEF Reset
  <1>7. ASSUME Tick PROVE TypeOK'
    BY <1>7 DEF Tick
  <1>8. ASSUME UNCHANGED vars PROVE TypeOK'
    BY <1>8 DEF vars
  <1> QED
    BY <1>1, <1>3, <1>4, <1>5, <1>6, <1>7, <1>8 DEF Next, ResetOne, ResetAll

LEMMA InitTypeOK == Init => TypeOK
  BY MaxCallsAssumption, HorizonAssumption DEF Init, TypeOK, Call, Idle

\* Every state is well typed and the memory of an id never exceeds the
\* ceiling, with threads as well as on an event loop.
THEOREM TypeCorrect == Spec => []TypeOK
  BY InitTypeOK, TypeOKKept, PTL DEF Spec

(***************************************************************************)
(* The recorded times w of an id against all its admitted times a.         *)
(***************************************************************************)
InOrder(a) == \A j, k \in 1 .. Len(a) : j <= k => a[j] <= a[k]

\* Any call and the one MaxCalls later are a whole window apart.
Spaced(a) == \A k \in 1 .. Len(a) : k + MaxCalls <= Len(a) => a[k] + Window <= a[k + MaxCalls]

\* How many admitted calls are no longer recorded.
Past(w, a) == Len(a) - Len(w)

IsTail(w, a) ==
    /\ Len(w) <= Len(a)
    /\ \A k \in 1 .. Len(w) : w[k] = a[Past(w, a) + k]

\* A caller that reads the time t sees no later call, and what is no longer
\* recorded has left its window.
Reached(w, a, t) ==
    /\ \A k \in 1 .. Len(a) : a[k] <= t
    /\ \A k \in 1 .. Past(w, a) : a[k] <= t - Window

LEMMA EvictionKeeps ==
    ASSUME NEW w \in Seq(Nat), NEW a \in Seq(Nat), NEW t \in Nat,
           InOrder(a), IsTail(w, a), Reached(w, a, t)
    PROVE  LET live == Live(w, t - Window)
           IN  /\ live \in Seq(Nat)
               /\ IsTail(live, a)
               /\ Reached(live, a, t)
               /\ \A k \in Past(live, a) + 1 .. Len(a) : t - Window < a[k]
  <1> DEFINE live == Live(w, t - Window)
  <1>1. t - Window \in Int
    BY WindowAssumption
  <1>2. PICK n \in 0 .. Len(w) :
            Evicts(w, t - Window, n) /\ live = SubSeq(w, n + 1, Len(w))
    BY <1>1, EvictionEnds
  <1> HIDE DEF live
  <1>3. /\ live \in Seq(Nat)
        /\ Len(live) = Len(w) - n
        /\ \A k \in 1 .. Len(live) : live[k] = w[n + k]
    <2>1. n + 1 \in 1 .. Len(w) + 1 /\ live = SubSeq(w, n + 1, Len(w))
      BY <1>2
    <2>2. \A k \in (n + 1) .. Len(w) : w[k] \in Nat
      BY <1>2
    <2>3. live \in Seq(Nat) /\ Len(live) = Len(w) - n
      BY <2>1, <2>2
    <2>4. \A k \in 1 .. Len(live) : live[k] = w[(n + 1) + k - 1]
      BY <2>1, <2>3
    <2> QED BY <2>3, <2>4, SMTT(30)
  <1>4. Past(live, a) = Past(w, a) + n
    BY <1>3 DEF Past
  <1>5. IsTail(live, a)
    BY <1>3, <1>4, SMTT(30) DEF IsTail, Past
  <1>6. ASSUME NEW k \in 1 .. Past(live, a) PROVE a[k] <= t - Window
    <2>1. CASE k <= Past(w, a)
      <3>1. k \in 1 .. Past(w, a)
        BY <2>1 DEF Past
      <3> QED BY <3>1 DEF Reached
    <2>2. CASE k > Past(w, a)
      <3>1. k - Past(w, a) \in 1 .. n /\ k - Past(w, a) \in 1 .. Len(w)
        BY <1>4, <2>2, SMTT(30) DEF Past, IsTail
      <3>2. /\ w[k - Past(w, a)] = a[Past(w, a) + (k - Past(w, a))]
            /\ Past(w, a) + (k - Past(w, a)) = k
        BY <3>1 DEF IsTail, Past
      <3> QED BY <1>2, <3>1, <3>2 DEF Evicts
    <2> QED BY <1>4, <2>1, <2>2 DEF Past
  <1>7. ASSUME NEW k \in Past(live, a) + 1 .. Len(a) PROVE t - Window < a[k]
    <2>1. /\ n < Len(w) /\ n + 1 \in 1 .. Len(w)
          /\ Past(w, a) + (n + 1) \in 1 .. Len(a) /\ Past(w, a) + (n + 1) <= k
          /\ k \in 1 .. Len(a)
      BY <1>4 DEF Past, IsTail
    <2>2. w[n + 1] > t - Window /\ w[n + 1] = a[Past(w, a) + (n + 1)]
      BY <1>2, <2>1 DEF Evicts, IsTail
    <2>3. a[Past(w, a) + (n + 1)] <= a[k]
      BY <2>1 DEF InOrder
    <2>4. a[k] \in Nat /\ w[n + 1] \in Nat
      BY <2>1, SMTT(30)
    <2> QED BY <1>1, <2>2, <2>3, <2>4, SMTT(30)
  <1> QED BY <1>3, <1>5, <1>6, <1>7 DEF Reached, live

LEMMA AdmissionKeeps ==
    ASSUME NEW w \in Seq(Nat), NEW a \in Seq(Nat), NEW t \in Nat,
           InOrder(a), Spaced(a), IsTail(w, a), Reached(w, a, t), LeavesRoom(w)
    PROVE  /\ InOrder(Append(a, t))
           /\ Spaced(Append(a, t))
           /\ IsTail(Append(w, t), Append(a, t))
           /\ Reached(Append(w, t), Append(a, t), t)
  <1> USE WindowAssumption, MaxCallsAssumption
  <1> DEFINE b == Append(a, t)
             v == Append(w, t)
  <1>1. /\ b \in Seq(Nat) /\ Len(b) = Len(a) + 1
        /\ \A k \in 1 .. Len(a) : b[k] = a[k]
        /\ b[Len(a) + 1] = t
    OBVIOUS
  <1>2. /\ v \in Seq(Nat) /\ Len(v) = Len(w) + 1
        /\ \A k \in 1 .. Len(w) : v[k] = w[k]
        /\ v[Len(w) + 1] = t
    OBVIOUS
  <1> HIDE DEF b, v
  <1>3. Past(v, b) = Past(w, a)
    BY <1>1, <1>2 DEF Past
  <1>4. InOrder(b)
    <2> SUFFICES ASSUME NEW j \in 1 .. Len(b), NEW k \in 1 .. Len(b), j <= k
                 PROVE  b[j] <= b[k]
      BY DEF InOrder
    <2>1. CASE k \in 1 .. Len(a)
      <3>1. j \in 1 .. Len(a)
        BY <2>1
      <3> QED BY <1>1, <2>1, <3>1 DEF InOrder
    <2>2. CASE k = Len(a) + 1 /\ j \in 1 .. Len(a)
      BY <1>1, <2>2 DEF Reached
    <2>3. CASE k = Len(a) + 1 /\ j = Len(a) + 1
      BY <1>1, <2>3
    <2> QED BY <1>1, <2>1, <2>2, <2>3
  <1>5. Spaced(b)
    <2> SUFFICES ASSUME NEW k \in 1 .. Len(b), k + MaxCalls <= Len(b)
                 PROVE  b[k] + Window <= b[k + MaxCalls]
      BY DEF Spaced
    <2>1. MaxCalls > Len(w)
      BY DEF LeavesRoom
    <2>2. CASE k + MaxCalls \in 1 .. Len(a)
      <3>1. k \in 1 .. Len(a)
        BY <1>1, <2>2
      <3>2. a[k] + Window <= a[k + MaxCalls]
        BY <2>2, <3>1 DEF Spaced
      <3> QED BY <1>1, <2>2, <3>1, <3>2
    <2>3. CASE k + MaxCalls = Len(a) + 1
      <3>1. k \in 1 .. Past(w, a) /\ k \in 1 .. Len(a)
        BY <2>1, <2>3 DEF Past, IsTail
      <3>2. a[k] <= t - Window
        BY <3>1 DEF Reached
      <3>3. b[k] = a[k] /\ a[k] \in Nat /\ b[k + MaxCalls] = t
        BY <1>1, <2>3, <3>1, SMTT(30)
      <3> QED BY <3>2, <3>3
    <2>4. k + MaxCalls \in 1 .. Len(a) + 1
      BY <1>1
    <2> QED BY <2>2, <2>3, <2>4
  <1>6. IsTail(v, b)
    <2>1. ASSUME NEW k \in 1 .. Len(v) PROVE v[k] = b[Past(v, b) + k]
      <3>1. CASE k \in 1 .. Len(w)
        <4>1. Past(w, a) + k \in 1 .. Len(a) /\ w[k] = a[Past(w, a) + k]
          BY <3>1 DEF Past, IsTail
        <4> QED BY <1>1, <1>2, <1>3, <3>1, <4>1
      <3>2. CASE k = Len(w) + 1
        BY <1>1, <1>2, <1>3, <3>2 DEF Past
      <3> QED BY <1>2, <3>1, <3>2
    <2> QED BY <1>1, <1>2, <2>1 DEF IsTail
  <1>7. Reached(v, b, t)
    <2>1. ASSUME NEW k \in 1 .. Len(b) PROVE b[k] <= t
      <3>1. k \in 1 .. Len(a) \/ k = Len(a) + 1
        BY <1>1
      <3> QED BY <1>1, <3>1, SMTT(30) DEF Reached
    <2>2. \A k \in 1 .. Past(v, b) : b[k] <= t - Window
      <3> SUFFICES ASSUME NEW k \in 1 .. Past(w, a) PROVE b[k] <= t - Window
        BY <1>3
      <3>1. k \in 1 .. Len(a)
        BY DEF Past
      <3> QED BY <1>1, <3>1 DEF Reached
    <2> QED BY <2>1, <2>2 DEF Reached
  <1> QED BY <1>4, <1>5, <1>6, <1>7 DEF b, v

(***************************************************************************)
(* The invariant on an event loop                                          *)
(***************************************************************************)
Checking(c) == call[c].pc = "checking"

OneAtATime == \A c, d \in Callers : Checking(c) /\ Checking(d) => c = d

Books(i) ==
    /\ InOrder(admitted[i])
    /\ Spaced(admitted[i])
    /\ IsTail(calls[i], admitted[i])
    /\ Reached(calls[i], admitted[i], clock)

\* Nothing happens to the books between a caller's two looks at the clock.
ReadTime(c) ==
    Checking(c) =>
        /\ call[c].now <= clock
        /\ \A i \in Ids : Reached(calls[i], admitted[i], call[c].now)

WindowInv ==
    /\ OneAtATime
    /\ \A i \in Ids : Books(i)
    /\ \A c \in Callers : ReadTime(c)

LEMMA InitWindow == Init => WindowInv
  BY HorizonAssumption, MaxCallsAssumption, WindowAssumption
  DEF Init, WindowInv, OneAtATime, Checking, Books, ReadTime, Idle,
      InOrder, Spaced, IsTail, Reached, Past

\* Later times are reached as well.
LEMMA ReachedLater ==
    ASSUME NEW w \in Seq(Nat), NEW a \in Seq(Nat), NEW t \in Nat, NEW u \in Nat,
           Reached(w, a, t), t <= u, IsTail(w, a)
    PROVE  Reached(w, a, u)
  <1>1. \A k \in 1 .. Len(a) : a[k] \in Nat
    OBVIOUS
  <1>2. \A k \in 1 .. Past(w, a) : k \in 1 .. Len(a)
    BY DEF Past, IsTail
  <1> QED BY <1>1, <1>2, WindowAssumption, SMTT(30) DEF Reached

\* What the books of the checked id are once the old entries are dropped.
LEMMA CheckSees ==
    ASSUME TypeOK, WindowInv, NEW c \in Callers, Checking(c)
    PROVE  LET i == call[c].id
               w == LiveFor(c)
               t == call[c].now
           IN  /\ i \in Ids /\ w \in Seq(Nat) /\ t \in Nat /\ t <= clock /\ clock \in Nat
               /\ calls[i] \in Seq(Nat) /\ admitted[i] \in Seq(Nat)
               /\ InOrder(admitted[i]) /\ Spaced(admitted[i])
               /\ IsTail(w, admitted[i]) /\ Reached(w, admitted[i], t)
               /\ \A k \in Past(w, admitted[i]) + 1 .. Len(admitted[i]) :
                      t - Window < admitted[i][k]
  <1> DEFINE i == call[c].id
             t == call[c].now
  <1>1. /\ i \in Ids /\ t \in Nat /\ clock \in Nat
        /\ calls[i] \in Seq(Nat) /\ admitted[i] \in Seq(Nat)
    BY HorizonAssumption DEF TypeOK, Call, Checking
  <1>2. /\ InOrder(admitted[i]) /\ Spaced(admitted[i]) /\ IsTail(calls[i], admitted[i])
        /\ Reached(calls[i], admitted[i], t) /\ t <= clock
    BY <1>1 DEF WindowInv, Books, ReadTime
  <1> QED BY <1>1, <1>2, EvictionKeeps DEF LiveFor

\* A check leaves the books of every id in order.
LEMMA CheckKeeps ==
    ASSUME TypeOK, WindowInv, NEW c \in Callers, Admit(c) \/ Reject(c)
    PROVE  WindowInv'
  <1> DEFINE w == LiveFor(c)
             t == call[c].now
  <1>1. Checking(c)
    BY DEF Admit, Reject, Checking
  <1> PICK i \in Ids : i = call[c].id
    BY <1>1, CheckSees
  <1>2. /\ w \in Seq(Nat) /\ t \in Nat /\ t <= clock /\ clock \in Nat
        /\ admitted[i] \in Seq(Nat)
        /\ InOrder(admitted[i]) /\ Spaced(admitted[i])
        /\ IsTail(w, admitted[i]) /\ Reached(w, admitted[i], t)
    BY <1>1, CheckSees
  <1>3. \A d \in Callers : ~Checking(d)'
    BY <1>1, ZenonT(60) DEF WindowInv, OneAtATime, Checking, Admit, Reject, TypeOK, Call
  <1>4. clock' = clock
    BY DEF Admit, Reject
  <1>5. /\ InOrder(admitted'[i]) /\ Spaced(admitted'[i])
        /\ IsTail(calls'[i], admitted'[i]) /\ Reached(calls'[i], admitted'[i], t)
        /\ calls'[i] \in Seq(Nat) /\ admitted'[i] \in Seq(Nat)
    <2>1. CASE Admit(c)
      <3>1. calls'[i] = Append(w, t) /\ admitted'[i] = Append(admitted[i], t)
        BY <1>2, <2>1 DEF Admit, TypeOK
      <3>2. LeavesRoom(w)
        BY <2>1 DEF Admit
      <3> HIDE DEF w, t
      <3> QED BY <1>2, <3>1, <3>2, AdmissionKeeps
    <2>2. CASE Reject(c)
      <3>1. calls'[i] = w /\ admitted'[i] = admitted[i]
        BY <1>2, <2>2 DEF Reject, TypeOK
      <3> QED BY <1>2, <3>1
    <2> QED BY <2>1, <2>2
  <1>6. Books(i)'
    <2>1. Reached(calls'[i], admitted'[i], clock)
      <3> HIDE DEF w, t
      <3> QED BY <1>2, <1>5, ReachedLater
    <2> QED BY <1>4, <1>5, <2>1 DEF Books
  <1>7. ASSUME NEW j \in Ids, j # i PROVE Books(j)'
    <2>1. calls'[j] = calls[j] /\ admitted'[j] = admitted[j]
      BY <1>7 DEF Admit, Reject, TypeOK
    <2> QED BY <1>4, <2>1 DEF WindowInv, Books
  <1> QED BY <1>3, <1>6, <1>7 DEF WindowInv, OneAtATime, ReadTime

LEMMA WindowKept ==
    ASSUME Threads = FALSE, TypeOK, WindowInv, [Next]_vars
    PROVE  WindowInv'
  <1> USE DEF MayRun, Checking
  <1>1. ASSUME NEW c \in Callers, NEW i \in Ids, Begin(c, i) PROVE WindowInv'
    <2>1. /\ calls' = calls /\ admitted' = admitted /\ clock' = clock
          /\ call'[c].now = clock /\ \A d \in Callers : d # c => ~Checking(d)'
      BY <1>1 DEF Begin, TypeOK
    <2>2. OneAtATime'
      BY <2>1 DEF OneAtATime
    <2>3. \A j \in Ids : Books(j)'
      BY <2>1 DEF WindowInv, Books
    <2>4. \A d \in Callers : ReadTime(d)'
      BY <2>1, HorizonAssumption DEF WindowInv, Books, ReadTime, TypeOK
    <2> QED BY <2>2, <2>3, <2>4 DEF WindowInv
  <1>2. ASSUME NEW c \in Callers, Admit(c) \/ Reject(c) PROVE WindowInv'
    BY <1>2, CheckKeeps
  <1>3. ASSUME NEW c \in Callers, Return(c) PROVE WindowInv'
    <2>1. /\ calls' = calls /\ admitted' = admitted /\ clock' = clock
          /\ \A d \in Callers : ~Checking(d)'
      BY <1>3 DEF Return, Idle, TypeOK
    <2> QED BY <2>1 DEF WindowInv, OneAtATime, Books, ReadTime
  <1>4. ASSUME NEW S, Reset(S) PROVE WindowInv'
    <2>1. /\ clock' = clock
          /\ \A d \in Callers : ~Checking(d)'
      BY <1>4 DEF Reset
    <2>2. ASSUME NEW j \in Ids PROVE Books(j)'
      <3>1. CASE j \in S
        <4>1. calls'[j] = <<>> /\ admitted'[j] = <<>>
          BY <1>4, <3>1 DEF Reset
        <4> QED BY <4>1, MaxCallsAssumption DEF Books, InOrder, Spaced, IsTail, Reached, Past
      <3>2. CASE j \notin S
        <4>1. calls'[j] = calls[j] /\ admitted'[j] = admitted[j]
          BY <1>4, <3>2 DEF Reset
        <4> QED BY <2>1, <4>1 DEF WindowInv, Books
      <3> QED BY <3>1, <3>2
    <2> QED BY <2>1, <2>2 DEF WindowInv, OneAtATime, ReadTime
  <1>5. ASSUME Tick PROVE WindowInv'
    <2>1. /\ calls' = calls /\ admitted' = admitted /\ call' = call
          /\ clock' \in Nat /\ clock \in Nat /\ clock <= clock'
      BY <1>5, HorizonAssumption DEF Tick, TypeOK
    <2>2. ASSUME NEW j \in Ids PROVE Books(j)'
      <3>1. calls[j] \in Seq(Nat) /\ admitted[j] \in Seq(Nat) /\ Books(j)
        BY DEF TypeOK, WindowInv
      <3>2. Reached(calls[j], admitted[j], clock')
        BY <2>1, <3>1, ReachedLater DEF Books
      <3> QED BY <2>1, <3>1, <3>2 DEF Books
    <2>3. \A d \in Callers : ReadTime(d)'
      BY <2>1 DEF WindowInv, ReadTime, TypeOK, Call
    <2> QED BY <2>1, <2>2, <2>3 DEF WindowInv, OneAtATime
  <1>6. ASSUME UNCHANGED vars PROVE WindowInv'
    BY <1>6 DEF vars, WindowInv, OneAtATime, Books, ReadTime
  <1> QED BY <1>1, <1>2, <1>3, <1>4, <1>5, <1>6 DEF Next, ResetOne, ResetAll

(***************************************************************************)
(* The theorems                                                            *)
(***************************************************************************)
LEMMA WindowHolds ==
    ASSUME Threads = FALSE
    PROVE  Spec => [](TypeOK /\ WindowInv)
  <1>1. Init => TypeOK /\ WindowInv
    BY InitTypeOK, InitWindow
  <1>2. TypeOK /\ WindowInv /\ [Next]_vars => (TypeOK /\ WindowInv)'
    BY TypeOKKept, WindowKept
  <1> QED BY <1>1, <1>2, PTL DEF Spec

LEMMA IntervalSize ==
    ASSUME NEW lo \in Int, NEW hi \in Nat, NEW n \in Nat, hi - lo + 1 = n
    PROVE  Cardinality(lo .. hi) = n
  <1>1. Cardinality(lo .. hi) = IF lo > hi THEN 0 ELSE hi - lo + 1
    BY FS_Interval
  <1> QED BY <1>1

\* The calls of one window are fewer than MaxCalls apart.
LEMMA OneWindow ==
    ASSUME NEW i \in Ids, NEW t \in Nat, admitted[i] \in Seq(Nat),
           InOrder(admitted[i]), Spaced(admitted[i])
    PROVE  Cardinality(InWindow(i, t)) <= MaxCalls
  <1> USE MaxCallsAssumption, WindowAssumption
  <1> DEFINE S == InWindow(i, t)
             a == admitted[i]
  <1>1. CASE S = {}
    BY <1>1, FS_EmptySet
  <1>2. CASE S # {}
    <2>1. S \subseteq 1 .. Len(a)
      BY DEF InWindow
    <2>2. PICK m \in S : \A k \in S : m <= k
      <3>1. S \subseteq Nat
        BY <2>1
      <3> HIDE DEF S
      <3> QED BY <1>2, <3>1, LeastNatural
    <2>3. ASSUME NEW k \in S PROVE k \in m .. (m + MaxCalls - 1)
      <3>1. m \in 1 .. Len(a) /\ k \in 1 .. Len(a) /\ m <= k
        BY <2>1, <2>2
      <3>2. a[m] \in Nat /\ a[k] \in Nat /\ t - Window < a[m] /\ a[k] <= t
        BY <3>1 DEF InWindow
      <3>3. ASSUME m + MaxCalls <= k PROVE FALSE
        <4>1. m + MaxCalls \in 1 .. Len(a)
          BY <3>1, <3>3
        <4>2. a[m] + Window <= a[m + MaxCalls]
          BY <3>1, <4>1 DEF Spaced
        <4>3. a[m + MaxCalls] <= a[k]
          BY <3>1, <3>3, <4>1 DEF InOrder
        <4>4. a[m + MaxCalls] \in Nat
          BY <4>1
        <4> HIDE DEF S, a
        <4> QED BY <3>2, <4>2, <4>3, <4>4
      <3> QED BY <3>1, <3>3
    <2>4. m \in Nat
      BY <2>1
    <2>5. /\ IsFiniteSet(m .. (m + MaxCalls - 1))
          /\ Cardinality(m .. (m + MaxCalls - 1)) = MaxCalls
      BY <2>4, FS_Interval
    <2>6. S \in SUBSET (m .. (m + MaxCalls - 1))
      BY <2>3
    <2> HIDE DEF S
    <2>7. Cardinality(S) <= MaxCalls
      BY <2>5, <2>6, FS_Subset, ZenonT(60)
    <2> QED BY <2>7 DEF S
  <1> QED BY <1>1, <1>2

\* On an event loop no window, wherever it ends, has more than max_calls
\* admitted calls of one id (RateLimiter.check).
THEOREM CeilingHolds ==
    ASSUME Threads = FALSE
    PROVE  Spec => []Ceiling
  <1>1. TypeOK /\ WindowInv => Ceiling
    BY HorizonAssumption, OneWindow DEF TypeOK, WindowInv, Books, Ceiling
  <1> QED BY <1>1, WindowHolds, PTL

\* On an event loop a call is rejected only if its window is full of admitted
\* calls of the same id (RateLimiter.check).
THEOREM RejectionsAreDeserved ==
    ASSUME Threads = FALSE
    PROVE  Spec => RejectsOnlyAtCeiling
  <1> USE MaxCallsAssumption, WindowAssumption
  <1> DEFINE Deserved ==
        \A c \in Callers :
            (call[c].pc = "checking" /\ call'[c].pc = "rejected")
            => Cardinality(InWindow(call[c].id, call[c].now)) >= MaxCalls
  <1>1. ASSUME TypeOK, WindowInv, [Next]_vars PROVE Deserved
    <2> SUFFICES ASSUME NEW c \in Callers,
                        call[c].pc = "checking", call'[c].pc = "rejected"
                 PROVE  Cardinality(InWindow(call[c].id, call[c].now)) >= MaxCalls
      OBVIOUS
    <2>1. Reject(c)
      <3> USE <1>1 DEF TypeOK
      <3>1. ASSUME NEW d \in Callers, NEW j \in Ids, Begin(d, j) PROVE FALSE
        BY <3>1 DEF Begin
      <3>2. ASSUME NEW d \in Callers, Admit(d) PROVE FALSE
        BY <3>2 DEF Admit
      <3>3. ASSUME NEW d \in Callers, Return(d) PROVE FALSE
        BY <3>3 DEF Return, Idle
      <3>4. ASSUME NEW d \in Callers, Reject(d) PROVE d = c
        BY <3>4 DEF Reject
      <3>5. ASSUME call' = call PROVE FALSE
        BY <3>5
      <3> QED BY <3>1, <3>2, <3>3, <3>4, <3>5
              DEF Next, vars, Reset, ResetOne, ResetAll, Tick
    <2> DEFINE i == call[c].id
               t == call[c].now
               a == admitted[i]
               w == LiveFor(c)
               lo == Past(w, a) + 1
    <2>2. /\ i \in Ids /\ t \in Nat /\ a \in Seq(Nat) /\ w \in Seq(Nat)
          /\ IsTail(w, a) /\ Reached(w, a, t)
          /\ \A k \in lo .. Len(a) : t - Window < a[k]
      BY <1>1, CheckSees DEF Checking
    <2>3. Len(w) >= MaxCalls
      BY <2>1, <2>2 DEF Reject, LeavesRoom
    <2>4. lo \in Nat \ {0} /\ Len(a) - lo + 1 = Len(w)
      <3> HIDE DEF i, t, a, w
      <3> QED BY <2>2 DEF IsTail, Past
    <2>5. lo .. Len(a) \in SUBSET InWindow(i, t)
      <3>1. ASSUME NEW k \in lo .. Len(a)
            PROVE  k \in DOMAIN a /\ t - Window < a[k] /\ a[k] <= t
        <4> HIDE DEF i, t, a, w, lo
        <4>1. k \in 1 .. Len(a)
          BY <2>2, <2>4
        <4> QED BY <2>2, <4>1 DEF Reached
      <3> QED BY <3>1 DEF InWindow
    <2>6. InWindow(i, t) \in SUBSET (1 .. Len(a)) /\ IsFiniteSet(1 .. Len(a))
      <3>1. InWindow(i, t) \in SUBSET DOMAIN a
        BY DEF InWindow
      <3> HIDE DEF a
      <3>2. DOMAIN a = 1 .. Len(a) /\ Len(a) \in Int
        BY <2>2
      <3> QED BY <3>1, <3>2, FS_Interval
    <2>7. IsFiniteSet(InWindow(i, t))
      BY <2>6, FS_Subset
    <2>8. Cardinality(lo .. Len(a)) <= Cardinality(InWindow(i, t))
      <3> HIDE DEF lo, i, t
      <3> QED BY <2>5, <2>7, FS_Subset
    <2>9. Cardinality(lo .. Len(a)) = Len(w)
      <3> HIDE DEF lo, a, w
      <3>1. lo \in Int /\ Len(a) \in Nat /\ Len(w) \in Nat
        BY <2>2, <2>4
      <3> QED BY <2>4, <3>1, IntervalSize
    <2>10. Cardinality(InWindow(i, t)) \in Nat
      BY <2>7, FS_CardinalityType
    <2> HIDE DEF i, t, a, w, lo
    <2>11. Cardinality(InWindow(i, t)) >= MaxCalls
      BY <2>2, <2>3, <2>8, <2>9, <2>10
    <2> QED BY <2>11 DEF i, t
  <1>2. (TypeOK /\ WindowInv) /\ [Next]_vars => [Deserved]_vars
    BY <1>1
  <1> HIDE DEF Deserved
  <1>3. Spec => [][Deserved]_vars
    BY <1>2, WindowHolds, PTL DEF Spec
  <1> QED BY <1>3 DEF Deserved, RejectsOnlyAtCeiling

=============================================================================
