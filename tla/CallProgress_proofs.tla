-------------------------- MODULE CallProgress_proofs --------------------------
(***************************************************************************)
(* Theorems about CallProgress for any callers, intervals and timeout: its *)
(* types, and that a wait in a queue only shrinks.                         *)
(***************************************************************************)
EXTENDS CallProgress, SequenceTheorems, TLAPS

\* Who a queue lists is listed once and, by pl, waits at place p.
Queued(pl, queue, p) ==
    /\ queue \in Seq(Tasks)
    /\ \A i \in DOMAIN queue : pl[queue[i]] = p
    /\ \A i, j \in DOMAIN queue : queue[i] = queue[j] => i = j

ProgressInv ==
    /\ ProgressTypeOK
    /\ Queued(place, timeQueue, "timeWait")
    /\ Queued(place, requestQueue, "requestWait")

Intervals ==
    REQUEST_INTERVAL \in Nat /\ TIME_INTERVAL \in Nat /\ HTTP_TIMEOUT \in Nat

------------------------------------------------------------------------------
(* Queues.                                                                 *)

\* A queue next has who queue had and is not t, in the same order.
Thinner(next, queue, t) ==
    /\ next \in Seq(Tasks)
    /\ \E old :
        /\ \A k \in DOMAIN next : /\ old[k] \in DOMAIN queue /\ k \in Nat
                                  /\ k <= old[k]
                                  /\ next[k] = queue[old[k]] /\ next[k] # t
        /\ \A k, l \in DOMAIN next : old[k] = old[l] => k = l

LEMMA WithoutThinner ==
    ASSUME NEW q \in Seq(Tasks), NEW t \in Tasks,
           \A i, j \in DOMAIN q : q[i] = q[j] => i = j
    PROVE  Thinner(Without(q, t), q, t)
<1>1. DOMAIN q = 1 .. Len(q) /\ Len(q) \in Nat
  BY LenProperties
<1>2. CASE ~Waits(q, t)
  <2> DEFINE old == [k \in DOMAIN q |-> k]
  <2>1. /\ \A k \in DOMAIN q : old[k] \in DOMAIN q /\ k \in Nat /\ k <= old[k]
        /\ \A k \in DOMAIN q : q[k] = q[old[k]]
        /\ \A k \in DOMAIN q : q[k] # t
        /\ \A k, l \in DOMAIN q : old[k] = old[l] => k = l
    BY <1>1, <1>2 DEF Waits
  <2>2. Without(q, t) = q
    BY <1>2 DEF Without
  <2> HIDE DEF old
  <2>3. Thinner(q, q, t)
    BY <2>1 DEF Thinner
  <2> QED BY <2>2, <2>3
<1>3. ASSUME NEW i \in DOMAIN q, q[i] = t
      PROVE  Thinner(Without(q, t), q, t)
  <2> DEFINE a == SubSeq(q, 1, i - 1)
             b == SubSeq(q, i + 1, Len(q))
             r == a \o b
             old == [k \in 1 .. Len(q) - 1 |-> IF k < i THEN k ELSE k + 1]
  <2>1. Without(q, t) = r
    <3>1. (CHOOSE j \in DOMAIN q : q[j] = t) = i
      BY <1>3
    <3> QED BY <1>3, <3>1 DEF Without, Waits
  <2>2. /\ i \in 1 .. Len(q)
        /\ \A k \in 1 .. Len(q) : q[k] \in Tasks
    BY <1>1, ElementOfSeq
  <2>3. /\ a \in Seq(Tasks) /\ Len(a) = i - 1
        /\ \A k \in 1 .. i - 1 : a[k] = q[k]
    <3>1. \A k \in 1 .. i - 1 : q[k] \in Tasks
      BY <1>1, <2>2
    <3> QED BY <1>1, <2>2, <3>1, SubSeqProperties
  <2>4. /\ b \in Seq(Tasks) /\ Len(b) = Len(q) - i
        /\ \A k \in 1 .. Len(q) - i : b[k] = q[k + i]
    <3>1. \A k \in i + 1 .. Len(q) : q[k] \in Tasks
      BY <1>1, <2>2
    <3>2. /\ b \in Seq(Tasks)
          /\ Len(b) = IF i + 1 <= Len(q) THEN Len(q) - (i + 1) + 1 ELSE 0
          /\ \A k \in 1 .. Len(q) - (i + 1) + 1 : b[k] = q[i + 1 + k - 1]
      BY <1>1, <2>2, <3>1, SubSeqProperties
    <3>3. ASSUME NEW k \in 1 .. Len(q) - i
          PROVE  b[k] = q[k + i]
      <4>1. k \in 1 .. Len(q) - (i + 1) + 1 /\ i + 1 + k - 1 = k + i
        BY <1>1, <2>2
      <4> QED BY <3>2, <4>1
    <3> QED BY <1>1, <2>2, <3>2, <3>3
  <2> HIDE DEF a, b
  <2>5. /\ r \in Seq(Tasks) /\ Len(r) = Len(a) + Len(b)
        /\ \A k \in 1 .. Len(a) + Len(b) :
                r[k] = IF k <= Len(a) THEN a[k] ELSE b[k - Len(a)]
    <3>1. a \in Seq(Tasks) /\ b \in Seq(Tasks)
      BY <2>3, <2>4
    <3> QED BY <3>1, ConcatProperties
  <2> HIDE DEF r
  <2>6. DOMAIN r = 1 .. Len(q) - 1 /\ Len(a) + Len(b) = Len(q) - 1
    <3>1. Len(a) + Len(b) = Len(q) - 1
      BY <1>1, <2>2, <2>3, <2>4
    <3> QED BY <2>5, <3>1, LenProperties
  <2>7. ASSUME NEW k \in 1 .. Len(q) - 1
        PROVE  /\ old[k] \in DOMAIN q /\ k \in Nat /\ k <= old[k] /\ old[k] # i
               /\ r[k] = q[old[k]]
    <3>1. CASE k < i
      BY <1>1, <2>2, <2>3, <2>5, <2>6, <3>1
    <3>2. CASE ~(k < i)
      <4>1. /\ k - Len(a) \in 1 .. Len(q) - i /\ k - Len(a) + i = k + 1
            /\ ~(k <= Len(a)) /\ k \in 1 .. Len(a) + Len(b)
        BY <1>1, <2>2, <2>3, <2>6, <3>2
      <4>2. r[k] = b[k - Len(a)]
        BY <2>5, <4>1
      <4>3. r[k] = q[k + 1]
        BY <2>4, <4>1, <4>2
      <4> QED BY <1>1, <2>2, <3>2, <4>3
    <3> QED BY <3>1, <3>2
  <2>8. \A k, l \in 1 .. Len(q) - 1 : old[k] = old[l] => k = l
    BY <1>1, <2>2
  <2> HIDE DEF old
  <2>9. \A k \in 1 .. Len(q) - 1 : r[k] # t
    BY <1>3, <2>7
  <2>10. /\ \A k \in DOMAIN r : /\ old[k] \in DOMAIN q /\ k \in Nat /\ k <= old[k]
                                /\ r[k] = q[old[k]] /\ r[k] # t
         /\ \A k, l \in DOMAIN r : old[k] = old[l] => k = l
    BY <2>6, <2>7, <2>8, <2>9
  <2>11. Thinner(r, q, t)
    BY <2>5, <2>10 DEF Thinner
  <2> QED BY <2>1, <2>11
<1> QED BY <1>2, <1>3 DEF Waits

LEMMA WithoutHead ==
    ASSUME NEW q \in Seq(Tasks), q # << >>,
           \A i, j \in DOMAIN q : q[i] = q[j] => i = j
    PROVE  /\ Head(q) \in Tasks
           /\ Without(q, Head(q)) = Tail(q)
<1>1. /\ Head(q) \in Tasks /\ Head(q) = q[1] /\ Len(q) \in Nat \ {0}
      /\ DOMAIN q = 1 .. Len(q) /\ 1 \in DOMAIN q /\ Tail(q) \in Seq(Tasks)
  BY HeadTailProperties, LenProperties, EmptySeq
<1>2. (CHOOSE j \in DOMAIN q : q[j] = q[1]) = 1
  BY <1>1
<1>3. Waits(q, q[1])
  BY <1>1 DEF Waits
<1> DEFINE W(i) == SubSeq(q, 1, i - 1) \o SubSeq(q, i + 1, Len(q))
<1>4. Without(q, q[1]) = W(1)
  BY <1>2, <1>3 DEF Without
<1>5. W(1) = SubSeq(q, 1, 0) \o SubSeq(q, 2, Len(q))
  BY SMT
<1>6. SubSeq(q, 1, 0) = << >>
  BY <1>1
<1>7. SubSeq(q, 2, Len(q)) = Tail(q)
  BY <1>1
<1> QED BY <1>1, <1>4, <1>5, <1>6, <1>7, ConcatEmptySeq

\* One task moves; who is queued elsewhere stays queued.
LEMMA ThinnerQueued ==
    ASSUME NEW pl, NEW moved, NEW q, NEW r, NEW p, NEW t, Queued(pl, q, p),
           Thinner(r, q, t), \A u \in Tasks : u # t => moved[u] = pl[u]
    PROVE  Queued(moved, r, p)
<1>1. \A i \in DOMAIN q : q[i] \in Tasks /\ pl[q[i]] = p
  BY ElementOfSeq, LenProperties DEF Queued
<1> QED BY <1>1 DEF Queued, Thinner

LEMMA OthersQueued ==
    ASSUME NEW pl, NEW moved, NEW q, NEW p, NEW t, Queued(pl, q, p), pl[t] # p,
           \A u \in Tasks : u # t => moved[u] = pl[u]
    PROVE  Queued(moved, q, p)
<1>1. \A i \in DOMAIN q : q[i] \in Tasks /\ pl[q[i]] = p
  BY ElementOfSeq, LenProperties DEF Queued
<1> QED BY <1>1 DEF Queued

LEMMA AppendQueued ==
    ASSUME NEW pl, NEW moved, NEW q, NEW p, NEW t \in Tasks, Queued(pl, q, p),
           pl[t] # p, moved[t] = p, \A u \in Tasks : u # t => moved[u] = pl[u]
    PROVE  Queued(moved, Append(q, t), p)
<1> DEFINE r == Append(q, t)
<1>1. /\ r \in Seq(Tasks) /\ Len(q) \in Nat
      /\ DOMAIN q = 1 .. Len(q) /\ DOMAIN r = 1 .. Len(q) + 1
      /\ \A i \in 1 .. Len(q) : r[i] = q[i] /\ q[i] # t
      /\ r[Len(q) + 1] = t
  BY AppendProperties, LenProperties DEF Queued
<1>2. Queued(moved, q, p)
  BY OthersQueued
<1> HIDE DEF r
<1> QED BY <1>1, <1>2 DEF Queued

------------------------------------------------------------------------------
(* Waits.                                                                  *)

LEMMA MoreIntervals ==
    ASSUME NEW I \in Nat
    PROVE  /\ \A m, n \in Int : m <= n => m * I <= n * I
           /\ \A m \in Int : m * I \in Int /\ (m + 1) * I = m * I + I
<1>1. \A m, n \in Int : m <= n => m * I <= n * I
  OBVIOUS
<1>2. \A m \in Int : m * I \in Int /\ (m + 1) * I = m * I + I
  OBVIOUS
<1> QED BY <1>1, <1>2

LEMMA ThinnerNoLonger ==
    ASSUME NEW pl, NEW q, NEW r, NEW p, NEW t, Queued(pl, q, p), Thinner(r, q, t),
           NEW c \in Nat, NEW I \in Nat
    PROVE  NoLonger(q, c, r, c, I)
<1> SUFFICES ASSUME NEW i \in DOMAIN q, NEW j \in DOMAIN r, q[i] = r[j]
             PROVE  Wait(c, j, I) <= Wait(c, i, I)
  BY DEF NoLonger
<1>1. j \in Nat /\ i \in Nat /\ j <= i
  <2>1. DOMAIN q = 1 .. Len(q) /\ Len(q) \in Nat
    BY LenProperties DEF Queued
  <2>2. PICK k \in DOMAIN q : j \in Nat /\ j <= k /\ r[j] = q[k]
    BY DEF Thinner
  <2>3. k = i
    BY <2>2 DEF Queued
  <2> QED BY <2>1, <2>2, <2>3
<1>2. /\ j - 1 \in Int /\ i - 1 \in Int /\ j - 1 <= i - 1
  BY <1>1
<1>3. /\ (j - 1) * I <= (i - 1) * I /\ (j - 1) * I \in Int /\ (i - 1) * I \in Int
  BY <1>2, MoreIntervals
<1> QED BY <1>3 DEF Wait

LEMMA HeadNoLonger ==
    ASSUME NEW pl, NEW q, NEW p, Queued(pl, q, p), q # << >>, NEW I \in Nat
    PROVE  NoLonger(q, 0, Tail(q), I, I)
<1> SUFFICES ASSUME NEW i \in DOMAIN q, NEW j \in DOMAIN Tail(q), q[i] = Tail(q)[j]
             PROVE  Wait(I, j, I) <= Wait(0, i, I)
  BY DEF NoLonger
<1>1. /\ Len(q) \in Nat \ {0} /\ DOMAIN q = 1 .. Len(q)
      /\ DOMAIN Tail(q) = 1 .. Len(q) - 1
      /\ \A k \in 1 .. Len(q) - 1 : Tail(q)[k] = q[k + 1]
  BY HeadTailProperties, LenProperties, EmptySeq DEF Queued
<1>2. j \in Nat /\ j + 1 \in DOMAIN q /\ q[j + 1] = q[i]
  BY <1>1
<1>3. i = j + 1
  BY <1>2 DEF Queued
<1>4. /\ j - 1 \in Int /\ (j - 1) + 1 = j /\ i - 1 = j
  BY <1>2, <1>3
<1>5. (j - 1) * I \in Int /\ j * I = (j - 1) * I + I
  BY <1>4, MoreIntervals
<1> QED BY <1>4, <1>5 DEF Wait

LEMMA AppendNoLonger ==
    ASSUME NEW pl, NEW q, NEW p, NEW t \in Tasks, Queued(pl, q, p), pl[t] # p,
           NEW c \in Nat, NEW I \in Nat
    PROVE  NoLonger(q, c, Append(q, t), c, I)
<1> DEFINE r == Append(q, t)
<1>1. /\ Len(q) \in Nat /\ DOMAIN q = 1 .. Len(q) /\ DOMAIN r = 1 .. Len(q) + 1
      /\ \A i \in 1 .. Len(q) : r[i] = q[i] /\ q[i] # t
      /\ r[Len(q) + 1] = t
  BY AppendProperties, LenProperties DEF Queued
<1> HIDE DEF r
<1>2. ASSUME NEW i \in DOMAIN q, NEW j \in DOMAIN r, q[i] = r[j]
      PROVE  Wait(c, j, I) <= Wait(c, i, I)
  <2>1. i = j /\ i \in Nat
    BY <1>1, <1>2 DEF Queued
  <2>2. i - 1 \in Int
    BY <2>1
  <2>3. (i - 1) * I \in Int
    BY <2>2, MoreIntervals
  <2> QED BY <2>1, <2>3 DEF Wait
<1>3. NoLonger(q, c, r, c, I)
  BY <1>2 DEF NoLonger
<1> QED BY <1>3 DEF r

LEMMA SameNoLonger ==
    ASSUME NEW pl, NEW q, NEW p, Queued(pl, q, p),
           NEW c \in Nat, NEW d \in Nat, d <= c, NEW I \in Nat
    PROVE  NoLonger(q, c, q, d, I)
<1> SUFFICES ASSUME NEW i \in DOMAIN q
             PROVE  Wait(d, i, I) <= Wait(c, i, I)
  BY DEF NoLonger, Queued
<1>1. i - 1 \in Int
  BY LenProperties DEF Queued
<1>2. (i - 1) * I \in Int
  BY <1>1, MoreIntervals
<1> QED BY <1>2 DEF Wait

------------------------------------------------------------------------------
(* The steps.                                                              *)

Shrinks ==
    /\ NoLonger(timeQueue, timeCooldown, timeQueue', timeCooldown', TIME_INTERVAL)
    /\ NoLonger(requestQueue, requestCooldown, requestQueue', requestCooldown',
                REQUEST_INTERVAL)

LEMMA Moved ==
    ASSUME ProgressTypeOK, NEW t \in Tasks, NEW p \in Places, Go(t, p)
    PROVE  /\ place' \in [Tasks -> Places] /\ place'[t] = p
           /\ \A u \in Tasks : u # t => place'[u] = place[u]
BY DEF ProgressTypeOK, Go

LEMMA CooldownTypes ==
    ASSUME ProgressTypeOK, Intervals
    PROVE  timeCooldown \in Nat /\ requestCooldown \in Nat
BY DEF ProgressTypeOK, Intervals

\* The conjuncts of ProgressInv' one by one.
LEMMA InvParts ==
    ASSUME place' \in [Tasks -> Places],
           Queued(place', timeQueue', "timeWait"),
           Queued(place', requestQueue', "requestWait"),
           timeCooldown' \in 0 .. TIME_INTERVAL,
           requestCooldown' \in 0 .. REQUEST_INTERVAL,
           inFlight' \in [Tasks -> 0 .. HTTP_TIMEOUT]
    PROVE  ProgressInv'
BY DEF ProgressInv, ProgressTypeOK, Queued

\* A call that is not in a queue, or in one of them, and goes elsewhere.
LEMMA StartSyncKeeps ==
    ASSUME ProgressInv, Intervals, NEW t \in Tasks, StartSync(t)
    PROVE  ProgressInv' /\ Shrinks
<1>1. /\ place[t] = "idle" /\ place'[t] = "timeWait" /\ place' \in [Tasks -> Places]
      /\ \A u \in Tasks : u # t => place'[u] = place[u]
      /\ timeQueue' = Append(timeQueue, t)
      /\ UNCHANGED <<requestQueue, timeCooldown, requestCooldown, inFlight>>
  BY Moved DEF StartSync, ProgressInv, Places
<1>2. Queued(place', timeQueue', "timeWait") /\ Queued(place', requestQueue', "requestWait")
  BY <1>1, AppendQueued, OthersQueued DEF ProgressInv
<1>3. NoLonger(timeQueue, timeCooldown, timeQueue', timeCooldown', TIME_INTERVAL)
  BY <1>1, AppendNoLonger, CooldownTypes DEF ProgressInv, Intervals
<1>4. NoLonger(requestQueue, requestCooldown, requestQueue', requestCooldown',
               REQUEST_INTERVAL)
  BY <1>1, SameNoLonger, CooldownTypes DEF ProgressInv, Intervals
<1>5. ProgressInv'
  BY <1>1, <1>2, InvParts DEF ProgressInv, ProgressTypeOK
<1> QED BY <1>3, <1>4, <1>5 DEF Shrinks

LEMMA StartReadKeeps ==
    ASSUME ProgressInv, Intervals, NEW t \in Tasks, StartRead(t)
    PROVE  ProgressInv' /\ Shrinks
<1>1. /\ place[t] = "idle" /\ place'[t] = "requestWait" /\ place' \in [Tasks -> Places]
      /\ \A u \in Tasks : u # t => place'[u] = place[u]
      /\ requestQueue' = Append(requestQueue, t)
      /\ UNCHANGED <<timeQueue, timeCooldown, requestCooldown, inFlight>>
  BY Moved DEF StartRead, ProgressInv, Places
<1>2. Queued(place', timeQueue', "timeWait") /\ Queued(place', requestQueue', "requestWait")
  BY <1>1, AppendQueued, OthersQueued DEF ProgressInv
<1>3. NoLonger(timeQueue, timeCooldown, timeQueue', timeCooldown', TIME_INTERVAL)
  BY <1>1, SameNoLonger, CooldownTypes DEF ProgressInv, Intervals
<1>4. NoLonger(requestQueue, requestCooldown, requestQueue', requestCooldown',
               REQUEST_INTERVAL)
  BY <1>1, AppendNoLonger, CooldownTypes DEF ProgressInv, Intervals
<1>5. ProgressInv'
  BY <1>1, <1>2, InvParts DEF ProgressInv, ProgressTypeOK
<1> QED BY <1>3, <1>4, <1>5 DEF Shrinks

LEMMA HeadHolds ==
    ASSUME NEW q, NEW p, Queued(place, q, p), NEW t, Holds(q, t)
    PROVE  /\ t \in Tasks /\ place[t] = p
           /\ Without(q, t) = Tail(q) /\ Thinner(Tail(q), q, t)
           /\ q # << >>
<1>1. q # << >> /\ Head(q) = t
  BY DEF Holds
<1>2. t \in Tasks /\ Without(q, t) = Tail(q)
  BY <1>1, WithoutHead DEF Queued
<1>3. place[t] = p
  <2>1. 1 \in DOMAIN q /\ q[1] = t
    BY <1>1, HeadTailProperties, LenProperties, EmptySeq DEF Queued
  <2> QED BY <2>1 DEF Queued
<1>4. Thinner(Tail(q), q, t)
  BY <1>2, WithoutThinner DEF Queued
<1> QED BY <1>1, <1>2, <1>3, <1>4

LEMMA ToRequestsKeeps ==
    ASSUME ProgressInv, Intervals, NEW t \in Tasks, ToRequests(t)
    PROVE  ProgressInv' /\ Shrinks
<1>1. /\ Holds(timeQueue, t) /\ timeCooldown = 0 /\ timeCooldown' = TIME_INTERVAL
      /\ place'[t] = "requestWait" /\ place' \in [Tasks -> Places]
      /\ \A u \in Tasks : u # t => place'[u] = place[u]
      /\ timeQueue' = Without(timeQueue, t)
      /\ requestQueue' = Append(requestQueue, t)
      /\ UNCHANGED <<requestCooldown, inFlight>>
  BY Moved DEF ToRequests, ProgressInv, Places
<1>2. /\ place[t] = "timeWait" /\ timeQueue # << >>
      /\ timeQueue' = Tail(timeQueue) /\ Thinner(timeQueue', timeQueue, t)
  BY <1>1, HeadHolds DEF ProgressInv
<1>3. Queued(place', timeQueue', "timeWait")
  BY <1>1, <1>2, ThinnerQueued DEF ProgressInv
<1>4. Queued(place', requestQueue', "requestWait")
  BY <1>1, <1>2, AppendQueued DEF ProgressInv
<1>5. NoLonger(timeQueue, timeCooldown, timeQueue', timeCooldown', TIME_INTERVAL)
  BY <1>1, <1>2, HeadNoLonger DEF ProgressInv, Intervals
<1>6. NoLonger(requestQueue, requestCooldown, requestQueue', requestCooldown',
               REQUEST_INTERVAL)
  BY <1>1, <1>2, AppendNoLonger, CooldownTypes DEF ProgressInv, Intervals
<1>7. ProgressInv'
  BY <1>1, <1>3, <1>4, InvParts DEF ProgressInv, ProgressTypeOK, Intervals
<1> QED BY <1>5, <1>6, <1>7 DEF Shrinks

LEMMA TakeSlotKeeps ==
    ASSUME ProgressInv, Intervals, NEW t \in Tasks, TakeSlot(t)
    PROVE  ProgressInv' /\ Shrinks
<1>1. /\ Holds(requestQueue, t)
      /\ requestCooldown = 0 /\ requestCooldown' = REQUEST_INTERVAL
      /\ place' \in [Tasks -> Places]
      /\ \A u \in Tasks : u # t => place'[u] = place[u]
      /\ requestQueue' = Without(requestQueue, t)
      /\ UNCHANGED <<timeQueue, timeCooldown, inFlight>>
  BY Moved DEF TakeSlot, ProgressInv, Places
<1>2. /\ place[t] = "requestWait" /\ requestQueue # << >>
      /\ requestQueue' = Tail(requestQueue) /\ Thinner(requestQueue', requestQueue, t)
  BY <1>1, HeadHolds DEF ProgressInv
<1>3. Queued(place', requestQueue', "requestWait")
  BY <1>1, <1>2, ThinnerQueued DEF ProgressInv
<1>4. Queued(place', timeQueue', "timeWait")
  BY <1>1, <1>2, OthersQueued DEF ProgressInv
<1>5. NoLonger(requestQueue, requestCooldown, requestQueue', requestCooldown',
               REQUEST_INTERVAL)
  BY <1>1, <1>2, HeadNoLonger DEF ProgressInv, Intervals
<1>6. NoLonger(timeQueue, timeCooldown, timeQueue', timeCooldown', TIME_INTERVAL)
  BY <1>1, SameNoLonger, CooldownTypes DEF ProgressInv, Intervals
<1>7. ProgressInv'
  BY <1>1, <1>3, <1>4, InvParts DEF ProgressInv, ProgressTypeOK, Intervals
<1> QED BY <1>5, <1>6, <1>7 DEF Shrinks

LEMMA EndKeeps ==
    ASSUME ProgressInv, Intervals, NEW t \in Tasks, End(t)
    PROVE  ProgressInv' /\ Shrinks
<1>1. /\ place[t] = "inFlight" /\ place' \in [Tasks -> Places]
      /\ \A u \in Tasks : u # t => place'[u] = place[u]
      /\ inFlight' \in [Tasks -> 0 .. HTTP_TIMEOUT]
      /\ UNCHANGED <<timeQueue, requestQueue, timeCooldown, requestCooldown>>
  BY Moved DEF End, ProgressInv, ProgressTypeOK, Places, Intervals
<1>2. Queued(place', timeQueue', "timeWait") /\ Queued(place', requestQueue', "requestWait")
  BY <1>1, OthersQueued DEF ProgressInv
<1>3. Shrinks
  BY <1>1, SameNoLonger, CooldownTypes DEF Shrinks, ProgressInv, Intervals
<1>4. ProgressInv'
  BY <1>1, <1>2, InvParts DEF ProgressInv, ProgressTypeOK
<1> QED BY <1>3, <1>4

LEMMA DropKeeps ==
    ASSUME ProgressInv, Intervals, NEW t \in Tasks, Drop(t)
    PROVE  ProgressInv' /\ Shrinks
<1>1. /\ place' \in [Tasks -> Places]
      /\ \A u \in Tasks : u # t => place'[u] = place[u]
      /\ timeQueue' = Without(timeQueue, t) /\ requestQueue' = Without(requestQueue, t)
      /\ UNCHANGED <<timeCooldown, requestCooldown, inFlight>>
  BY Moved DEF Drop, ProgressInv, Places
<1>2. Thinner(timeQueue', timeQueue, t) /\ Thinner(requestQueue', requestQueue, t)
  BY <1>1, WithoutThinner DEF ProgressInv, Queued
<1>3. Queued(place', timeQueue', "timeWait") /\ Queued(place', requestQueue', "requestWait")
  BY <1>1, <1>2, ThinnerQueued DEF ProgressInv
<1>4. NoLonger(timeQueue, timeCooldown, timeQueue', timeCooldown', TIME_INTERVAL)
  BY <1>1, <1>2, ThinnerNoLonger, CooldownTypes DEF ProgressInv, Intervals
<1>5. NoLonger(requestQueue, requestCooldown, requestQueue', requestCooldown',
               REQUEST_INTERVAL)
  BY <1>1, <1>2, ThinnerNoLonger, CooldownTypes DEF ProgressInv, Intervals
<1>6. ProgressInv'
  BY <1>1, <1>3, InvParts DEF ProgressInv, ProgressTypeOK
<1> QED BY <1>4, <1>5, <1>6 DEF Shrinks

LEMMA TimePassesKeeps ==
    ASSUME ProgressInv, Intervals, TimePasses
    PROVE  ProgressInv' /\ Shrinks
<1>1. /\ timeCooldown' \in 0 .. TIME_INTERVAL /\ timeCooldown' \in Nat
      /\ timeCooldown' <= timeCooldown
      /\ requestCooldown' \in 0 .. REQUEST_INTERVAL /\ requestCooldown' \in Nat
      /\ requestCooldown' <= requestCooldown
      /\ UNCHANGED <<place, timeQueue, requestQueue>>
  BY DEF TimePasses, Less, ProgressInv, ProgressTypeOK, Intervals
<1>2. inFlight' \in [Tasks -> 0 .. HTTP_TIMEOUT]
  <2>1. \A t \in Tasks : inFlight[t] \in 0 .. HTTP_TIMEOUT
    BY DEF ProgressInv, ProgressTypeOK
  <2>2. \A t \in Tasks :
            (IF place[t] = "inFlight" THEN inFlight[t] + 1 ELSE 0) \in 0 .. HTTP_TIMEOUT
    BY <2>1 DEF TimePasses, Intervals
  <2> QED BY <2>2 DEF TimePasses
<1>3. Shrinks
  BY <1>1, SameNoLonger, CooldownTypes DEF Shrinks, ProgressInv, Intervals
<1>4. ProgressInv'
  BY <1>1, <1>2, InvParts DEF ProgressInv, ProgressTypeOK
<1> QED BY <1>3, <1>4

LEMMA NextKeeps ==
    ASSUME ProgressInv, Intervals, [ProgressNext]_progressVars
    PROVE  ProgressInv' /\ (ProgressNext => Shrinks)
<1>1. CASE ProgressNext
  BY <1>1, StartSyncKeeps, StartReadKeeps, ToRequestsKeeps, TakeSlotKeeps, EndKeeps,
     DropKeeps, TimePassesKeeps DEF ProgressNext
<1>2. ASSUME UNCHANGED progressVars PROVE ProgressInv'
  BY <1>2 DEF progressVars, ProgressInv, ProgressTypeOK, Queued
<1> QED BY <1>1, <1>2

LEMMA InitKeeps == ASSUME Intervals PROVE ProgressInit => ProgressInv
BY DEF Intervals, ProgressInit, ProgressInv, ProgressTypeOK, Places, Queued

\* The calls and the timers stay in their ranges: a timer that ran out stays at
\* zero and no request is under way for longer than its timeout.
THEOREM ProgressTyped == ASSUME Intervals PROVE ProgressSafety => []ProgressTypeOK
<1>1. ProgressInv /\ [ProgressNext]_progressVars => ProgressInv'
  BY NextKeeps
<1>2. ProgressInv => ProgressTypeOK
  BY DEF ProgressInv
<1> QED BY <1>1, <1>2, InitKeeps, PTL DEF ProgressSafety

\* get_rows and synchronize_clock: whatever the other callers do, a call that is in
\* the queue of a limiter has ever less to wait for.  With a limiter that runs on
\* (the fairness of ProgressSpec) this is what lets every call return.
THEOREM WaitsShrink == ASSUME Intervals PROVE ProgressSafety => WaitOnlyShrinks
<1>1. ProgressInv /\ [ProgressNext]_progressVars => ProgressInv'
  BY NextKeeps
<1>2. ProgressInv /\ [ProgressNext]_progressVars => [Shrinks]_progressVars
  BY NextKeeps
<1> QED BY <1>1, <1>2, InitKeeps, PTL DEF ProgressSafety, WaitOnlyShrinks, Shrinks

==============================================================================
