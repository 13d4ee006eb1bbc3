------------------------ MODULE ReadOnlyClient_proofs ------------------------
(***************************************************************************)
(* Theorems about ReadOnlyClient, for every value of its constants: any    *)
(* number of callers, any intervals, timeouts and tolerances, any horizon  *)
(* and any steps of the local clock.                                       *)
(***************************************************************************)
EXTENDS ReadOnlyClient, SequenceTheorems, FiniteSetTheorems, FunctionTheorems, TLAPS

------------------------------------------------------------------------------
(* Queues that list a set, and the three operations of a limiter on them.  *)

LEMMA AppendLists ==
    ASSUME NEW q \in Seq(Tasks), NEW S, NEW t \in Tasks, t \notin S, Lists(q, S)
    PROVE  /\ Append(q, t) \in Seq(Tasks)
           /\ Lists(Append(q, t), S \cup {t})
<1> DEFINE r == Append(q, t)
<1>1. /\ r \in Seq(Tasks) /\ DOMAIN q = 1 .. Len(q) /\ DOMAIN r = 1 .. Len(q) + 1
      /\ Len(q) \in Nat
      /\ \A i \in 1 .. Len(q) : r[i] = q[i] /\ q[i] # t
      /\ r[Len(q) + 1] = t
  BY AppendProperties, LenProperties DEF Lists
<1>2. \A i, j \in DOMAIN r : r[i] = r[j] => i = j
  BY <1>1 DEF Lists
<1>3. ASSUME NEW u \in Tasks
      PROVE  u \in S \cup {t} <=> \E i \in DOMAIN r : r[i] = u
  <2>1. CASE u = t
    BY <1>1, <2>1
  <2>2. CASE u # t
    <3>1. u \in S <=> \E i \in 1 .. Len(q) : q[i] = u
      BY <1>1 DEF Lists
    <3> QED BY <1>1, <2>2, <3>1
  <2> QED BY <2>1, <2>2
<1> QED BY <1>1, <1>2, <1>3 DEF Lists

LEMMA TailLists ==
    ASSUME NEW q \in Seq(Tasks), NEW S, q # << >>, Lists(q, S)
    PROVE  /\ Head(q) \in Tasks
           /\ Head(q) \in S
           /\ Tail(q) \in Seq(Tasks)
           /\ Lists(Tail(q), S \ {Head(q)})
<1> DEFINE r == Tail(q)
<1>1. /\ r \in Seq(Tasks) /\ Head(q) \in Tasks /\ Head(q) = q[1]
      /\ Len(q) \in Nat \ {0}
      /\ DOMAIN q = 1 .. Len(q) /\ DOMAIN r = 1 .. Len(q) - 1
      /\ \A i \in 1 .. Len(q) - 1 : r[i] = q[i + 1]
  BY HeadTailProperties, LenProperties, EmptySeq
<1>2. \A i \in DOMAIN r : r[i] # Head(q)
  BY <1>1 DEF Lists
<1>3. \A i, j \in DOMAIN r : r[i] = r[j] => i = j
  <2> SUFFICES ASSUME NEW i \in DOMAIN r, NEW j \in DOMAIN r, r[i] = r[j]
               PROVE  i = j
    OBVIOUS
  <2>1. q[i + 1] = q[j + 1] /\ i + 1 \in DOMAIN q /\ j + 1 \in DOMAIN q
    BY <1>1
  <2> QED BY <1>1, <2>1 DEF Lists
<1>4. ASSUME NEW u \in Tasks
      PROVE  u \in S \ {Head(q)} <=> \E i \in DOMAIN r : r[i] = u
  <2>1. u \in S <=> \E i \in 1 .. Len(q) : q[i] = u
    BY <1>1 DEF Lists
  <2>2. ASSUME NEW i \in 1 .. Len(q), q[i] = u, u # Head(q)
        PROVE  \E k \in DOMAIN r : r[k] = u
    <3>1. i # 1
      BY <1>1, <2>2
    <3>2. i - 1 \in DOMAIN r /\ r[i - 1] = q[i]
      BY <1>1, <3>1
    <3> QED BY <2>2, <3>2
  <2>3. ASSUME NEW k \in DOMAIN r, r[k] = u
        PROVE  u \in S \ {Head(q)}
    <3>1. k + 1 \in 1 .. Len(q) /\ q[k + 1] = u
      BY <1>1, <2>3
    <3> QED BY <1>2, <2>1, <2>3, <3>1
  <2> QED BY <2>1, <2>2, <2>3
<1>5. Head(q) \in S
  BY <1>1 DEF Lists
<1> QED BY <1>1, <1>3, <1>4, <1>5 DEF Lists

\* What a queue is without its i-th task: who was behind moved up.
LEMMA WithoutPlaces ==
    ASSUME NEW q \in Seq(Tasks), NEW i \in DOMAIN q
    PROVE  LET r == SubSeq(q, 1, i - 1) \o SubSeq(q, i + 1, Len(q))
           IN  /\ r \in Seq(Tasks) /\ DOMAIN r = 1 .. Len(q) - 1
               /\ \A k \in 1 .. Len(q) - 1 : r[k] = IF k < i THEN q[k] ELSE q[k + 1]
<1> DEFINE a == SubSeq(q, 1, i - 1)
           b == SubSeq(q, i + 1, Len(q))
           r == a \o b
<1>1. /\ DOMAIN q = 1 .. Len(q) /\ Len(q) \in Nat /\ i \in 1 .. Len(q)
      /\ \A k \in 1 .. Len(q) : q[k] \in Tasks
  BY LenProperties, ElementOfSeq
<1>2. /\ a \in Seq(Tasks) /\ Len(a) = i - 1
      /\ \A k \in 1 .. i - 1 : a[k] = q[k]
  <2>1. \A k \in 1 .. i - 1 : q[k] \in Tasks
    BY <1>1
  <2> QED BY <1>1, <2>1, SubSeqProperties
<1>3. /\ b \in Seq(Tasks) /\ Len(b) = Len(q) - i
      /\ \A k \in 1 .. Len(q) - i : b[k] = q[k + i]
  <2>1. \A k \in i + 1 .. Len(q) : q[k] \in Tasks
    BY <1>1
  <2>2. /\ b \in Seq(Tasks)
        /\ Len(b) = IF i + 1 <= Len(q) THEN Len(q) - (i + 1) + 1 ELSE 0
        /\ \A k \in 1 .. Len(q) - (i + 1) + 1 : b[k] = q[i + 1 + k - 1]
    BY <1>1, <2>1, SubSeqProperties
  <2>3. ASSUME NEW k \in 1 .. Len(q) - i
        PROVE  b[k] = q[k + i]
    <3>1. k \in 1 .. Len(q) - (i + 1) + 1 /\ i + 1 + k - 1 = k + i
      BY <1>1
    <3> QED BY <2>2, <3>1
  <2> QED BY <1>1, <2>2, <2>3
<1>4. /\ r \in Seq(Tasks) /\ DOMAIN r = 1 .. Len(q) - 1
      /\ \A k \in 1 .. Len(q) - 1 : r[k] = IF k < i THEN q[k] ELSE q[k + 1]
  <2>1. /\ r \in Seq(Tasks) /\ Len(r) = Len(a) + Len(b)
        /\ \A k \in 1 .. Len(a) + Len(b) :
                r[k] = IF k <= Len(a) THEN a[k] ELSE b[k - Len(a)]
    BY <1>2, <1>3, ConcatProperties
  <2>2. Len(r) = Len(q) - 1 /\ DOMAIN r = 1 .. Len(q) - 1
    BY <1>1, <1>2, <1>3, <2>1, LenProperties
  <2>3. ASSUME NEW k \in 1 .. Len(q) - 1
        PROVE  r[k] = IF k < i THEN q[k] ELSE q[k + 1]
    <3>1. CASE k < i
      BY <1>1, <1>2, <1>3, <2>1, <3>1
    <3>2. CASE ~(k < i)
      <4>1. k - Len(a) \in 1 .. Len(q) - i /\ k - Len(a) + i = k + 1
        BY <1>1, <1>2, <3>2
      <4>2. r[k] = b[k - Len(a)]
        <5>1. k \in 1 .. Len(a) + Len(b) /\ ~(k <= Len(a))
          BY <1>1, <1>2, <1>3, <3>2
        <5> HIDE DEF a, b, r
        <5> QED BY <2>1, <5>1
      <4> QED BY <1>3, <3>2, <4>1, <4>2
    <3> QED BY <3>1, <3>2
  <2> QED BY <2>1, <2>2, <2>3
<1> QED BY <1>4

LEMMA WithoutLists ==
    ASSUME NEW q \in Seq(Tasks), NEW S, NEW i \in DOMAIN q, Lists(q, S)
    PROVE  LET r == SubSeq(q, 1, i - 1) \o SubSeq(q, i + 1, Len(q))
           IN  /\ r \in Seq(Tasks)
               /\ Lists(r, S \ {q[i]})
<1> DEFINE r == SubSeq(q, 1, i - 1) \o SubSeq(q, i + 1, Len(q))
<1>1. DOMAIN q = 1 .. Len(q) /\ Len(q) \in Nat /\ i \in 1 .. Len(q)
  BY LenProperties
<1>2. /\ r \in Seq(Tasks) /\ DOMAIN r = 1 .. Len(q) - 1
      /\ \A k \in 1 .. Len(q) - 1 : r[k] = IF k < i THEN q[k] ELSE q[k + 1]
  BY WithoutPlaces
<1> HIDE DEF r
<1> DEFINE Old(k) == IF k < i THEN k ELSE k + 1
<1>3. \A k \in DOMAIN r : Old(k) \in DOMAIN q /\ Old(k) # i /\ r[k] = q[Old(k)]
  BY <1>1, <1>2
<1>4. \A k, l \in DOMAIN r : r[k] = r[l] => k = l
  <2> SUFFICES ASSUME NEW k \in DOMAIN r, NEW l \in DOMAIN r, r[k] = r[l]
               PROVE  k = l
    OBVIOUS
  <2>1. Old(k) = Old(l)
    <3> HIDE DEF Old
    <3> QED BY <1>3 DEF Lists
  <2> QED BY <1>1, <1>2, <2>1
<1>5. ASSUME NEW u \in Tasks
      PROVE  u \in S \ {q[i]} <=> \E k \in DOMAIN r : r[k] = u
  <2>1. u \in S <=> \E k \in DOMAIN q : q[k] = u
    BY DEF Lists
  <2>2. ASSUME NEW k \in DOMAIN q, q[k] = u, u # q[i]
        PROVE  \E l \in DOMAIN r : r[l] = u
    <3>1. CASE k < i
      BY <1>1, <1>2, <2>2, <3>1
    <3>2. CASE ~(k < i)
      <4>1. k # i
        BY <2>2
      <4>2. k - 1 \in 1 .. Len(q) - 1 /\ ~(k - 1 < i) /\ (k - 1) + 1 = k
        BY <1>1, <3>2, <4>1
      <4>3. r[k - 1] = q[k]
        BY <1>2, <4>2
      <4> QED BY <1>2, <2>2, <4>2, <4>3
    <3> QED BY <3>1, <3>2
  <2>3. ASSUME NEW l \in DOMAIN r, r[l] = u
        PROVE  u \in S \ {q[i]}
    <3> HIDE DEF Old
    <3>1. Old(l) \in DOMAIN q /\ Old(l) # i /\ q[Old(l)] = u
      BY <1>3, <2>3
    <3> QED BY <2>1, <3>1 DEF Lists
  <2> QED BY <2>1, <2>2, <2>3
<1>6. r \in Seq(Tasks) /\ Lists(r, S \ {q[i]})
  BY <1>2, <1>4, <1>5 DEF Lists
<1> QED BY <1>6 DEF r

------------------------------------------------------------------------------
(* Types, and who is in the queues.                                        *)

TypeInv == TypeOK /\ LocksHeldByWaiters

\* Moving one task to another state moves it between the places.
LEMMA CallMoves ==
    ASSUME TypeOK, NEW t \in Tasks, NEW x \in CallState,
           call' = [call EXCEPT ![t] = x]
    PROVE  /\ call' \in [Tasks -> CallState]
           /\ call'[t] = x
           /\ \A u \in Tasks \ {t} : call'[u] = call[u]
           /\ \A p : At(p)' = IF x.pc = p THEN At(p) \cup {t} ELSE At(p) \ {t}
<1>1. /\ call' \in [Tasks -> CallState]
      /\ call'[t] = x
      /\ \A u \in Tasks \ {t} : call'[u] = call[u]
  BY DEF TypeOK
<1>2. ASSUME NEW p
      PROVE  At(p)' = IF x.pc = p THEN At(p) \cup {t} ELSE At(p) \ {t}
  BY <1>1 DEF At
<1> QED BY <1>1, <1>2

\* The states a call can be in, told by its place and kind.
LEMMA CallFields ==
    ASSUME TypeOK, NEW t \in Tasks
    PROVE  /\ call[t].pc \in {"idle", "timeWait", "requestWait", "inFlight"}
           /\ call[t].kind \in Kinds
           /\ call[t].pc = "timeWait" => call[t].kind = "sync"
           /\ call[t].pc = "requestWait" /\ call[t].kind = "sync" =>
                    call[t].before \in Int
           /\ call[t].pc = "inFlight" =>
                    /\ call[t].sent \in Nat
                    /\ call[t].left \in BOOLEAN
                    /\ call[t].answer \in Nat \cup {None}
                    /\ call[t].kind = "sync" => call[t].before \in Int
                    /\ call[t].kind = "private" => call[t].stamp \in Int
<1>1. call[t] \in CallState
  BY DEF TypeOK
<1> QED BY <1>1 DEF CallState, Kinds, Reads

LEMMA ClockTypes ==
    ASSUME TypeOK
    PROVE  /\ now \in Nat /\ UnixMs \in Int
           /\ clock # None =>
                /\ clock.at \in Nat /\ clock.server_ms \in Int
                /\ clock.local_ms \in Int /\ Offset \in Int /\ Timestamp \in Int
BY ClientAssumption DEF TypeOK, UnixMs, ClockSync, Offset, Timestamp

LEMMA DoneTyped ==
    ASSUME NEW k \in Kinds, NEW e \in Errors \cup {"none", "synchronized"}
    PROVE  Done(k, e) \in CallState /\ Done(k, e).pc = "idle"
BY DEF Done, CallState

LEMMA SentTyped ==
    ASSUME TypeOK, NEW t \in Tasks, call[t].pc = "requestWait",
           call[t].kind = "private" => clock # None
    PROVE  Sent(call[t]) \in CallState /\ Sent(call[t]).pc = "inFlight"
<1>1. CASE call[t].kind = "sync"
  BY <1>1, CallFields, ClockTypes DEF Sent, CallState
<1>2. CASE call[t].kind = "public"
  BY <1>2, ClockTypes DEF Sent, CallState
<1>3. CASE call[t].kind = "private"
  BY <1>3, ClockTypes DEF Sent, CallState
<1> QED BY <1>1, <1>2, <1>3, CallFields DEF Kinds, Reads

LEMMA InitTyped == Init => TypeInv
<1> SUFFICES ASSUME Init PROVE TypeInv
  OBVIOUS
<1> USE ClientAssumption
<1>1. Done("sync", "none") \in CallState /\ Done("sync", "none").pc = "idle"
  BY DoneTyped DEF Kinds
<1>2. /\ TypeOK
      /\ timeQueue = << >> /\ requestQueue = << >>
      /\ \A t \in Tasks : call[t].pc = "idle"
  BY <1>1 DEF Init, TypeOK
<1>3. At("timeWait") = {} /\ At("requestWait") = {}
  BY <1>2 DEF At
<1>4. LocksHeldByWaiters
  BY <1>2, <1>3 DEF LocksHeldByWaiters, Lists
<1> QED BY <1>2, <1>4 DEF TypeInv
\* What the queue of a limiter does to the tasks suspended at it.
LEMMA TypedUnchanged ==
    ASSUME TypeInv, UNCHANGED <<timeQueue, requestQueue, call>>
    PROVE  LocksHeldByWaiters'
<1>1. \A p : At(p)' = At(p)
  BY DEF At
<1> QED BY <1>1 DEF TypeInv, LocksHeldByWaiters, Lists

\* A call that moves between places outside the queues.
LEMMA MoveOutside ==
    ASSUME TypeInv, NEW t \in Tasks, NEW x \in CallState,
           call[t].pc \in {"idle", "inFlight"}, x.pc \in {"idle", "inFlight"},
           call' = [call EXCEPT ![t] = x],
           UNCHANGED <<timeQueue, requestQueue>>
    PROVE  call' \in [Tasks -> CallState] /\ LocksHeldByWaiters'
<1>1. At("timeWait")' = At("timeWait") /\ At("requestWait")' = At("requestWait")
  BY CallMoves DEF At, TypeInv
<1>2. Lists(timeQueue', At("timeWait")') /\ Lists(requestQueue', At("requestWait")')
  BY <1>1 DEF TypeInv, LocksHeldByWaiters
<1> QED BY <1>2, CallMoves DEF TypeInv, LocksHeldByWaiters

\* A call that joins the request queue from outside the queues.
LEMMA JoinRequests ==
    ASSUME TypeInv, NEW t \in Tasks, NEW x \in CallState,
           call[t].pc = "idle", x.pc = "requestWait",
           call' = [call EXCEPT ![t] = x],
           requestQueue' = Append(requestQueue, t), UNCHANGED timeQueue
    PROVE  /\ call' \in [Tasks -> CallState]
           /\ requestQueue' \in Seq(Tasks)
           /\ LocksHeldByWaiters'
<1>1. /\ At("timeWait")' = At("timeWait")
      /\ At("requestWait")' = At("requestWait") \cup {t}
      /\ t \notin At("requestWait")
  BY CallMoves DEF At, TypeInv
<1>2. requestQueue' \in Seq(Tasks) /\ Lists(requestQueue', At("requestWait")')
  BY <1>1, AppendLists DEF TypeInv, TypeOK, LocksHeldByWaiters
<1>3. Lists(timeQueue', At("timeWait")')
  BY <1>1 DEF TypeInv, LocksHeldByWaiters
<1> QED BY <1>2, <1>3, CallMoves DEF TypeInv, LocksHeldByWaiters

\* A call whose request slot is granted leaves the head of the request queue.
LEMMA LeaveRequests ==
    ASSUME TypeInv, NEW t \in Tasks, NEW x \in CallState,
           RequestPacer!Grant(t), x.pc \in {"idle", "inFlight"},
           call' = [call EXCEPT ![t] = x], UNCHANGED timeQueue
    PROVE  /\ call' \in [Tasks -> CallState]
           /\ requestQueue' \in Seq(Tasks)
           /\ LocksHeldByWaiters'
<1>1. /\ requestQueue # << >> /\ t = Head(requestQueue)
      /\ requestQueue' = Tail(requestQueue)
  BY DEF RequestPacer!Grant
<1>2. /\ t \in At("requestWait")
      /\ requestQueue' \in Seq(Tasks)
      /\ Lists(requestQueue', At("requestWait") \ {t})
  BY <1>1, TailLists DEF TypeInv, TypeOK, LocksHeldByWaiters
<1>3. /\ At("timeWait")' = At("timeWait")
      /\ At("requestWait")' = At("requestWait") \ {t}
  BY <1>2, CallMoves DEF At, TypeInv
<1>4. Lists(timeQueue', At("timeWait")') /\ Lists(requestQueue', At("requestWait")')
  BY <1>2, <1>3 DEF TypeInv, LocksHeldByWaiters
<1> QED BY <1>2, <1>4, CallMoves DEF TypeInv, LocksHeldByWaiters

LEMMA RequestHolderWaits ==
    ASSUME TypeInv, NEW t \in Tasks, RequestPacer!Grant(t)
    PROVE  call[t].pc = "requestWait"
<1>1. t \in At("requestWait")
  BY TailLists DEF RequestPacer!Grant, TypeInv, TypeOK, LocksHeldByWaiters
<1> QED BY <1>1 DEF At

LEMMA TakeTimeSlotTyped ==
    ASSUME TypeInv, NEW t \in Tasks, TakeTimeSlot(t)
    PROVE  /\ call' \in [Tasks -> CallState]
           /\ timeQueue' \in Seq(Tasks) /\ requestQueue' \in Seq(Tasks)
           /\ LocksHeldByWaiters'
<1> DEFINE x == [pc |-> "requestWait", kind |-> "sync", before |-> UnixMs]
<1>1. x \in CallState /\ x.pc = "requestWait" /\ call' = [call EXCEPT ![t] = x]
  BY ClockTypes DEF CallState, TypeInv, TakeTimeSlot
<1>2. /\ timeQueue # << >> /\ t = Head(timeQueue)
      /\ timeQueue' = Tail(timeQueue)
      /\ requestQueue' = Append(requestQueue, t)
  BY DEF TakeTimeSlot, TimePacer!Grant, RequestPacer!Enqueue
<1>3. /\ t \in At("timeWait")
      /\ timeQueue' \in Seq(Tasks)
      /\ Lists(timeQueue', At("timeWait") \ {t})
  BY <1>2, TailLists DEF TypeInv, TypeOK, LocksHeldByWaiters
<1> HIDE DEF x
<1>4. /\ At("timeWait")' = At("timeWait") \ {t}
      /\ At("requestWait")' = At("requestWait") \cup {t}
      /\ t \notin At("requestWait")
  BY <1>1, <1>3, CallMoves DEF At, TypeInv
<1>5. requestQueue' \in Seq(Tasks) /\ Lists(requestQueue', At("requestWait")')
  BY <1>2, <1>4, AppendLists DEF TypeInv, TypeOK, LocksHeldByWaiters
<1>6. Lists(timeQueue', At("timeWait")')
  BY <1>3, <1>4
<1> QED BY <1>1, <1>3, <1>5, <1>6, CallMoves DEF TypeInv, LocksHeldByWaiters

LEMMA CallSyncTyped ==
    ASSUME TypeInv, NEW t \in Tasks, CallSync(t)
    PROVE  /\ call' \in [Tasks -> CallState]
           /\ timeQueue' \in Seq(Tasks)
           /\ LocksHeldByWaiters'
<1> DEFINE x == [pc |-> "timeWait", kind |-> "sync"]
<1>1. /\ x \in CallState /\ x.pc = "timeWait" /\ call' = [call EXCEPT ![t] = x]
      /\ timeQueue' = Append(timeQueue, t) /\ UNCHANGED requestQueue
      /\ call[t].pc = "idle"
  BY DEF CallState, CallSync, TimePacer!Enqueue
<1> HIDE DEF x
<1>2. /\ At("timeWait")' = At("timeWait") \cup {t}
      /\ At("requestWait")' = At("requestWait")
      /\ t \notin At("timeWait")
  BY <1>1, CallMoves DEF At, TypeInv
<1>3. timeQueue' \in Seq(Tasks) /\ Lists(timeQueue', At("timeWait")')
  BY <1>1, <1>2, AppendLists DEF TypeInv, TypeOK, LocksHeldByWaiters
<1>4. Lists(requestQueue', At("requestWait")')
  BY <1>1, <1>2 DEF TypeInv, LocksHeldByWaiters
<1> QED BY <1>1, <1>3, <1>4, CallMoves DEF TypeInv, LocksHeldByWaiters

LEMMA CancelTyped ==
    ASSUME TypeInv, NEW t \in Tasks, Cancel(t)
    PROVE  /\ call' \in [Tasks -> CallState]
           /\ timeQueue' \in Seq(Tasks) /\ requestQueue' \in Seq(Tasks)
           /\ lastTime' = lastTime /\ lastRequest' = lastRequest
           /\ LocksHeldByWaiters'
<1> DEFINE x == Done(call[t].kind, "none")
<1>1. x \in CallState /\ x.pc = "idle" /\ call' = [call EXCEPT ![t] = x]
  BY CallFields, DoneTyped DEF Cancel, TypeInv
<1> HIDE DEF x
<1>2. \A p : p # "idle" => At(p)' = At(p) \ {t}
  BY <1>1, CallMoves DEF TypeInv
<1>3. CASE /\ call[t].pc = "timeWait"
           /\ TimePacer!Leave(t)
           /\ UNCHANGED <<requestQueue, lastRequest>>
  <2>1. PICK i \in DOMAIN timeQueue :
            /\ timeQueue[i] = t
            /\ timeQueue' = SubSeq(timeQueue, 1, i - 1)
                                \o SubSeq(timeQueue, i + 1, Len(timeQueue))
    BY <1>3 DEF TimePacer!Leave, TimePacer!Without
  <2>2. timeQueue' \in Seq(Tasks) /\ Lists(timeQueue', At("timeWait") \ {t})
    BY <2>1, WithoutLists DEF TypeInv, TypeOK, LocksHeldByWaiters
  <2>3. At("requestWait") \ {t} = At("requestWait")
    BY <1>3 DEF At
  <2>4. Lists(timeQueue', At("timeWait")') /\ Lists(requestQueue', At("requestWait")')
    BY <1>2, <1>3, <2>2, <2>3 DEF TypeInv, LocksHeldByWaiters
  <2>5. lastTime' = lastTime /\ lastRequest' = lastRequest
    BY <1>3 DEF TimePacer!Leave
  <2> QED BY <1>1, <1>3, <2>2, <2>4, <2>5, CallMoves
          DEF TypeInv, TypeOK, LocksHeldByWaiters
<1>4. CASE /\ call[t].pc = "requestWait"
           /\ RequestPacer!Leave(t)
           /\ UNCHANGED <<timeQueue, lastTime>>
  <2>1. PICK i \in DOMAIN requestQueue :
            /\ requestQueue[i] = t
            /\ requestQueue' = SubSeq(requestQueue, 1, i - 1)
                                \o SubSeq(requestQueue, i + 1, Len(requestQueue))
    BY <1>4 DEF RequestPacer!Leave, RequestPacer!Without
  <2>2. requestQueue' \in Seq(Tasks) /\ Lists(requestQueue', At("requestWait") \ {t})
    BY <2>1, WithoutLists DEF TypeInv, TypeOK, LocksHeldByWaiters
  <2>3. At("timeWait") \ {t} = At("timeWait")
    BY <1>4 DEF At
  <2>4. Lists(timeQueue', At("timeWait")') /\ Lists(requestQueue', At("requestWait")')
    BY <1>2, <1>4, <2>2, <2>3 DEF TypeInv, LocksHeldByWaiters
  <2>5. lastTime' = lastTime /\ lastRequest' = lastRequest
    BY <1>4 DEF RequestPacer!Leave
  <2> QED BY <1>1, <1>4, <2>2, <2>4, <2>5, CallMoves
          DEF TypeInv, TypeOK, LocksHeldByWaiters
<1>5. CASE call[t].pc = "inFlight" /\ UNCHANGED waiting
  BY <1>1, <1>5, MoveOutside DEF waiting, TypeInv, TypeOK
<1> QED BY <1>3, <1>4, <1>5 DEF Cancel

LEMMA MidpointTyped ==
    ASSUME NEW b \in Int, NEW a \in Int
    PROVE  Midpoint(b, a) \in Int
BY DEF Midpoint, HalfOf

LEMMA ReadTyped ==
    ASSUME TypeInv, NEW t \in Tasks, FinishRead(t)
    PROVE  call' \in [Tasks -> CallState] /\ LocksHeldByWaiters'
<1> DEFINE obs == ObservationAt(UnixMs)
           x == IF ClockUsable
                THEN Observed(call[t].kind, obs.source, obs.received)
                ELSE Done(call[t].kind, "ClockUnavailable")
<1>1. call[t].pc = "inFlight" /\ call[t].kind \in Reads
  BY DEF FinishRead
<1>2. ASSUME ClockUsable
      PROVE  obs.source \in Int /\ obs.received \in Int
  BY <1>2, ClockTypes DEF ClockUsable, ObservationAt, TypeInv
<1>3. x \in CallState /\ x.pc = "idle"
  <2>1. CASE ClockUsable
    BY <1>1, <1>2, <2>1 DEF Observed, CallState, Reads
  <2>2. CASE ~ClockUsable
    BY <1>1, <2>2, DoneTyped DEF Kinds, Errors
  <2> QED BY <2>1, <2>2
<1>4. call' = [call EXCEPT ![t] = x] /\ UNCHANGED <<timeQueue, requestQueue>>
  BY DEF FinishRead, waiting
<1> HIDE DEF x
<1> QED BY <1>1, <1>3, <1>4, MoveOutside

\* A refusal is an error of the client.
LEMMA RefusedWith ==
    ASSUME NEW t \in Tasks, NEW k \in Reads, RefuseRead(t, k)
    PROVE  /\ call[t].pc = "idle" /\ UNCHANGED <<clocks, waiting, clock, wire, timeSent>>
           /\ \E e \in Errors : call' = [call EXCEPT ![t] = Done(k, e)]
BY DEF RefuseRead, Errors

LEMMA DepartTyped ==
    ASSUME TypeInv, NEW t \in Tasks, Depart(t)
    PROVE  call' \in [Tasks -> CallState] /\ LocksHeldByWaiters'
<1> DEFINE x == [call[t] EXCEPT !.left = TRUE]
<1>1. x \in CallState /\ x.pc = "inFlight"
  <2>1. call[t] \in CallState /\ call[t].pc = "inFlight"
    BY DEF TypeInv, TypeOK, Depart
  <2> QED BY <2>1 DEF CallState
<1>2. /\ call' = [call EXCEPT ![t] = x] /\ call[t].pc = "inFlight"
      /\ UNCHANGED <<timeQueue, requestQueue>>
  BY DEF Depart, waiting
<1> HIDE DEF x
<1> QED BY <1>1, <1>2, MoveOutside

LEMMA AnswerTyped ==
    ASSUME TypeInv, NEW t \in Tasks, Answer(t)
    PROVE  call' \in [Tasks -> CallState] /\ LocksHeldByWaiters'
<1> DEFINE x == [call[t] EXCEPT !.answer = ServerNow]
<1>1. x \in CallState /\ x.pc = "inFlight"
  <2>1. call[t] \in CallState /\ call[t].pc = "inFlight" /\ now \in Nat
    BY ClockTypes DEF TypeInv, TypeOK, Answer
  <2> QED BY <2>1 DEF CallState, ServerNow
<1>2. /\ call' = [call EXCEPT ![t] = x] /\ call[t].pc = "inFlight"
      /\ UNCHANGED <<timeQueue, requestQueue>>
  BY DEF Answer, waiting
<1> HIDE DEF x
<1> QED BY <1>1, <1>2, MoveOutside

LEMMA NextTyped == TypeInv /\ [Next]_vars => TypeInv'
<1> SUFFICES ASSUME TypeInv, [Next]_vars PROVE TypeInv'
  OBVIOUS
<1> USE ClientAssumption
<1> USE DEF TypeInv
<1>1. ASSUME NEW t \in Tasks, CallSync(t) PROVE TypeInv'
  BY <1>1, CallSyncTyped DEF CallSync, TypeOK, TimePacer!Enqueue, clocks
<1>2. ASSUME NEW t \in Tasks, TakeTimeSlot(t) PROVE TypeInv'
  <2>1. /\ lastTime' = now /\ now \in Nat
        /\ UNCHANGED <<clocks, lastRequest, clock, wire, timeSent>>
    BY <1>2, ClockTypes DEF TakeTimeSlot, TimePacer!Grant, RequestPacer!Enqueue
  <2> QED BY <1>2, <2>1, TakeTimeSlotTyped DEF TypeOK, clocks
<1>3. ASSUME NEW t \in Tasks, FinishSync(t) PROVE TypeInv'
  <2> DEFINE midpoint == Midpoint(call[t].before, UnixMs)
             skewed == Abs(call[t].answer - midpoint) > CLOCK_MAX_SKEW
             x == Done("sync", IF skewed THEN "ClockSkew" ELSE "synchronized")
  <2>1. /\ call[t].pc = "inFlight"
        /\ call' = [call EXCEPT ![t] = x]
        /\ clock' = IF skewed THEN clock
                    ELSE [at |-> now, server_ms |-> call[t].answer,
                          local_ms |-> midpoint]
        /\ UNCHANGED <<clocks, waiting, wire, timeSent>>
    BY <1>3 DEF FinishSync
  <2>2. x \in CallState /\ x.pc = "idle"
    BY DoneTyped DEF Kinds, Errors
  <2>3. midpoint \in Int /\ call[t].answer \in Nat /\ now \in Nat
    BY <1>3, CallFields, ClockTypes, MidpointTyped DEF FinishSync
  <2> HIDE DEF x, midpoint, skewed
  <2>4. clock' \in ClockSync \cup {None}
    BY <2>1, <2>3 DEF ClockSync, TypeOK
  <2>5. call' \in [Tasks -> CallState] /\ LocksHeldByWaiters'
    BY <2>1, <2>2, MoveOutside DEF waiting
  <2> QED BY <2>1, <2>4, <2>5 DEF TypeOK, clocks, waiting
<1>4. ASSUME NEW t \in Tasks, NEW k \in Reads, CallRead(t, k) PROVE TypeInv'
  <2>1. [pc |-> "requestWait", kind |-> k] \in CallState
    BY DEF CallState
  <2> QED BY <1>4, <2>1, JoinRequests
          DEF CallRead, RequestPacer!Enqueue, TypeOK, clocks
<1>5. ASSUME NEW t \in Tasks, NEW k \in Reads, RefuseRead(t, k) PROVE TypeInv'
  <2>1. PICK e \in Errors : call' = [call EXCEPT ![t] = Done(k, e)]
    BY <1>5, RefusedWith
  <2>2. Done(k, e) \in CallState /\ Done(k, e).pc = "idle"
    BY DoneTyped DEF Kinds
  <2>3. call[t].pc = "idle" /\ UNCHANGED <<clocks, waiting, clock, wire, timeSent>>
    BY <1>5, RefusedWith
  <2> QED BY <2>1, <2>2, <2>3, MoveOutside DEF TypeOK, clocks, waiting
<1>6. ASSUME NEW t \in Tasks, FinishRead(t) PROVE TypeInv'
  BY <1>6, ReadTyped DEF FinishRead, TypeOK, clocks, waiting
<1>7. ASSUME NEW t \in Tasks, SendRequest(t) PROVE TypeInv'
  <2>1. RequestPacer!Grant(t) /\ call[t].pc = "requestWait"
    BY <1>7, RequestHolderWaits DEF SendRequest
  <2>2. Sent(call[t]) \in CallState /\ Sent(call[t]).pc = "inFlight"
    BY <1>7, <2>1, SentTyped DEF SendRequest, ClockUsable
  <2>3. /\ call' \in [Tasks -> CallState] /\ LocksHeldByWaiters'
        /\ requestQueue' \in Seq(Tasks)
    BY <1>7, <2>1, <2>2, LeaveRequests DEF SendRequest
  <2>4. lastRequest' \in Nat \cup {None}
    BY <2>1, ClockTypes DEF RequestPacer!Grant
  <2>5. timeSent' \in Nat \cup {None}
    BY <1>7, ClockTypes DEF SendRequest, TypeOK
  <2> QED BY <1>7, <2>3, <2>4, <2>5 DEF SendRequest, TypeOK, clocks
<1>8. ASSUME NEW t \in Tasks, RefuseToSign(t) PROVE TypeInv'
  <2> DEFINE x == Done("private",
                    IF ClockUsable THEN "ClockSkew" ELSE "ClockUnavailable")
  <2>1. x \in CallState /\ x.pc = "idle"
    BY DoneTyped DEF Kinds, Reads, Errors
  <2>2. RequestPacer!Grant(t) /\ call' = [call EXCEPT ![t] = x]
    BY <1>8 DEF RefuseToSign
  <2> HIDE DEF x
  <2>3. /\ call' \in [Tasks -> CallState] /\ LocksHeldByWaiters'
        /\ requestQueue' \in Seq(Tasks)
    BY <1>8, <2>1, <2>2, LeaveRequests DEF RefuseToSign
  <2>4. lastRequest' \in Nat \cup {None}
    BY <2>2, ClockTypes DEF RequestPacer!Grant
  <2> QED BY <1>8, <2>3, <2>4 DEF RefuseToSign, TypeOK, clocks
<1>9. ASSUME NEW t \in Tasks, Answer(t) PROVE TypeInv'
  BY <1>9, AnswerTyped DEF Answer, TypeOK, clocks, waiting
<1>10. ASSUME NEW t \in Tasks, Fail(t) PROVE TypeInv'
  <2>1. Done(call[t].kind, "Failed") \in CallState
        /\ Done(call[t].kind, "Failed").pc = "idle"
    BY DoneTyped, CallFields DEF Errors
  <2> QED BY <1>10, <2>1, MoveOutside DEF Fail, TypeOK, clocks, waiting
<1>11. ASSUME NEW t \in Tasks, Cancel(t) PROVE TypeInv'
  BY <1>11, CancelTyped DEF Cancel, TypeOK, clocks
<1>12. CASE Tick
  BY <1>12, TypedUnchanged DEF Tick, TypeOK, waiting
<1>13. CASE StepWall
  BY <1>13, TypedUnchanged DEF StepWall, TypeOK, waiting
<1>14. CASE UNCHANGED vars
  BY <1>14, TypedUnchanged DEF vars, TypeOK
<1>15. ASSUME NEW t \in Tasks, Depart(t) PROVE TypeInv'
  <2>1. UNCHANGED <<clocks, waiting, clock, timeSent>> /\ wire' = 1 - wire
    BY <1>15 DEF Depart
  <2>2. wire' \in {0, 1}
    BY <2>1 DEF TypeOK
  <2> QED BY <1>15, <2>1, <2>2, DepartTyped DEF TypeOK, clocks, waiting
<1> QED BY <1>1, <1>2, <1>3, <1>4, <1>5, <1>6, <1>7, <1>8, <1>9, <1>10, <1>11,
           <1>12, <1>13, <1>14, <1>15 DEF Next

\* Every variable keeps its type.
THEOREM TypeCorrect == Spec => []TypeOK
<1>1. Spec => []TypeInv
  BY InitTyped, NextTyped, PTL DEF Spec
<1> QED BY <1>1, PTL DEF TypeInv

\* synchronize_clock, get_rows: the AsyncMutexes are held and awaited by the
\* calls suspended at them and by nobody else, whatever calls are dropped.
THEOREM LocksReleased == Spec => []LocksHeldByWaiters
<1>1. Spec => []TypeInv
  BY InitTyped, NextTyped, PTL DEF Spec
<1> QED BY <1>1, PTL DEF TypeInv

------------------------------------------------------------------------------
(* Time: when requests were sent and answered, and what a sync knows.      *)

\* A request is not in flight for longer than its timeout, and was answered,
\* if at all, since it was sent.
FlightTimed(c) ==
    c.pc = "inFlight" =>
        /\ c.sent <= now /\ now - c.sent <= HTTP_TIMEOUT
        /\ c.answer # None => c.sent <= c.answer /\ c.answer <= now

\* The stamp of a signed request, as SignedTimestampAccurate has it.
StampClose(c) ==
    c.pc = "inFlight" /\ c.kind = "private" =>
        Abs(c.stamp - c.sent) <= MAX_DRIFT + HTTP_TIMEOUT

TimeInv ==
    /\ \A t \in Tasks : FlightTimed(call[t]) /\ StampClose(call[t])
    /\ clock # None => clock.at <= now
    /\ SyncSampleRecent

\* A step that leaves now and the clock alone and changes one call into one
\* that is timed keeps everything timed.
LEMMA OneCallTimed ==
    ASSUME TypeInv, TimeInv, NEW t \in Tasks, NEW x,
           call' = [call EXCEPT ![t] = x], FlightTimed(x), StampClose(x),
           UNCHANGED <<now, clock>>
    PROVE  TimeInv'
<1>1. \A u \in Tasks : call'[u] = IF u = t THEN x ELSE call[u]
  BY DEF TypeInv, TypeOK
<1>2. \A u \in Tasks : FlightTimed(call'[u]) /\ StampClose(call'[u])
  BY <1>1 DEF TimeInv
<1>3. \A u \in Tasks : FlightTimed(call[u])' /\ StampClose(call[u])'
  BY <1>2 DEF FlightTimed, StampClose
<1> QED BY <1>3 DEF TimeInv, SyncSampleRecent

\* A call that is not in flight is timed.
LEMMA OtherCallTimed ==
    ASSUME TypeInv, TimeInv, NEW t \in Tasks, NEW x, x.pc # "inFlight",
           call' = [call EXCEPT ![t] = x], UNCHANGED <<now, clock>>
    PROVE  TimeInv'
<1>1. FlightTimed(x) /\ StampClose(x)
  BY DEF FlightTimed, StampClose
<1> QED BY <1>1, OneCallTimed

LEMMA SendTimed ==
    ASSUME TypeInv, TimeInv, NEW t \in Tasks, SendRequest(t)
    PROVE  TimeInv'
<1>1. /\ call[t].pc = "requestWait"
      /\ call' = [call EXCEPT ![t] = Sent(call[t])]
      /\ UNCHANGED <<now, clock>>
      /\ call[t].kind = "private" => ClockUsable /\ ~Drifted
  BY RequestHolderWaits DEF SendRequest, clocks
<1>2. call[t].kind \in {"sync", "public", "private"} /\ now \in Nat
  BY CallFields, ClockTypes DEF TypeInv, Kinds, Reads
<1>3. FlightTimed(Sent(call[t]))
  <2>1. CASE call[t].kind = "sync"
    BY <1>2, <2>1, ClientAssumption DEF Sent, FlightTimed
  <2>2. CASE call[t].kind = "public"
    BY <1>2, <2>2, ClientAssumption DEF Sent, FlightTimed
  <2>3. CASE call[t].kind = "private"
    BY <1>2, <2>3, ClientAssumption DEF Sent, FlightTimed
  <2> QED BY <1>2, <2>1, <2>2, <2>3
<1>4. StampClose(Sent(call[t]))
  <2>1. CASE call[t].kind = "private"
    <3>1. Sent(call[t]).stamp = Timestamp /\ Sent(call[t]).sent = now
      BY <2>1 DEF Sent
    <3>2. /\ clock # None /\ clock.at \in Nat /\ clock.server_ms \in Int
          /\ clock.local_ms \in Int /\ UnixMs \in Int
      BY <1>1, <2>1, ClockTypes DEF ClockUsable, TypeInv
    <3>3. Abs(UnixMs - clock.local_ms - (now - clock.at)) <= MAX_DRIFT
      BY <1>1, <1>2, <2>1, <3>2, ClientAssumption DEF Drifted, Abs
    <3>4. /\ clock.server_ms <= clock.at
          /\ clock.at - clock.server_ms <= HTTP_TIMEOUT
      BY <3>2 DEF TimeInv, SyncSampleRecent
    <3>5. Abs(Timestamp - now) <= MAX_DRIFT + HTTP_TIMEOUT
      BY <1>2, <3>2, <3>3, <3>4, ClientAssumption DEF Timestamp, Offset, Abs
    <3> QED BY <3>1, <3>5 DEF StampClose
  <2>2. CASE call[t].kind = "sync"
    BY <2>2 DEF Sent, StampClose
  <2>3. CASE call[t].kind = "public"
    BY <2>3 DEF Sent, StampClose
  <2> QED BY <1>2, <2>1, <2>2, <2>3
<1> QED BY <1>1, <1>3, <1>4, OneCallTimed

LEMMA DepartTimed ==
    ASSUME TypeInv, TimeInv, NEW t \in Tasks, Depart(t)
    PROVE  TimeInv'
<1> DEFINE x == [call[t] EXCEPT !.left = TRUE]
<1>1. call' = [call EXCEPT ![t] = x] /\ UNCHANGED <<now, clock>>
  BY DEF Depart, clocks
<1>2. /\ x.pc = call[t].pc /\ x.kind = call[t].kind
      /\ x.sent = call[t].sent /\ x.answer = call[t].answer
      /\ x.kind = "private" => x.stamp = call[t].stamp
  BY DEF Depart, TypeInv, TypeOK, CallState
<1>3. FlightTimed(call[t]) /\ StampClose(call[t])
  BY DEF TimeInv
<1> HIDE DEF x
<1>4. FlightTimed(x) /\ StampClose(x)
  BY <1>2, <1>3 DEF FlightTimed, StampClose
<1> QED BY <1>1, <1>4, OneCallTimed

LEMMA AnswerTimed ==
    ASSUME TypeInv, TimeInv, NEW t \in Tasks, Answer(t)
    PROVE  TimeInv'
<1> DEFINE x == [call[t] EXCEPT !.answer = ServerNow]
<1>1. /\ call[t].pc = "inFlight" /\ call' = [call EXCEPT ![t] = x]
      /\ UNCHANGED <<now, clock>>
  BY DEF Answer, clocks
<1>2. /\ x.pc = call[t].pc /\ x.kind = call[t].kind /\ x.sent = call[t].sent
      /\ x.answer = now
      /\ x.kind = "private" => x.stamp = call[t].stamp
  BY <1>1 DEF TypeInv, TypeOK, CallState, ServerNow
<1>3. FlightTimed(call[t]) /\ StampClose(call[t]) /\ now \in Nat
  BY ClockTypes DEF TimeInv, TypeInv
<1> HIDE DEF x
<1>4. FlightTimed(x) /\ StampClose(x)
  BY <1>1, <1>2, <1>3 DEF FlightTimed, StampClose
<1> QED BY <1>1, <1>4, OneCallTimed

LEMMA FinishSyncTimed ==
    ASSUME TypeInv, TimeInv, NEW t \in Tasks, FinishSync(t)
    PROVE  TimeInv'
<1> DEFINE skewed == Abs(call[t].answer - Midpoint(call[t].before, UnixMs))
                            > CLOCK_MAX_SKEW
           x == Done("sync", IF skewed THEN "ClockSkew" ELSE "synchronized")
<1>1. x.pc = "idle" /\ call' = [call EXCEPT ![t] = x]
  BY DEF FinishSync, Done
<1> HIDE DEF x
<1>2. \/ clock' = clock
      \/ \E m : clock' = [at |-> now, server_ms |-> call[t].answer, local_ms |-> m]
  BY DEF FinishSync
<1>3. /\ now' = now /\ now \in Nat
      /\ call[t].pc = "inFlight" /\ call[t].answer # None
      /\ call[t].answer \in Nat /\ call[t].sent \in Nat
  BY CallFields, ClockTypes DEF FinishSync, clocks, TypeInv
<1>4. \A u \in Tasks : FlightTimed(call[u])' /\ StampClose(call[u])'
  <2>1. \A u \in Tasks : call'[u] = IF u = t THEN x ELSE call[u]
    BY <1>1 DEF TypeInv, TypeOK
  <2> QED BY <1>1, <1>3, <2>1 DEF TimeInv, FlightTimed, StampClose
<1>5. (clock # None => clock.at <= now)' /\ SyncSampleRecent'
  <2>1. CASE clock' = clock
    BY <1>3, <2>1 DEF TimeInv, SyncSampleRecent
  <2>2. CASE \E m : clock' = [at |-> now, server_ms |-> call[t].answer, local_ms |-> m]
    <3>1. clock'.at = now /\ clock'.server_ms = call[t].answer
      BY <2>2
    <3>2. call[t].answer <= now /\ now - call[t].answer <= HTTP_TIMEOUT
      BY <1>3, ClientAssumption DEF TimeInv, FlightTimed
    <3> QED BY <1>3, <3>1, <3>2 DEF SyncSampleRecent
  <2> QED BY <1>2, <2>1, <2>2
<1> QED BY <1>4, <1>5 DEF TimeInv

LEMMA NextTimed == TypeInv /\ TimeInv /\ [Next]_vars => TimeInv'
<1> SUFFICES ASSUME TypeInv, TimeInv, [Next]_vars PROVE TimeInv'
  OBVIOUS
<1>1. ASSUME NEW t \in Tasks, CallSync(t) PROVE TimeInv'
  BY <1>1, OtherCallTimed DEF CallSync, clocks
<1>2. ASSUME NEW t \in Tasks, TakeTimeSlot(t) PROVE TimeInv'
  BY <1>2, OtherCallTimed DEF TakeTimeSlot, clocks
<1>3. ASSUME NEW t \in Tasks, NEW k \in Reads, CallRead(t, k) PROVE TimeInv'
  BY <1>3, OtherCallTimed DEF CallRead, clocks
<1>4. ASSUME NEW t \in Tasks, NEW k \in Reads, RefuseRead(t, k) PROVE TimeInv'
  <2>1. PICK e \in Errors : call' = [call EXCEPT ![t] = Done(k, e)]
    BY <1>4, RefusedWith
  <2>2. Done(k, e).pc # "inFlight" /\ UNCHANGED <<now, clock>>
    BY <1>4, RefusedWith DEF Done, clocks
  <2> QED BY <2>1, <2>2, OtherCallTimed
<1>5. ASSUME NEW t \in Tasks, FinishRead(t) PROVE TimeInv'
  <2> DEFINE obs == ObservationAt(UnixMs)
             x == IF ClockUsable
                  THEN Observed(call[t].kind, obs.source, obs.received)
                  ELSE Done(call[t].kind, "ClockUnavailable")
  <2>1. x.pc = "idle"
    BY DEF Observed, Done
  <2>2. call' = [call EXCEPT ![t] = x] /\ UNCHANGED <<now, clock>>
    BY <1>5 DEF FinishRead, clocks
  <2> HIDE DEF x
  <2> QED BY <2>1, <2>2, OtherCallTimed
<1>6. ASSUME NEW t \in Tasks, RefuseToSign(t) PROVE TimeInv'
  <2> DEFINE x == Done("private",
                    IF ClockUsable THEN "ClockSkew" ELSE "ClockUnavailable")
  <2>1. x.pc = "idle"
    BY DEF Done
  <2>2. call' = [call EXCEPT ![t] = x] /\ UNCHANGED <<now, clock>>
    BY <1>6 DEF RefuseToSign, clocks
  <2> HIDE DEF x
  <2> QED BY <2>1, <2>2, OtherCallTimed
<1>7. ASSUME NEW t \in Tasks, Fail(t) PROVE TimeInv'
  BY <1>7, OtherCallTimed DEF Fail, Done, clocks
<1>8. ASSUME NEW t \in Tasks, Cancel(t) PROVE TimeInv'
  BY <1>8, OtherCallTimed DEF Cancel, Done, clocks
<1>9. CASE Tick
  <2>1. /\ now' = now + 1 /\ UNCHANGED <<clock, call>> /\ now \in Nat
        /\ \A t \in Tasks :
                call[t].pc = "inFlight" => now - call[t].sent < HTTP_TIMEOUT
    BY <1>9, ClockTypes DEF Tick, InFlight, At, TypeInv
  <2>2. ASSUME NEW t \in Tasks PROVE FlightTimed(call[t])' /\ StampClose(call[t])'
    <3>1. FlightTimed(call[t]) /\ StampClose(call[t])
      BY DEF TimeInv
    <3>2. call[t].pc = "inFlight" =>
            call[t].sent \in Nat /\ call[t].answer \in Nat \cup {None}
      BY CallFields DEF TypeInv
    <3> QED BY <2>1, <3>1, <3>2, ClientAssumption DEF FlightTimed, StampClose
  <2>3. (clock # None => clock.at <= now)' /\ SyncSampleRecent'
    BY <2>1, ClockTypes DEF TimeInv, SyncSampleRecent, TypeInv
  <2> QED BY <2>2, <2>3 DEF TimeInv
<1>10. ASSUME UNCHANGED <<now, clock, call>> PROVE TimeInv'
  BY <1>10 DEF TimeInv, FlightTimed, StampClose, SyncSampleRecent
<1>11. CASE StepWall
  BY <1>10, <1>11 DEF StepWall
<1>12. CASE UNCHANGED vars
  BY <1>10, <1>12 DEF vars
<1>13. ASSUME NEW t \in Tasks, SendRequest(t) PROVE TimeInv'
  BY <1>13, SendTimed
<1>14. ASSUME NEW t \in Tasks, Answer(t) PROVE TimeInv'
  BY <1>14, AnswerTimed
<1>15. ASSUME NEW t \in Tasks, FinishSync(t) PROVE TimeInv'
  BY <1>15, FinishSyncTimed
<1>16. ASSUME NEW t \in Tasks, Depart(t) PROVE TimeInv'
  BY <1>16, DepartTimed
<1> QED BY <1>1, <1>2, <1>3, <1>4, <1>5, <1>6, <1>7, <1>8, <1>9, <1>11, <1>12,
           <1>13, <1>14, <1>15, <1>16 DEF Next

LEMMA AlwaysTimed == Spec => [](TypeInv /\ TimeInv)
<1>1. Init => TimeInv
  BY DEF Init, Done, TimeInv, FlightTimed, StampClose, SyncSampleRecent
<1> QED BY <1>1, InitTyped, NextTyped, NextTimed, PTL DEF Spec

\* synchronize_clock: the exchange's answer that a sync holds is at most one
\* request timeout older than the instant its age is counted from, however the
\* syncs overlap.
THEOREM SyncRecent == Spec => []SyncSampleRecent
BY AlwaysTimed, PTL DEF TimeInv

\* timestamp(): every signed request carries the exchange's time up to the
\* tolerated drift and one request timeout, for any steps of the local clock.
THEOREM SigningAccurate == Spec => []SignedTimestampAccurate
<1>1. TypeInv /\ TimeInv => SignedTimestampAccurate
  BY DEF TimeInv, StampClose, SignedTimestampAccurate
<1> QED BY <1>1, AlwaysTimed, PTL
------------------------------------------------------------------------------
(* Pacing: what leaves the client leaves on slots of a rate limiter.       *)

\* The slots of the requests in flight are as far apart as slots are, and none of
\* them is after the last.
SlotsApart ==
    /\ lastRequest # None => lastRequest <= now
    /\ \A t \in InFlight : lastRequest # None /\ call[t].sent <= lastRequest
    /\ \A t, u \in InFlight : t # u =>
            \/ call[t].sent + REQUEST_INTERVAL <= call[u].sent
            \/ call[u].sent + REQUEST_INTERVAL <= call[t].sent

LEMMA SlotTypes ==
    ASSUME TypeInv
    PROVE  /\ now \in Nat /\ lastRequest \in Nat \cup {None}
           /\ None \notin Int /\ REQUEST_INTERVAL \in Nat /\ REQUEST_INTERVAL > 0
           /\ \A t \in InFlight : call[t].sent \in Nat /\ call[t].left \in BOOLEAN
BY ClientAssumption, ClockTypes, CallFields DEF TypeInv, TypeOK, InFlight, At

\* A step that gives no request a slot leaves the slots in flight apart.
LEMMA KeptApart ==
    ASSUME TypeInv, SlotsApart, NEW t \in Tasks, NEW x,
           call' = [call EXCEPT ![t] = x], UNCHANGED <<now, lastRequest>>,
           x.pc = "inFlight" => call[t].pc = "inFlight" /\ x.sent = call[t].sent
    PROVE  SlotsApart'
<1>1. \A u \in Tasks : call'[u] = IF u = t THEN x ELSE call[u]
  BY DEF TypeInv, TypeOK
<1>2. \A u \in InFlight' : u \in InFlight /\ call'[u].sent = call[u].sent
  BY <1>1 DEF InFlight, At
<1> QED BY <1>2 DEF SlotsApart

\* What one call changes of the slots whose requests have not left.
LEMMA HandMoves ==
    ASSUME TypeInv, SlotsApart, NEW t \in Tasks, NEW x,
           call' = [call EXCEPT ![t] = x]
    PROVE  LET InHand(c) == c.pc = "inFlight" /\ ~c.left
           IN  /\ ~InHand(call[t]) /\ ~InHand(x) => UNCHANGED SlotsInHand
               /\ ~InHand(call[t]) /\ InHand(x) =>
                        SlotsInHand' = SlotsInHand \cup {x.sent}
               /\ InHand(call[t]) /\ ~InHand(x) =>
                        /\ call[t].sent \in SlotsInHand
                        /\ SlotsInHand' = SlotsInHand \ {call[t].sent}
<1> DEFINE InHand(c) == c.pc = "inFlight" /\ ~c.left
           Others == {call[u].sent : u \in {v \in Tasks \ {t} : InHand(call[v])}}
<1>1. \A u \in Tasks : call'[u] = IF u = t THEN x ELSE call[u]
  BY DEF TypeInv, TypeOK
<1>2. SlotsInHand = {call[u].sent : u \in {v \in Tasks : InHand(call[v])}}
  BY DEF SlotsInHand, InFlight, At
<1>3. SlotsInHand' = {call'[u].sent : u \in {v \in Tasks : InHand(call'[v])}}
  BY DEF SlotsInHand, InFlight, At
<1>4. SlotsInHand = IF InHand(call[t]) THEN Others \cup {call[t].sent} ELSE Others
  BY <1>2
<1>5. SlotsInHand' = IF InHand(x) THEN Others \cup {x.sent} ELSE Others
  BY <1>1, <1>3
<1>6. InHand(call[t]) => call[t].sent \notin Others
  <2> SUFFICES ASSUME InHand(call[t]), NEW u \in Tasks \ {t}, InHand(call[u])
               PROVE  call[t].sent # call[u].sent
    OBVIOUS
  <2>1. t \in InFlight /\ u \in InFlight /\ t # u
    BY DEF InFlight, At
  <2> QED BY <2>1, SlotTypes DEF SlotsApart
<1> HIDE DEF Others
<1> QED BY <1>4, <1>5, <1>6

\* A call that is waiting, or over, after the step: no request leaves by it.
LEMMA NothingLeaves ==
    ASSUME TypeInv, SlotsApart, NEW t \in Tasks, NEW x, x.pc # "inFlight",
           call' = [call EXCEPT ![t] = x], UNCHANGED <<now, lastRequest, wire>>
    PROVE  SlotsApart' /\ (Limit!Lapse \/ UNCHANGED Limit!limitVars)
<1>1. SlotsApart'
  BY KeptApart
<1>2. CASE call[t].pc = "inFlight" /\ ~call[t].left
  BY <1>1, <1>2, HandMoves DEF Limit!Lapse
<1>3. CASE ~(call[t].pc = "inFlight" /\ ~call[t].left)
  BY <1>1, <1>3, HandMoves DEF Limit!limitVars
<1> QED BY <1>2, <1>3

\* A slot is stamped by a call that was not in flight.
LEMMA SlotStamped ==
    ASSUME TypeInv, SlotsApart, NEW t \in Tasks, NEW x, RequestPacer!Grant(t),
           call' = [call EXCEPT ![t] = x], UNCHANGED <<now, wire>>,
           x.pc = "inFlight" => x.sent = now /\ ~x.left
    PROVE  SlotsApart' /\ Limit!Slot
<1>1. /\ lastRequest # None => now - lastRequest >= REQUEST_INTERVAL
      /\ lastRequest' = now /\ call[t].pc # "inFlight"
  BY RequestHolderWaits DEF RequestPacer!Grant, RequestPacer!SlotDue
<1>2. \A u \in Tasks : call'[u] = IF u = t THEN x ELSE call[u]
  BY DEF TypeInv, TypeOK
<1>3. \A u \in InFlight' :
        \/ u = t /\ call'[u].sent = now
        \/ u # t /\ u \in InFlight /\ call'[u].sent = call[u].sent
  BY <1>2 DEF InFlight, At
<1>4. \A u \in InFlight : call[u].sent + REQUEST_INTERVAL <= now
  BY <1>1, SlotTypes, SMT DEF SlotsApart
<1>5. SlotsApart'
  BY <1>1, <1>3, <1>4, SlotTypes DEF SlotsApart
<1>6. SlotsInHand' \in {SlotsInHand, SlotsInHand \cup {now}}
  BY <1>1, HandMoves
<1> QED BY <1>1, <1>5, <1>6 DEF Limit!Slot

LEMMA DepartLimited ==
    ASSUME TypeInv, SlotsApart, NEW t \in Tasks, Depart(t)
    PROVE  SlotsApart' /\ Limit!Emit
<1> DEFINE x == [call[t] EXCEPT !.left = TRUE]
<1>1. /\ call[t].pc = "inFlight" /\ ~call[t].left
      /\ call' = [call EXCEPT ![t] = x]
      /\ wire' = 1 - wire /\ UNCHANGED <<now, lastRequest>>
  BY DEF Depart, clocks, waiting
<1>2. x.pc = call[t].pc /\ x.sent = call[t].sent /\ x.left
  BY <1>1 DEF TypeInv, TypeOK, CallState
<1> HIDE DEF x
<1>3. SlotsApart'
  BY <1>1, <1>2, KeptApart
<1>4. call[t].sent \in SlotsInHand /\ SlotsInHand' = SlotsInHand \ {call[t].sent}
  BY <1>1, <1>2, HandMoves
<1> QED BY <1>1, <1>3, <1>4 DEF Limit!Emit

LEMMA AnswerLimited ==
    ASSUME TypeInv, SlotsApart, NEW t \in Tasks, Answer(t)
    PROVE  SlotsApart' /\ UNCHANGED Limit!limitVars
<1> DEFINE x == [call[t] EXCEPT !.answer = ServerNow]
<1>1. /\ call[t].pc = "inFlight" /\ call[t].left
      /\ call' = [call EXCEPT ![t] = x] /\ UNCHANGED <<now, lastRequest, wire>>
  BY DEF Answer, clocks, waiting
<1>2. x.pc = call[t].pc /\ x.sent = call[t].sent /\ x.left = call[t].left
  BY <1>1 DEF TypeInv, TypeOK, CallState
<1> HIDE DEF x
<1>3. SlotsApart'
  BY <1>1, <1>2, KeptApart
<1>4. UNCHANGED SlotsInHand
  BY <1>1, <1>2, HandMoves
<1> QED BY <1>1, <1>3, <1>4 DEF Limit!limitVars

LEMMA TickLimited ==
    ASSUME TypeInv, SlotsApart, Tick
    PROVE  SlotsApart' /\ Limit!Pass
<1>1. /\ now' = now + 1 /\ UNCHANGED <<lastRequest, call, wire>>
      /\ \A t \in InFlight : now - call[t].sent < HTTP_TIMEOUT
  BY DEF Tick, waiting
<1>2. InFlight' = InFlight /\ SlotsInHand' = SlotsInHand
  BY <1>1 DEF InFlight, At, SlotsInHand
<1>3. SlotsApart'
  BY <1>1, <1>2, SlotTypes DEF SlotsApart
<1>4. \A p \in SlotsInHand : now' - p <= HTTP_TIMEOUT
  <2> SUFFICES ASSUME NEW t \in InFlight PROVE now' - call[t].sent <= HTTP_TIMEOUT
    BY DEF SlotsInHand
  <2> QED BY <1>1, SlotTypes, ClientAssumption
<1>5. now' > now
  BY <1>1, SlotTypes
<1> QED BY <1>1, <1>2, <1>3, <1>4, <1>5 DEF Limit!Pass

LEMMA NextLimited ==
    TypeInv /\ SlotsApart /\ [Next]_vars =>
        SlotsApart' /\ [Limit!LimitNext]_(Limit!limitVars)
<1> DEFINE Goal == SlotsApart' /\ (Limit!LimitNext \/ UNCHANGED Limit!limitVars)
<1> SUFFICES ASSUME TypeInv, SlotsApart, [Next]_vars PROVE Goal
  OBVIOUS
<1> USE DEF Limit!LimitNext
<1>1. ASSUME NEW t \in Tasks, NEW x, x.pc # "inFlight",
             call' = [call EXCEPT ![t] = x], UNCHANGED <<now, lastRequest, wire>>
      PROVE  Goal
  BY <1>1, NothingLeaves
<1> HIDE DEF Goal
<1>2. ASSUME NEW t \in Tasks, CallSync(t) PROVE Goal
  BY <1>1, <1>2 DEF CallSync, clocks
<1>3. ASSUME NEW t \in Tasks, TakeTimeSlot(t) PROVE Goal
  BY <1>1, <1>3 DEF TakeTimeSlot, RequestPacer!Enqueue, clocks
<1>4. ASSUME NEW t \in Tasks, NEW k \in Reads, CallRead(t, k) PROVE Goal
  BY <1>1, <1>4 DEF CallRead, RequestPacer!Enqueue, clocks
<1>5. ASSUME NEW t \in Tasks, NEW k \in Reads, RefuseRead(t, k) PROVE Goal
  <2>1. PICK e \in Errors : call' = [call EXCEPT ![t] = Done(k, e)]
    BY <1>5, RefusedWith
  <2>2. Done(k, e).pc # "inFlight" /\ UNCHANGED <<now, lastRequest, wire>>
    BY <1>5, RefusedWith DEF Done, clocks, waiting
  <2> QED BY <1>1, <2>1, <2>2
<1>6. ASSUME NEW t \in Tasks, FinishSync(t) PROVE Goal
  <2> DEFINE skewed == Abs(call[t].answer - Midpoint(call[t].before, UnixMs))
                            > CLOCK_MAX_SKEW
             x == Done("sync", IF skewed THEN "ClockSkew" ELSE "synchronized")
  <2>1. /\ x.pc # "inFlight" /\ call' = [call EXCEPT ![t] = x]
        /\ UNCHANGED <<now, lastRequest, wire>>
    BY <1>6 DEF FinishSync, Done, clocks, waiting
  <2> HIDE DEF x
  <2> QED BY <1>1, <2>1
<1>7. ASSUME NEW t \in Tasks, FinishRead(t) PROVE Goal
  <2> DEFINE obs == ObservationAt(UnixMs)
             x == IF ClockUsable
                  THEN Observed(call[t].kind, obs.source, obs.received)
                  ELSE Done(call[t].kind, "ClockUnavailable")
  <2>1. x.pc # "inFlight"
    BY DEF Observed, Done
  <2>2. call' = [call EXCEPT ![t] = x] /\ UNCHANGED <<now, lastRequest, wire>>
    BY <1>7 DEF FinishRead, clocks, waiting
  <2> HIDE DEF x
  <2> QED BY <1>1, <2>1, <2>2
<1>8. ASSUME NEW t \in Tasks, Fail(t) \/ Cancel(t) PROVE Goal
  <2>1. PICK e \in {"Failed", "none"} :
            call' = [call EXCEPT ![t] = Done(call[t].kind, e)]
    BY <1>8 DEF Fail, Cancel
  <2>2. Done(call[t].kind, e).pc # "inFlight" /\ UNCHANGED <<now, lastRequest, wire>>
    BY <1>8 DEF Fail, Cancel, Done, clocks, waiting, TimePacer!Leave, RequestPacer!Leave
  <2> QED BY <1>1, <2>1, <2>2
<1>9. ASSUME NEW t \in Tasks, SendRequest(t) PROVE Goal
  <2>1. /\ RequestPacer!Grant(t) /\ call' = [call EXCEPT ![t] = Sent(call[t])]
        /\ UNCHANGED <<now, wire>>
    BY <1>9 DEF SendRequest, clocks
  <2>2. Sent(call[t]).sent = now /\ ~Sent(call[t]).left
    BY CallFields DEF Sent, TypeInv, Kinds, Reads
  <2> QED BY <2>1, <2>2, SlotStamped DEF Goal
<1>10. ASSUME NEW t \in Tasks, RefuseToSign(t) PROVE Goal
  <2> DEFINE x == Done("private",
                    IF ClockUsable THEN "ClockSkew" ELSE "ClockUnavailable")
  <2>1. x.pc # "inFlight"
    BY DEF Done
  <2>2. /\ RequestPacer!Grant(t) /\ call' = [call EXCEPT ![t] = x]
        /\ UNCHANGED <<now, wire>>
    BY <1>10 DEF RefuseToSign, clocks
  <2> HIDE DEF x
  <2> QED BY <2>1, <2>2, SlotStamped DEF Goal
<1>11. ASSUME NEW t \in Tasks, Depart(t) PROVE Goal
  BY <1>11, DepartLimited DEF Goal
<1>12. ASSUME NEW t \in Tasks, Answer(t) PROVE Goal
  BY <1>12, AnswerLimited DEF Goal
<1>13. CASE Tick
  BY <1>13, TickLimited DEF Goal
<1>14. CASE StepWall \/ UNCHANGED vars
  BY <1>14 DEF StepWall, vars, waiting, Limit!limitVars, SlotsApart, SlotsInHand,
              InFlight, At, Goal
<1> QED BY <1>2, <1>3, <1>4, <1>5, <1>6, <1>7, <1>8, <1>9, <1>10, <1>11,
           <1>12, <1>13, <1>14 DEF Next

LEMMA InitLimited == Init => SlotsApart /\ Limit!LimitInit
BY DEF Init, Done, SlotsApart, Limit!LimitInit, SlotsInHand, InFlight, At

\* get_rows: whatever the calls, drops, refusals and failures, a request leaves
\* only on a slot that is its own, within HTTP_TIMEOUT of it, and slots are
\* REQUEST_INTERVAL apart: the client implements RateLimit.
THEOREM RequestsPaced == Spec => WirePaced
BY InitLimited, InitTyped, NextTyped, NextLimited, PTL
   DEF Spec, WirePaced, Limit!LimitSpec

\* Instants that are apart fall into different intervals.
LEMMA ApartCount ==
    ASSUME NEW S, NEW f, NEW gap \in Nat \ {0}, NEW span \in Nat,
           \A a \in S : f[a] \in 0 .. span,
           \A a, b \in S : a # b => f[a] + gap <= f[b] \/ f[b] + gap <= f[a]
    PROVE  Cardinality(S) <= span \div gap + 1
<1> DEFINE g == [a \in S |-> f[a] \div gap]
<1>1. span \div gap \in Nat
  BY SMT
<1>2. ASSUME NEW a \in S PROVE f[a] \div gap \in 0 .. (span \div gap)
  <2>1. f[a] \in Nat /\ f[a] <= span
    BY <1>2
  <2> QED BY <2>1, SMT
<1>3. ASSUME NEW a \in S, NEW b \in S, f[a] \div gap = f[b] \div gap PROVE a = b
  <2> SUFFICES ASSUME a # b PROVE FALSE
    OBVIOUS
  <2>1. f[a] \in Nat /\ f[b] \in Nat
    OBVIOUS
  <2>2. ASSUME NEW m \in Nat, NEW n \in Nat, m + gap <= n
        PROVE  m \div gap # n \div gap
    BY <2>2, SMT
  <2> QED BY <1>3, <2>1, <2>2
<1>4. g \in Injection(S, 0 .. (span \div gap))
  BY <1>2, <1>3, Fun_IsInj
<1>5. /\ IsFiniteSet(0 .. (span \div gap))
      /\ Cardinality(0 .. (span \div gap)) = span \div gap + 1
  <2>1. ASSUME NEW q \in Nat
        PROVE  IsFiniteSet(0 .. q) /\ Cardinality(0 .. q) = q + 1
    BY FS_Interval
  <2> QED BY <1>1, <2>1
<1>6. Cardinality(S) <= Cardinality(0 .. (span \div gap))
  BY <1>4, <1>5, FS_Injection
<1> QED BY <1>5, <1>6

\* get_rows: the pace of the slots and the timeout of a request bound how many
\* requests are under way at once, for any number of callers.
THEOREM FlightsBounded == Spec => []InFlightBounded
<1>1. TypeInv /\ TimeInv /\ SlotsApart => InFlightBounded
  <2> SUFFICES ASSUME TypeInv, TimeInv, SlotsApart PROVE InFlightBounded
    OBVIOUS
  <2> DEFINE age == [t \in InFlight |-> now - call[t].sent]
  <2>1. ASSUME NEW t \in InFlight PROVE age[t] \in 0 .. HTTP_TIMEOUT
    <3>1. t \in Tasks /\ call[t].pc = "inFlight"
      BY DEF InFlight, At
    <3> QED BY <3>1, SlotTypes, ClientAssumption DEF TimeInv, FlightTimed
  <2>2. ASSUME NEW t \in InFlight, NEW u \in InFlight, t # u
        PROVE  \/ age[t] + REQUEST_INTERVAL <= age[u]
               \/ age[u] + REQUEST_INTERVAL <= age[t]
    BY <2>2, SlotTypes DEF SlotsApart
  <2>3. REQUEST_INTERVAL \in Nat \ {0} /\ HTTP_TIMEOUT \in Nat
    BY ClientAssumption
  <2> HIDE DEF age
  <2> QED BY <2>1, <2>2, <2>3, ApartCount DEF InFlightBounded
<1>2. Spec => []SlotsApart
  BY InitLimited, InitTyped, NextTyped, NextLimited, PTL DEF Spec
<1> QED BY <1>1, <1>2, AlwaysTimed, PTL
------------------------------------------------------------------------------
(* While nobody steps the local clock: how well a sync measured it.        *)

\* A sync read "before" no later than it sent its request.
SyncMeasured(c) ==
    c.kind = "sync" =>
        /\ c.pc = "requestWait" => c.before - wallShift <= now
        /\ c.pc = "inFlight" => c.before - wallShift <= c.sent

\* The error of an accepted sync: the local clock is off by what was tolerated and
\* Lag, and the answer is not older than the whole measurement took, twice the Lag.
ClockMeasured ==
    clock # None =>
        /\ Abs(wallShift) <= CLOCK_MAX_SKEW + Lag
        /\ 0 <= Lag
        /\ clock.at - clock.server_ms <= 2 * Lag

MeasureInv == (\A t \in Tasks : SyncMeasured(call[t])) /\ ClockMeasured

LEMMA OneCallMeasured ==
    ASSUME TypeInv, MeasureInv, NEW t \in Tasks, NEW x,
           call' = [call EXCEPT ![t] = x], SyncMeasured(x),
           UNCHANGED <<now, wallShift, clock>>
    PROVE  MeasureInv'
<1>1. \A u \in Tasks : call'[u] = IF u = t THEN x ELSE call[u]
  BY DEF TypeInv, TypeOK
<1>2. \A u \in Tasks : SyncMeasured(call'[u])
  BY <1>1 DEF MeasureInv
<1>3. \A u \in Tasks : SyncMeasured(call[u])'
  BY <1>2 DEF SyncMeasured
<1> QED BY <1>3 DEF MeasureInv, ClockMeasured, Lag

\* A call that is no sync, or none under way, says nothing of the measurement.
LEMMA OtherCallMeasured ==
    ASSUME TypeInv, MeasureInv, NEW t \in Tasks, NEW x,
           x.kind # "sync" \/ x.pc \notin {"requestWait", "inFlight"},
           call' = [call EXCEPT ![t] = x],
           UNCHANGED <<now, wallShift, clock>>
    PROVE  MeasureInv'
<1>1. SyncMeasured(x)
  BY DEF SyncMeasured
<1> QED BY <1>1, OneCallMeasured

\* The middle of a measurement is at most half of it, rounded up, away from
\* everything in it.
LEMMA MidpointBounds ==
    ASSUME NEW before \in Int, NEW after \in Int, before <= after
    PROVE  /\ Midpoint(before, after) \in Int
           /\ 0 <= Midpoint(before, after) - before
           /\ Midpoint(before, after) - before <= after - Midpoint(before, after)
<1> DEFINE half == (after - before) \div 2
<1>1. after - before \in Nat
  OBVIOUS
<1>2. half \in Int /\ 0 <= half /\ 2 * half <= after - before
  BY <1>1
<1>3. Midpoint(before, after) = before + half
  BY <1>1 DEF Midpoint, HalfOf
<1> HIDE DEF half
<1> QED BY <1>2, <1>3

LEMMA FinishSyncMeasured ==
    ASSUME TypeInv, TimeInv, MeasureInv, UNCHANGED wallShift,
           NEW t \in Tasks, FinishSync(t)
    PROVE  MeasureInv'
<1> DEFINE midpoint == Midpoint(call[t].before, UnixMs)
           skewed == Abs(call[t].answer - midpoint) > CLOCK_MAX_SKEW
           x == Done("sync", IF skewed THEN "ClockSkew" ELSE "synchronized")
<1>1. /\ x.pc = "idle" /\ call' = [call EXCEPT ![t] = x]
      /\ UNCHANGED now
      /\ IF skewed THEN clock' = clock
         ELSE clock' = [at |-> now, server_ms |-> call[t].answer, local_ms |-> midpoint]
  BY DEF FinishSync, Done, clocks
<1> HIDE DEF x
<1>2. CASE skewed
  BY <1>1, <1>2, OtherCallMeasured
<1>3. CASE ~skewed
  <2>1. \A u \in Tasks : SyncMeasured(call[u])'
    <3>1. \A u \in Tasks : call'[u] = IF u = t THEN x ELSE call[u]
      BY <1>1 DEF TypeInv, TypeOK
    <3> QED BY <1>1, <3>1 DEF MeasureInv, SyncMeasured
  <2>2. /\ call[t].before \in Int /\ call[t].sent \in Nat /\ call[t].answer \in Nat
        /\ now \in Nat /\ wallShift \in Int
        /\ call[t].before - wallShift <= call[t].sent
        /\ call[t].sent <= call[t].answer /\ call[t].answer <= now
    BY CallFields
       DEF FinishSync, TypeInv, TypeOK, TimeInv, FlightTimed, MeasureInv, SyncMeasured
  <2>3. /\ midpoint \in Int
        /\ 0 <= midpoint - call[t].before
        /\ midpoint - call[t].before <= now + wallShift - midpoint
    BY <2>2, MidpointBounds DEF UnixMs
  <2>4. Abs(call[t].answer - midpoint) <= CLOCK_MAX_SKEW
    BY <1>3, <2>2, <2>3, ClientAssumption DEF Abs
  <2>5. clock' = [at |-> now, server_ms |-> call[t].answer, local_ms |-> midpoint]
    BY <1>1, <1>3
  <2> HIDE DEF midpoint, skewed
  <2>6. Lag' = now + wallShift - midpoint
    BY <1>1, <2>5 DEF Lag
  <2>7. /\ Abs(wallShift) <= CLOCK_MAX_SKEW + (now + wallShift - midpoint)
        /\ 0 <= now + wallShift - midpoint
        /\ now - call[t].answer <= 2 * (now + wallShift - midpoint)
    BY <2>2, <2>3, <2>4, ClientAssumption DEF Abs
  <2>8. ClockMeasured'
    BY <2>5, <2>6, <2>7 DEF ClockMeasured, Abs
  <2> QED BY <2>1, <2>8 DEF MeasureInv
<1> QED BY <1>2, <1>3

LEMMA NextMeasured ==
    TypeInv /\ TimeInv /\ MeasureInv /\ [Next]_vars /\ UNCHANGED wallShift => MeasureInv'
<1> SUFFICES ASSUME TypeInv, TimeInv, MeasureInv, [Next]_vars, UNCHANGED wallShift
             PROVE  MeasureInv'
  OBVIOUS
<1>1. ASSUME NEW t \in Tasks, CallSync(t) PROVE MeasureInv'
  BY <1>1, OtherCallMeasured DEF CallSync, clocks
<1>2. ASSUME NEW t \in Tasks, TakeTimeSlot(t) PROVE MeasureInv'
  <2> DEFINE x == [pc |-> "requestWait", kind |-> "sync", before |-> UnixMs]
  <2>1. SyncMeasured(x)
    BY ClockTypes DEF SyncMeasured, UnixMs, TypeInv, TypeOK
  <2>2. call' = [call EXCEPT ![t] = x] /\ UNCHANGED <<now, clock>>
    BY <1>2 DEF TakeTimeSlot, clocks
  <2> HIDE DEF x
  <2> QED BY <2>1, <2>2, OneCallMeasured
<1>3. ASSUME NEW t \in Tasks, NEW k \in Reads, CallRead(t, k) PROVE MeasureInv'
  BY <1>3, OtherCallMeasured DEF CallRead, clocks, Reads
<1>4. ASSUME NEW t \in Tasks, NEW k \in Reads, RefuseRead(t, k) PROVE MeasureInv'
  <2>1. PICK e \in Errors : call' = [call EXCEPT ![t] = Done(k, e)]
    BY <1>4, RefusedWith
  <2>2. Done(k, e).pc = "idle" /\ UNCHANGED <<now, clock>>
    BY <1>4, RefusedWith DEF Done, clocks
  <2> QED BY <2>1, <2>2, OtherCallMeasured
<1>5. ASSUME NEW t \in Tasks, FinishRead(t) PROVE MeasureInv'
  <2> DEFINE obs == ObservationAt(UnixMs)
             x == IF ClockUsable
                  THEN Observed(call[t].kind, obs.source, obs.received)
                  ELSE Done(call[t].kind, "ClockUnavailable")
  <2>1. x.pc = "idle"
    BY DEF Observed, Done
  <2>2. call' = [call EXCEPT ![t] = x] /\ UNCHANGED <<now, clock>>
    BY <1>5 DEF FinishRead, clocks
  <2> HIDE DEF x
  <2> QED BY <2>1, <2>2, OtherCallMeasured
<1>6. ASSUME NEW t \in Tasks, RefuseToSign(t) PROVE MeasureInv'
  <2> DEFINE x == Done("private",
                    IF ClockUsable THEN "ClockSkew" ELSE "ClockUnavailable")
  <2>1. x.pc = "idle"
    BY DEF Done
  <2>2. call' = [call EXCEPT ![t] = x] /\ UNCHANGED <<now, clock>>
    BY <1>6 DEF RefuseToSign, clocks
  <2> HIDE DEF x
  <2> QED BY <2>1, <2>2, OtherCallMeasured
<1>7. ASSUME NEW t \in Tasks, Fail(t) PROVE MeasureInv'
  BY <1>7, OtherCallMeasured DEF Fail, Done, clocks
<1>8. ASSUME NEW t \in Tasks, Cancel(t) PROVE MeasureInv'
  BY <1>8, OtherCallMeasured DEF Cancel, Done, clocks
<1>9. CASE Tick
  <2>1. now' = now + 1 /\ UNCHANGED <<clock, call>> /\ now \in Nat /\ wallShift \in Int
    BY <1>9 DEF Tick, TypeInv, TypeOK
  <2>2. \A t \in Tasks : call[t].pc = "requestWait" /\ call[t].kind = "sync" =>
            call[t].before \in Int
    BY CallFields DEF TypeInv
  <2>3. \A t \in Tasks : SyncMeasured(call[t])'
    BY <2>1, <2>2 DEF MeasureInv, SyncMeasured
  <2> QED BY <2>1, <2>3 DEF MeasureInv, ClockMeasured, Lag
<1>10. ASSUME UNCHANGED <<now, clock, call>> PROVE MeasureInv'
  BY <1>10 DEF MeasureInv, SyncMeasured, ClockMeasured, Lag
<1>11. CASE StepWall \/ UNCHANGED vars
  BY <1>10, <1>11 DEF StepWall, vars
<1>12. ASSUME NEW t \in Tasks, SendRequest(t) PROVE MeasureInv'
  <2>1. /\ call[t].pc = "requestWait"
        /\ call' = [call EXCEPT ![t] = Sent(call[t])]
        /\ UNCHANGED <<now, clock>>
    BY <1>12, RequestHolderWaits DEF SendRequest, clocks
  <2>2. CASE call[t].kind = "sync"
    <3>1. SyncMeasured(Sent(call[t]))
      BY <2>1, <2>2 DEF Sent, SyncMeasured, MeasureInv
    <3> QED BY <2>1, <3>1, OneCallMeasured
  <2>3. CASE call[t].kind # "sync"
    <3>1. Sent(call[t]).kind # "sync"
      BY <2>3, CallFields DEF Sent, TypeInv, Kinds, Reads
    <3> QED BY <2>1, <3>1, OtherCallMeasured
  <2> QED BY <2>2, <2>3
<1>13. ASSUME NEW t \in Tasks, Answer(t) PROVE MeasureInv'
  <2> DEFINE x == [call[t] EXCEPT !.answer = ServerNow]
  <2>1. call' = [call EXCEPT ![t] = x] /\ UNCHANGED <<now, clock>>
    BY <1>13 DEF Answer, clocks
  <2>2. /\ x.pc = call[t].pc /\ x.kind = call[t].kind /\ x.sent = call[t].sent
        /\ x.kind = "sync" => x.before = call[t].before
    BY <1>13 DEF Answer, TypeInv, TypeOK, CallState
  <2> HIDE DEF x
  <2>3. SyncMeasured(x)
    BY <1>13, <2>2 DEF Answer, SyncMeasured, MeasureInv
  <2> QED BY <2>1, <2>3, OneCallMeasured
<1>14. ASSUME NEW t \in Tasks, FinishSync(t) PROVE MeasureInv'
  BY <1>14, FinishSyncMeasured
<1>15. ASSUME NEW t \in Tasks, Depart(t) PROVE MeasureInv'
  <2> DEFINE x == [call[t] EXCEPT !.left = TRUE]
  <2>1. call' = [call EXCEPT ![t] = x] /\ UNCHANGED <<now, clock>>
    BY <1>15 DEF Depart, clocks
  <2>2. /\ x.pc = call[t].pc /\ x.kind = call[t].kind /\ x.sent = call[t].sent
        /\ x.kind = "sync" => x.before = call[t].before
    BY <1>15 DEF Depart, TypeInv, TypeOK, CallState
  <2> HIDE DEF x
  <2>3. SyncMeasured(x)
    BY <1>15, <2>2 DEF Depart, SyncMeasured, MeasureInv
  <2> QED BY <2>1, <2>3, OneCallMeasured
<1> QED BY <1>1, <1>2, <1>3, <1>4, <1>5, <1>6, <1>7, <1>8, <1>9, <1>11, <1>12,
           <1>13, <1>14, <1>15 DEF Next

LEMMA AlwaysMeasured ==
    Spec /\ [][FALSE]_wallShift => [](TypeInv /\ TimeInv /\ MeasureInv)
<1>1. Init => MeasureInv
  BY DEF Init, Done, MeasureInv, SyncMeasured, ClockMeasured
<1>2. MeasureInv /\ TypeInv /\ TimeInv /\ [Next]_vars /\ [FALSE]_wallShift => MeasureInv'
  BY NextMeasured
<1> QED BY <1>1, <1>2, AlwaysTimed, PTL DEF Spec

\* synchronize_clock: while nobody steps the local clock, an accepted sync means
\* that it is off by no more than the tolerated skew and half of the time that the
\* measurement took, however long its request waited and however the syncs overlap.
THEOREM ClockAccurate == Spec /\ [][FALSE]_wallShift => []AcceptedClockAccurate
<1>1. MeasureInv => AcceptedClockAccurate
  BY DEF MeasureInv, ClockMeasured, AcceptedClockAccurate
<1> QED BY <1>1, AlwaysMeasured, PTL

\* What a read returns is a receipt and a source time that are as good as the sync.
LEMMA ReadHonest ==
    ASSUME TypeInv, TimeInv, MeasureInv, NEW t \in Tasks, FinishRead(t),
           call'[t].outcome = "observed"
    PROVE  /\ call'[t].source <= call'[t].received
           /\ call'[t].source - call[t].answer <= HTTP_TIMEOUT + Lag
           /\ call[t].answer - call'[t].source <= CLOCK_MAX_SKEW + Lag
<1> DEFINE obs == ObservationAt(UnixMs)
<1>1. ClockUsable /\ call'[t].source = obs.source /\ call'[t].received = obs.received
  <2> DEFINE x == IF ClockUsable
                  THEN Observed(call[t].kind, obs.source, obs.received)
                  ELSE Done(call[t].kind, "ClockUnavailable")
  <2>1. call'[t] = x
    BY DEF FinishRead, TypeInv, TypeOK
  <2> HIDE DEF obs
  <2>2. ClockUsable
    BY <2>1 DEF Done
  <2> QED BY <2>1, <2>2 DEF Observed
<1>2. /\ clock.at \in Int /\ clock.server_ms \in Int /\ clock.local_ms \in Int
      /\ wallShift \in Int /\ now \in Int
      /\ clock.server_ms <= clock.at
      /\ Abs(wallShift) <= CLOCK_MAX_SKEW + Lag
      /\ clock.at - clock.server_ms <= 2 * Lag
  BY <1>1, ClockTypes
     DEF ClockUsable, TypeInv, TypeOK, TimeInv, SyncSampleRecent, MeasureInv, ClockMeasured
<1>3. /\ call[t].answer \in Int /\ call[t].sent \in Int
      /\ now - call[t].sent <= HTTP_TIMEOUT
      /\ call[t].sent <= call[t].answer /\ call[t].answer <= now
  BY CallFields DEF FinishRead, TypeInv, TimeInv, FlightTimed
<1>4. /\ obs.received = now + wallShift
      /\ obs.source = IF now + wallShift + Offset <= now + wallShift
                      THEN now + wallShift + Offset ELSE now + wallShift
  BY DEF ObservationAt, UnixMs
<1> HIDE DEF obs
<1>5. /\ Lag = clock.at + wallShift - clock.local_ms /\ Lag \in Int
      /\ Offset = clock.server_ms - clock.local_ms
  BY <1>2 DEF Lag, Offset
<1>6. /\ CLOCK_MAX_SKEW \in Int /\ HTTP_TIMEOUT \in Int
      /\ -wallShift <= CLOCK_MAX_SKEW + Lag
  BY <1>2, <1>5, ClientAssumption DEF Abs
<1>7. /\ obs.source <= obs.received
      /\ obs.source - call[t].answer <= HTTP_TIMEOUT + Lag
      /\ call[t].answer - obs.source <= CLOCK_MAX_SKEW + Lag
  BY <1>2, <1>3, <1>4, <1>5, <1>6, ClientAssumption
<1> QED BY <1>1, <1>7

\* Only FinishRead returns an observation.
LEMMA OnlyReadsObserve ==
    ASSUME TypeInv, [Next]_vars, NEW t \in Tasks,
           call[t].pc = "inFlight",
           call'[t].pc = "idle", call'[t].outcome = "observed"
    PROVE  FinishRead(t)
<1>1. ASSUME NEW u \in Tasks, NEW x, call' = [call EXCEPT ![u] = x],
             x.pc = "idle" => x.outcome # "observed"
      PROVE  FALSE
  BY <1>1 DEF TypeInv, TypeOK
<1>2. ASSUME NEW u \in Tasks,
             \/ CallSync(u) \/ TakeTimeSlot(u)
             \/ \E k \in Reads : CallRead(u, k)
             \/ Fail(u) \/ Cancel(u)
      PROVE  FALSE
  BY <1>1, <1>2 DEF CallSync, TakeTimeSlot, CallRead, Fail, Cancel, Done
<1>3. ASSUME NEW u \in Tasks, FinishSync(u) PROVE FALSE
  <2> DEFINE skewed == Abs(call[u].answer - Midpoint(call[u].before, UnixMs))
                            > CLOCK_MAX_SKEW
             x == Done("sync", IF skewed THEN "ClockSkew" ELSE "synchronized")
  <2>1. x.outcome # "observed" /\ call' = [call EXCEPT ![u] = x]
    BY <1>3 DEF FinishSync, Done
  <2> HIDE DEF x
  <2> QED BY <2>1, <1>1
<1>4. ASSUME NEW u \in Tasks, RefuseToSign(u) PROVE FALSE
  <2> DEFINE x == Done("private",
                    IF ClockUsable THEN "ClockSkew" ELSE "ClockUnavailable")
  <2>1. x.outcome # "observed" /\ call' = [call EXCEPT ![u] = x]
    BY <1>4 DEF RefuseToSign, Done
  <2> HIDE DEF x
  <2> QED BY <2>1, <1>1
<1>5. ASSUME NEW u \in Tasks, SendRequest(u) PROVE FALSE
  <2>1. Sent(call[u]).pc = "inFlight" /\ call' = [call EXCEPT ![u] = Sent(call[u])]
    BY <1>5, CallFields DEF SendRequest, Sent, TypeInv, Kinds, Reads
  <2> QED BY <2>1, <1>1
<1>6. ASSUME NEW u \in Tasks, Answer(u) PROVE FALSE
  <2> DEFINE x == [call[u] EXCEPT !.answer = ServerNow]
  <2>1. x.pc = "inFlight" /\ call' = [call EXCEPT ![u] = x]
    BY <1>6 DEF Answer, TypeInv, TypeOK, CallState
  <2> HIDE DEF x
  <2> QED BY <2>1, <1>1
<1>7. ASSUME NEW u \in Tasks, FinishRead(u) PROVE FinishRead(t)
  <2>1. CASE u = t
    BY <1>7, <2>1
  <2>2. CASE u # t
    BY <1>7, <2>2 DEF FinishRead, TypeInv, TypeOK
  <2> QED BY <2>1, <2>2
<1>8. ~(Tick \/ StepWall \/ UNCHANGED vars)
  BY DEF Tick, StepWall, vars
<1>9. ASSUME NEW u \in Tasks, NEW k \in Reads, RefuseRead(u, k) PROVE FALSE
  <2>1. PICK e \in Errors : call' = [call EXCEPT ![u] = Done(k, e)]
    BY <1>9, RefusedWith
  <2>2. Done(k, e).outcome # "observed"
    BY DEF Done, Errors
  <2> QED BY <2>1, <2>2, <1>1
<1>10. ASSUME NEW u \in Tasks, Depart(u) PROVE FALSE
  <2> DEFINE x == [call[u] EXCEPT !.left = TRUE]
  <2>1. x.pc = "inFlight" /\ call' = [call EXCEPT ![u] = x]
    BY <1>10 DEF Depart, TypeInv, TypeOK, CallState
  <2> HIDE DEF x
  <2> QED BY <2>1, <1>1
<1> QED BY <1>2, <1>3, <1>4, <1>5, <1>6, <1>7, <1>8, <1>9, <1>10 DEF Next

\* observation(): while nobody steps the local clock, a source time is not after
\* the receipt, at most a request timeout later than the exchange's answer and at
\* most the skew earlier, each up to the error of the sync that is in force.
THEOREM ObservationsHonest == Spec /\ [][FALSE]_wallShift => ObservationHonest
<1> DEFINE Honest == \A t \in Tasks :
        /\ call[t].pc = "inFlight"
        /\ call'[t].pc = "idle" /\ call'[t].outcome = "observed"
        => /\ call'[t].source <= call'[t].received
           /\ call'[t].source - call[t].answer <= HTTP_TIMEOUT + Lag
           /\ call[t].answer - call'[t].source <= CLOCK_MAX_SKEW + Lag
<1>1. TypeInv /\ TimeInv /\ MeasureInv /\ [Next]_vars => [Honest]_vars
  BY ReadHonest, OnlyReadsObserve
<1> QED BY <1>1, AlwaysMeasured, PTL DEF Spec, ObservationHonest
------------------------------------------------------------------------------
(* The client implements CallProgress.                                     *)

\* Where each call stands and how long its request is under way, as Progress has
\* them.
PlaceOf == [t \in Tasks |-> call[t].pc]
FlightOf == [t \in Tasks |->
                IF call[t].pc = "inFlight" THEN now - call[t].sent ELSE 0]
TimeCooldown == CooldownOf(lastTime, TIME_INTERVAL)
RequestCooldown == CooldownOf(lastRequest, REQUEST_INTERVAL)

\* Taking a task out of a queue that lists each task once.
LEMMA WithoutTask ==
    ASSUME NEW q \in Seq(Tasks), NEW S, Lists(q, S), NEW i \in DOMAIN q
    PROVE  Progress!Without(q, q[i]) = SubSeq(q, 1, i - 1) \o SubSeq(q, i + 1, Len(q))
<1>1. (CHOOSE j \in DOMAIN q : q[j] = q[i]) = i
  BY DEF Lists
<1>2. Progress!Waits(q, q[i])
  BY DEF Progress!Waits
<1> QED BY <1>1, <1>2 DEF Progress!Without

LEMMA WithoutHead ==
    ASSUME NEW q \in Seq(Tasks), NEW S, Lists(q, S), q # << >>
    PROVE  Progress!Without(q, Head(q)) = Tail(q)
<1>1. /\ Tail(q) \in Seq(Tasks) /\ Head(q) = q[1]
      /\ Len(q) \in Nat \ {0} /\ DOMAIN q = 1 .. Len(q) /\ 1 \in DOMAIN q
  BY HeadTailProperties, LenProperties, EmptySeq
<1> DEFINE W(i) == SubSeq(q, 1, i - 1) \o SubSeq(q, i + 1, Len(q))
<1>2. Progress!Without(q, q[1]) = W(1)
  BY <1>1, WithoutTask
<1>3. W(1) = SubSeq(q, 1, 0) \o SubSeq(q, 2, Len(q))
  BY SMT
<1>4. SubSeq(q, 1, 0) = << >>
  BY <1>1
<1>5. SubSeq(q, 2, Len(q)) = Tail(q)
  BY <1>1
<1> QED BY <1>1, <1>2, <1>3, <1>4, <1>5, ConcatEmptySeq

LEMMA WithoutStranger ==
    ASSUME NEW q, NEW S, Lists(q, S), NEW t \in Tasks, t \notin S
    PROVE  Progress!Without(q, t) = q
BY DEF Lists, Progress!Waits, Progress!Without

\* What a step that changes one call changes of that.
LEMMA PlaceMoved ==
    ASSUME TypeInv, NEW t \in Tasks, NEW x, call' = [call EXCEPT ![t] = x]
    PROVE  PlaceOf' = [PlaceOf EXCEPT ![t] = x.pc]
<1>1. \A u \in Tasks : call'[u] = IF u = t THEN x ELSE call[u]
  BY DEF TypeInv, TypeOK
<1>2. PlaceOf' = [u \in Tasks |-> IF u = t THEN x.pc ELSE call[u].pc]
  BY <1>1 DEF PlaceOf
<1> QED BY <1>2 DEF PlaceOf

LEMMA FlightMoved ==
    ASSUME TypeInv, NEW t \in Tasks, NEW x, call' = [call EXCEPT ![t] = x],
           UNCHANGED now
    PROVE  /\ x.pc = "inFlight" => FlightOf' = [FlightOf EXCEPT ![t] = now - x.sent]
           /\ x.pc # "inFlight" => FlightOf' = [FlightOf EXCEPT ![t] = 0]
<1> DEFINE Flight(c) == IF c.pc = "inFlight" THEN now - c.sent ELSE 0
<1>1. \A u \in Tasks : call'[u] = IF u = t THEN x ELSE call[u]
  BY DEF TypeInv, TypeOK
<1>2. FlightOf' = [u \in Tasks |-> Flight(call'[u])]
  BY DEF FlightOf
<1>3. FlightOf = [u \in Tasks |-> Flight(call[u])]
  BY DEF FlightOf
<1>4. FlightOf' = [FlightOf EXCEPT ![t] = Flight(x)]
  <2> HIDE DEF Flight
  <2>1. FlightOf' = [u \in Tasks |-> IF u = t THEN Flight(x) ELSE Flight(call[u])]
    BY <1>1, <1>2
  <2> QED BY <1>3, <2>1
<1> QED BY <1>4

\* A step outside the requests in flight changes nothing of how long they take.
LEMMA FlightKept ==
    ASSUME TypeInv, NEW t \in Tasks, NEW x, call' = [call EXCEPT ![t] = x],
           UNCHANGED now, call[t].pc # "inFlight",
           x.pc = "inFlight" => x.sent = now
    PROVE  UNCHANGED FlightOf
<1>1. FlightOf' = [FlightOf EXCEPT ![t] = 0]
  <2>1. CASE x.pc = "inFlight"
    <3>1. now - x.sent = 0
      BY <2>1, ClockTypes DEF TypeInv
    <3> QED BY <2>1, <3>1, FlightMoved
  <2>2. CASE x.pc # "inFlight"
    BY <2>2, FlightMoved
  <2> QED BY <2>1, <2>2
<1>2. FlightOf[t] = 0 /\ FlightOf = [u \in Tasks |-> FlightOf[u]]
  BY DEF FlightOf
<1> QED BY <1>1, <1>2

LEMMA CooldownKept ==
    ASSUME UNCHANGED now
    PROVE  /\ UNCHANGED lastTime => UNCHANGED TimeCooldown
           /\ UNCHANGED lastRequest => UNCHANGED RequestCooldown
BY DEF TimeCooldown, RequestCooldown, CooldownOf

\* A granted slot was due, and the next is an interval away.
LEMMA SlotTaken ==
    ASSUME TypeInv, UNCHANGED now
    PROVE  /\ \A t : TimePacer!Grant(t) =>
                TimeCooldown = 0 /\ TimeCooldown' = TIME_INTERVAL
           /\ \A t : RequestPacer!Grant(t) =>
                RequestCooldown = 0 /\ RequestCooldown' = REQUEST_INTERVAL
<1>1. now \in Int /\ TIME_INTERVAL \in Int /\ REQUEST_INTERVAL \in Int
      /\ REQUEST_INTERVAL > 0 /\ TIME_INTERVAL >= 0 /\ None \notin Int
  BY ClockTypes, ClientAssumption DEF TypeInv
<1> QED BY <1>1 DEF TimeCooldown, RequestCooldown, CooldownOf, TimePacer!Grant,
           RequestPacer!Grant, TimePacer!SlotDue, RequestPacer!SlotDue

LEMMA CallSyncProgress ==
    ASSUME TypeInv, NEW t \in Tasks, CallSync(t)
    PROVE  Progress!StartSync(t)
<1> DEFINE x == [pc |-> "timeWait", kind |-> "sync"]
<1>1. /\ call[t].pc = "idle" /\ call' = [call EXCEPT ![t] = x] /\ x.pc = "timeWait"
      /\ timeQueue' = Append(timeQueue, t)
      /\ UNCHANGED <<now, lastTime, requestQueue, lastRequest>>
  BY DEF CallSync, TimePacer!Enqueue, clocks
<1> HIDE DEF x
<1>2. PlaceOf' = [PlaceOf EXCEPT ![t] = "timeWait"]
  BY <1>1, PlaceMoved
<1>3. UNCHANGED FlightOf
  BY <1>1, FlightKept
<1>4. UNCHANGED <<TimeCooldown, RequestCooldown>>
  BY <1>1, CooldownKept
<1> QED BY <1>1, <1>2, <1>3, <1>4 DEF Progress!StartSync, Progress!Go, PlaceOf, FlightOf,
           TimeCooldown, RequestCooldown

LEMMA CallReadProgress ==
    ASSUME TypeInv, NEW t \in Tasks, NEW k, CallRead(t, k)
    PROVE  Progress!StartRead(t)
<1> DEFINE x == [pc |-> "requestWait", kind |-> k]
<1>1. /\ call[t].pc = "idle" /\ call' = [call EXCEPT ![t] = x]
      /\ x.pc = "requestWait"
      /\ requestQueue' = Append(requestQueue, t)
      /\ UNCHANGED <<now, lastTime, timeQueue, lastRequest>>
  BY DEF CallRead, RequestPacer!Enqueue, clocks
<1> HIDE DEF x
<1>2. PlaceOf' = [PlaceOf EXCEPT ![t] = "requestWait"]
  BY <1>1, PlaceMoved
<1>3. UNCHANGED FlightOf
  BY <1>1, FlightKept
<1>4. UNCHANGED <<TimeCooldown, RequestCooldown>>
  BY <1>1, CooldownKept
<1> QED BY <1>1, <1>2, <1>3, <1>4 DEF Progress!StartRead, Progress!Go, PlaceOf, FlightOf,
           TimeCooldown, RequestCooldown

LEMMA TakeTimeSlotProgress ==
    ASSUME TypeInv, NEW t \in Tasks, TakeTimeSlot(t)
    PROVE  Progress!ToRequests(t)
<1> DEFINE x == [pc |-> "requestWait", kind |-> "sync", before |-> UnixMs]
<1>1. /\ call' = [call EXCEPT ![t] = x] /\ x.pc = "requestWait"
      /\ TimePacer!Grant(t)
      /\ requestQueue' = Append(requestQueue, t)
      /\ UNCHANGED <<now, lastRequest>>
  BY DEF TakeTimeSlot, RequestPacer!Enqueue, clocks
<1> HIDE DEF x
<1>2. /\ timeQueue # << >> /\ Head(timeQueue) = t
      /\ timeQueue' = Tail(timeQueue)
  BY <1>1 DEF TimePacer!Grant
<1>3. /\ t \in At("timeWait")
      /\ timeQueue' = Progress!Without(timeQueue, t)
  BY <1>2, TailLists, WithoutHead DEF TypeInv, TypeOK, LocksHeldByWaiters
<1>4. /\ PlaceOf' = [PlaceOf EXCEPT ![t] = "requestWait"]
      /\ UNCHANGED FlightOf
  <2>1. call[t].pc # "inFlight" /\ x.pc # "inFlight"
    BY <1>1, <1>3 DEF At
  <2>2. PlaceOf' = [PlaceOf EXCEPT ![t] = "requestWait"]
    BY <1>1, PlaceMoved
  <2>3. UNCHANGED FlightOf
    BY <1>1, <2>1, FlightKept
  <2> QED BY <2>2, <2>3
<1>5. /\ TimeCooldown = 0 /\ TimeCooldown' = TIME_INTERVAL
      /\ UNCHANGED RequestCooldown
  BY <1>1, SlotTaken, CooldownKept
<1> QED BY <1>1, <1>2, <1>3, <1>4, <1>5
        DEF Progress!ToRequests, Progress!Holds, Progress!Go, PlaceOf, FlightOf,
            TimeCooldown, RequestCooldown

\* A granted request slot, whether the request is sent or refused.
LEMMA RequestSlotProgress ==
    ASSUME TypeInv, NEW t \in Tasks, NEW x, RequestPacer!Grant(t),
           call' = [call EXCEPT ![t] = x], x.pc \in {"inFlight", "idle"},
           x.pc = "inFlight" => x.sent = now,
           UNCHANGED <<now, timeQueue, lastTime>>
    PROVE  Progress!TakeSlot(t)
<1>1. /\ requestQueue # << >> /\ Head(requestQueue) = t
      /\ requestQueue' = Tail(requestQueue)
  BY DEF RequestPacer!Grant
<1>2. requestQueue' = Progress!Without(requestQueue, t)
  BY <1>1, WithoutHead DEF TypeInv, TypeOK, LocksHeldByWaiters
<1>3. /\ PlaceOf' = [PlaceOf EXCEPT ![t] = x.pc]
      /\ UNCHANGED FlightOf
  <2>1. call[t].pc # "inFlight"
    BY RequestHolderWaits
  <2>2. PlaceOf' = [PlaceOf EXCEPT ![t] = x.pc]
    BY PlaceMoved
  <2>3. UNCHANGED FlightOf
    BY <2>1, FlightKept
  <2> QED BY <2>2, <2>3
<1>4. /\ RequestCooldown = 0 /\ RequestCooldown' = REQUEST_INTERVAL
      /\ UNCHANGED TimeCooldown
  BY SlotTaken, CooldownKept
<1> QED BY <1>1, <1>2, <1>3, <1>4
        DEF Progress!TakeSlot, Progress!Holds, Progress!Go, PlaceOf, FlightOf,
            TimeCooldown, RequestCooldown

LEMMA SendRequestProgress ==
    ASSUME TypeInv, NEW t \in Tasks, SendRequest(t)
    PROVE  Progress!TakeSlot(t)
<1> DEFINE x == Sent(call[t])
<1>1. /\ RequestPacer!Grant(t) /\ call' = [call EXCEPT ![t] = x]
      /\ UNCHANGED <<now, timeQueue, lastTime>>
  BY DEF SendRequest, clocks
<1>2. x.pc = "inFlight" /\ x.sent = now
  BY CallFields DEF Sent, TypeInv, Kinds, Reads
<1> HIDE DEF x
<1> QED BY <1>1, <1>2, RequestSlotProgress

LEMMA RefuseToSignProgress ==
    ASSUME TypeInv, NEW t \in Tasks, RefuseToSign(t)
    PROVE  Progress!TakeSlot(t)
<1> DEFINE x == Done("private",
                  IF ClockUsable THEN "ClockSkew" ELSE "ClockUnavailable")
<1>1. /\ RequestPacer!Grant(t) /\ call' = [call EXCEPT ![t] = x]
      /\ UNCHANGED <<now, timeQueue, lastTime>>
  BY DEF RefuseToSign, clocks
<1>2. x.pc = "idle"
  BY DEF Done
<1> HIDE DEF x
<1> QED BY <1>1, <1>2, RequestSlotProgress

\* A request in flight ends, however it does.
LEMMA EndProgress ==
    ASSUME TypeInv, NEW t \in Tasks, NEW x, call[t].pc = "inFlight",
           call' = [call EXCEPT ![t] = x], x.pc = "idle",
           UNCHANGED <<now, waiting>>
    PROVE  Progress!End(t)
<1>1. PlaceOf[t] = "inFlight" /\ x.pc # "inFlight" /\ UNCHANGED now
  BY DEF PlaceOf
<1>2. /\ PlaceOf' = [PlaceOf EXCEPT ![t] = "idle"]
      /\ FlightOf' = [FlightOf EXCEPT ![t] = 0]
  BY <1>1, PlaceMoved, FlightMoved
<1>3. UNCHANGED <<timeQueue, requestQueue, TimeCooldown, RequestCooldown>>
  BY CooldownKept DEF waiting
<1> QED BY <1>1, <1>2, <1>3 DEF Progress!End, Progress!Go, PlaceOf, FlightOf,
           TimeCooldown, RequestCooldown

\* A step that leaves a call where it is.
LEMMA StayProgress ==
    ASSUME TypeInv, NEW t \in Tasks, NEW x, call' = [call EXCEPT ![t] = x],
           x.pc = call[t].pc, x.pc = "inFlight" => x.sent = call[t].sent,
           UNCHANGED <<now, waiting>>
    PROVE  UNCHANGED Progress!progressVars
<1>1. PlaceOf' = [PlaceOf EXCEPT ![t] = PlaceOf[t]]
  <2>1. PlaceOf[t] = x.pc
    BY DEF PlaceOf
  <2> QED BY <2>1, PlaceMoved
<1>2. FlightOf' = [FlightOf EXCEPT ![t] = FlightOf[t]]
  <2>1. FlightOf[t] = IF x.pc = "inFlight" THEN now - x.sent ELSE 0
    BY DEF FlightOf
  <2> QED BY <2>1, FlightMoved
<1>3. /\ PlaceOf = [u \in Tasks |-> PlaceOf[u]]
      /\ FlightOf = [u \in Tasks |-> FlightOf[u]]
  BY DEF PlaceOf, FlightOf
<1>4. UNCHANGED <<PlaceOf, FlightOf>>
  BY <1>1, <1>2, <1>3
<1>5. UNCHANGED <<timeQueue, requestQueue, TimeCooldown, RequestCooldown>>
  BY CooldownKept DEF waiting
<1> QED BY <1>4, <1>5 DEF Progress!progressVars, PlaceOf, FlightOf,
           TimeCooldown, RequestCooldown

\* A call leaves the queue it waits in.
LEMMA DropProgress ==
    ASSUME TypeInv, NEW t \in Tasks, Cancel(t),
           call[t].pc \in {"timeWait", "requestWait"},
           timeQueue' = Progress!Without(timeQueue, t),
           requestQueue' = Progress!Without(requestQueue, t),
           UNCHANGED <<lastTime, lastRequest>>
    PROVE  Progress!Drop(t)
<1> DEFINE x == Done(call[t].kind, "none")
<1>1. call' = [call EXCEPT ![t] = x] /\ x.pc = "idle" /\ UNCHANGED now
  BY DEF Cancel, Done, clocks
<1> HIDE DEF x
<1>2. PlaceOf' = [PlaceOf EXCEPT ![t] = "idle"]
  BY <1>1, PlaceMoved
<1>3. UNCHANGED FlightOf
  BY <1>1, FlightKept
<1>4. UNCHANGED <<TimeCooldown, RequestCooldown>>
  BY <1>1, CooldownKept
<1> QED BY <1>2, <1>3, <1>4 DEF Progress!Drop, Progress!Go, PlaceOf, FlightOf,
           TimeCooldown, RequestCooldown

LEMMA CancelProgress ==
    ASSUME TypeInv, NEW t \in Tasks, Cancel(t)
    PROVE  Progress!Drop(t) \/ Progress!End(t)
<1> DEFINE x == Done(call[t].kind, "none")
<1>1. /\ call' = [call EXCEPT ![t] = x] /\ x.pc = "idle" /\ UNCHANGED now
  BY DEF Cancel, Done, clocks
<1> HIDE DEF x
<1>2. CASE /\ call[t].pc = "timeWait"
           /\ TimePacer!Leave(t)
           /\ UNCHANGED <<requestQueue, lastRequest>>
  <2>1. PICK i \in DOMAIN timeQueue :
            /\ timeQueue[i] = t
            /\ timeQueue' = SubSeq(timeQueue, 1, i - 1)
                                \o SubSeq(timeQueue, i + 1, Len(timeQueue))
    BY <1>2 DEF TimePacer!Leave, TimePacer!Without
  <2>2. timeQueue' = Progress!Without(timeQueue, t)
    BY <2>1, WithoutTask DEF TypeInv, TypeOK, LocksHeldByWaiters
  <2>3. t \notin At("requestWait")
    BY <1>2 DEF At
  <2>4. requestQueue' = Progress!Without(requestQueue, t)
    BY <1>2, <2>3, WithoutStranger DEF TypeInv, LocksHeldByWaiters
  <2>5. UNCHANGED <<lastTime, lastRequest>>
    BY <1>2 DEF TimePacer!Leave
  <2>6. call[t].pc \in {"timeWait", "requestWait"} /\ UNCHANGED <<lastTime, lastRequest>>
    BY <1>2, <2>5
  <2>7. Progress!Drop(t)
    BY <2>2, <2>4, <2>6, DropProgress
  <2> QED BY <2>7
<1>3. CASE /\ call[t].pc = "requestWait"
           /\ RequestPacer!Leave(t)
           /\ UNCHANGED <<timeQueue, lastTime>>
  <2>1. PICK i \in DOMAIN requestQueue :
            /\ requestQueue[i] = t
            /\ requestQueue' = SubSeq(requestQueue, 1, i - 1)
                                \o SubSeq(requestQueue, i + 1, Len(requestQueue))
    BY <1>3 DEF RequestPacer!Leave, RequestPacer!Without
  <2>2. requestQueue' = Progress!Without(requestQueue, t)
    BY <2>1, WithoutTask DEF TypeInv, TypeOK, LocksHeldByWaiters
  <2>3. t \notin At("timeWait")
    BY <1>3 DEF At
  <2>4. timeQueue' = Progress!Without(timeQueue, t)
    BY <1>3, <2>3, WithoutStranger DEF TypeInv, LocksHeldByWaiters
  <2>5. UNCHANGED <<lastTime, lastRequest>>
    BY <1>3 DEF RequestPacer!Leave
  <2>6. call[t].pc \in {"timeWait", "requestWait"} /\ UNCHANGED <<lastTime, lastRequest>>
    BY <1>3, <2>5
  <2>7. Progress!Drop(t)
    BY <2>2, <2>4, <2>6, DropProgress
  <2> QED BY <2>7
<1>4. CASE call[t].pc = "inFlight" /\ UNCHANGED waiting
  BY <1>1, <1>4, EndProgress
<1> QED BY <1>2, <1>3, <1>4 DEF Cancel

\* A unit of time takes a unit off a cooldown.
LEMMA CooldownRuns ==
    ASSUME TypeInv, Tick
    PROVE  /\ TimeCooldown' = Progress!Less(TimeCooldown)
           /\ RequestCooldown' = Progress!Less(RequestCooldown)
<1>1. /\ now' = now + 1 /\ UNCHANGED <<lastTime, lastRequest>>
      /\ now \in Int /\ None \notin Int
      /\ lastTime \in Nat \cup {None} /\ lastRequest \in Nat \cup {None}
      /\ TIME_INTERVAL \in Nat /\ REQUEST_INTERVAL \in Nat
  BY ClientAssumption DEF Tick, waiting, TypeInv, TypeOK
<1>2. TimeCooldown' = Progress!Less(TimeCooldown)
  BY <1>1 DEF TimeCooldown, CooldownOf, Progress!Less
<1>3. RequestCooldown' = Progress!Less(RequestCooldown)
  BY <1>1 DEF RequestCooldown, CooldownOf, Progress!Less
<1> QED BY <1>2, <1>3

LEMMA TickProgress ==
    ASSUME TypeInv, Tick
    PROVE  Progress!TimePasses
<1>1. /\ now' = now + 1 /\ UNCHANGED <<call, timeQueue, requestQueue>>
      /\ now \in Int
      /\ \A t \in Tasks : call[t].pc = "inFlight" =>
            now - call[t].sent < HTTP_TIMEOUT /\ call[t].sent \in Nat
  BY CallFields DEF Tick, waiting, InFlight, At, TypeInv, TypeOK
<1>2. UNCHANGED PlaceOf
  BY <1>1 DEF PlaceOf
<1>3. \A t \in Tasks : PlaceOf[t] = "inFlight" => FlightOf[t] < HTTP_TIMEOUT
  BY <1>1 DEF PlaceOf, FlightOf
<1>4. FlightOf' = [t \in Tasks |->
            IF PlaceOf[t] = "inFlight" THEN FlightOf[t] + 1 ELSE 0]
  <2>1. FlightOf' = [t \in Tasks |->
            IF call[t].pc = "inFlight" THEN now + 1 - call[t].sent ELSE 0]
    BY <1>1 DEF FlightOf
  <2>2. \A t \in Tasks : /\ PlaceOf[t] = call[t].pc
                         /\ call[t].pc = "inFlight" =>
                                FlightOf[t] + 1 = now + 1 - call[t].sent
    BY <1>1 DEF PlaceOf, FlightOf
  <2> QED BY <2>1, <2>2
<1>5. /\ TimeCooldown' = Progress!Less(TimeCooldown)
      /\ RequestCooldown' = Progress!Less(RequestCooldown)
  BY CooldownRuns
<1> QED BY <1>1, <1>2, <1>3, <1>4, <1>5
        DEF Progress!TimePasses, PlaceOf, FlightOf, TimeCooldown, RequestCooldown

LEMMA InitProgress == Init => Progress!ProgressInit
<1> SUFFICES ASSUME Init PROVE Progress!ProgressInit
  OBVIOUS
<1>1. PlaceOf = [t \in Tasks |-> "idle"] /\ FlightOf = [t \in Tasks |-> 0]
  BY DEF Init, Done, PlaceOf, FlightOf
<1>2. TimeCooldown = 0 /\ RequestCooldown = 0
  BY DEF Init, TimeCooldown, RequestCooldown, CooldownOf
<1> QED BY <1>1, <1>2 DEF Progress!ProgressInit, Init, PlaceOf, FlightOf,
           TimeCooldown, RequestCooldown

LEMMA NextProgress ==
    TypeInv /\ [Next]_vars => [Progress!ProgressNext]_(Progress!progressVars)
<1> DEFINE Step == Progress!ProgressNext \/ UNCHANGED Progress!progressVars
<1> SUFFICES ASSUME TypeInv, [Next]_vars PROVE Step
  OBVIOUS
<1>1. ASSUME NEW t \in Tasks, CallSync(t) PROVE Step
  BY <1>1, CallSyncProgress DEF Progress!ProgressNext
<1>2. ASSUME NEW t \in Tasks, TakeTimeSlot(t) PROVE Step
  BY <1>2, TakeTimeSlotProgress DEF Progress!ProgressNext
<1>3. ASSUME NEW t \in Tasks, FinishSync(t) PROVE Step
  <2> DEFINE skewed == Abs(call[t].answer - Midpoint(call[t].before, UnixMs))
                            > CLOCK_MAX_SKEW
             x == Done("sync", IF skewed THEN "ClockSkew" ELSE "synchronized")
  <2>1. /\ call[t].pc = "inFlight" /\ call' = [call EXCEPT ![t] = x]
        /\ UNCHANGED <<now, waiting>>
    BY <1>3 DEF FinishSync, clocks
  <2>2. x.pc = "idle"
    BY DEF Done
  <2> HIDE DEF x
  <2>3. Progress!End(t)
    BY <2>1, <2>2, EndProgress
  <2> QED BY <2>3 DEF Progress!ProgressNext
<1>4. ASSUME NEW t \in Tasks, NEW k \in Reads, CallRead(t, k) PROVE Step
  BY <1>4, CallReadProgress DEF Progress!ProgressNext
<1>5. ASSUME NEW t \in Tasks, NEW k \in Reads, RefuseRead(t, k) PROVE Step
  <2>1. PICK e \in Errors : call' = [call EXCEPT ![t] = Done(k, e)]
    BY <1>5, RefusedWith
  <2>2. /\ call[t].pc = "idle" /\ Done(k, e).pc = "idle"
        /\ UNCHANGED <<now, waiting>>
    BY <1>5, RefusedWith DEF Done, clocks
  <2> QED BY <2>1, <2>2, StayProgress
<1>6. ASSUME NEW t \in Tasks, FinishRead(t) PROVE Step
  <2> DEFINE obs == ObservationAt(UnixMs)
             x == IF ClockUsable
                  THEN Observed(call[t].kind, obs.source, obs.received)
                  ELSE Done(call[t].kind, "ClockUnavailable")
  <2>1. /\ call[t].pc = "inFlight" /\ call' = [call EXCEPT ![t] = x]
        /\ UNCHANGED <<now, waiting>>
    BY <1>6 DEF FinishRead, clocks
  <2>2. x.pc = "idle"
    BY DEF Observed, Done
  <2> HIDE DEF x
  <2>3. Progress!End(t)
    BY <2>1, <2>2, EndProgress
  <2> QED BY <2>3 DEF Progress!ProgressNext
<1>7. ASSUME NEW t \in Tasks, SendRequest(t) PROVE Step
  BY <1>7, SendRequestProgress DEF Progress!ProgressNext
<1>8. ASSUME NEW t \in Tasks, RefuseToSign(t) PROVE Step
  BY <1>8, RefuseToSignProgress DEF Progress!ProgressNext
<1>9. ASSUME NEW t \in Tasks, Answer(t) PROVE Step
  <2> DEFINE x == [call[t] EXCEPT !.answer = ServerNow]
  <2>1. call' = [call EXCEPT ![t] = x] /\ UNCHANGED <<now, waiting>>
    BY <1>9 DEF Answer, clocks
  <2>2. x.pc = call[t].pc /\ x.sent = call[t].sent
    BY <1>9 DEF Answer, TypeInv, TypeOK, CallState
  <2> HIDE DEF x
  <2> QED BY <2>1, <2>2, StayProgress
<1>10. ASSUME NEW t \in Tasks, Fail(t) PROVE Step
  <2> DEFINE x == Done(call[t].kind, "Failed")
  <2>1. /\ call[t].pc = "inFlight" /\ call' = [call EXCEPT ![t] = x]
        /\ x.pc = "idle" /\ UNCHANGED <<now, waiting>>
    BY <1>10 DEF Fail, Done, clocks
  <2> HIDE DEF x
  <2>2. Progress!End(t)
    BY <2>1, EndProgress
  <2> QED BY <2>2 DEF Progress!ProgressNext
<1>11. ASSUME NEW t \in Tasks, Cancel(t) PROVE Step
  BY <1>11, CancelProgress DEF Progress!ProgressNext
<1>12. CASE Tick
  BY <1>12, TickProgress DEF Progress!ProgressNext
<1>13. CASE StepWall \/ UNCHANGED vars
  BY <1>13 DEF StepWall, vars, waiting, Progress!progressVars, CooldownOf
<1>14. ASSUME NEW t \in Tasks, Depart(t) PROVE Step
  <2> DEFINE x == [call[t] EXCEPT !.left = TRUE]
  <2>1. call' = [call EXCEPT ![t] = x] /\ UNCHANGED <<now, waiting>>
    BY <1>14 DEF Depart, clocks
  <2>2. x.pc = call[t].pc /\ x.sent = call[t].sent
    BY <1>14 DEF Depart, TypeInv, TypeOK, CallState
  <2> HIDE DEF x
  <2> QED BY <2>1, <2>2, StayProgress
<1> QED BY <1>1, <1>2, <1>3, <1>4, <1>5, <1>6, <1>7, <1>8, <1>9, <1>10, <1>11,
           <1>12, <1>13, <1>14 DEF Next

\* get_rows, synchronize_clock: refusals, failures and dropped futures included,
\* every call takes its turns in the two limiters as CallProgress has it.
THEOREM ProgressImplemented == Spec => CallsImplementProgress
<1>1. Spec => []TypeInv
  BY InitTyped, NextTyped, PTL DEF Spec
<1> QED BY <1>1, InitProgress, NextProgress, PTL
        DEF Spec, CallsImplementProgress, Progress!ProgressSafety
==============================================================================
