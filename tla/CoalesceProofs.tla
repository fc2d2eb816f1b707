---------------------------- MODULE CoalesceProofs ----------------------------
(***************************************************************************)
(* Proofs about Coalesce, for any number of callers and tasks.             *)
(***************************************************************************)
EXTENDS Coalesce, TLAPS

-----------------------------------------------------------------------------
(* Queues of distinct elements, by membership and order                    *)

Has(s, h) == \E i \in 1..Len(s) : s[i] = h

Distinct(s) == \A i, j \in 1..Len(s) : s[i] = s[j] => i = j

\* Every occurrence of g in s comes before every occurrence of h.
Before(s, g, h) == \A i, j \in 1..Len(s) : s[i] = g /\ s[j] = h => i < j

\* Appending x to a queue of distinct elements that does not hold it.
LEMMA AppendFacts ==
  ASSUME NEW S, NEW s \in Seq(S), NEW x \in S, Distinct(s), ~Has(s, x)
  PROVE  /\ Append(s, x) \in Seq(S)
         /\ Distinct(Append(s, x))
         /\ \A h : Has(Append(s, x), h) <=> Has(s, h) \/ h = x
         /\ \A g, h : Before(s, g, h) /\ g # x => Before(Append(s, x), g, h)
         /\ Append(s, x) # <<>>
         /\ Head(Append(s, x)) = IF s = <<>> THEN x ELSE Head(s)
<1> DEFINE r == Append(s, x)
<1>1. /\ r \in Seq(S) /\ Len(r) = Len(s) + 1 /\ Len(s) \in Nat
      /\ \A i \in 1..Len(s) : r[i] = s[i]
      /\ r[Len(s) + 1] = x
  OBVIOUS
<1> HIDE DEF r
<1>2. \A i \in 1..Len(r) : i \in 1..Len(s) \/ i = Len(s) + 1
  BY <1>1
<1>3. Distinct(r)
  BY <1>1, <1>2 DEF Distinct, Has
<1>4. ASSUME NEW h PROVE Has(r, h) <=> Has(s, h) \/ h = x
  BY <1>1, <1>2 DEF Has
<1>5. ASSUME NEW g, NEW h, Before(s, g, h), g # x PROVE Before(r, g, h)
  BY <1>1, <1>2, <1>5 DEF Before
<1>6. r # <<>> /\ Head(r) = IF s = <<>> THEN x ELSE Head(s)
  BY <1>1
<1>7. QED
  BY <1>1, <1>3, <1>4, <1>5, <1>6 DEF r

\* Consuming the head of a queue of distinct elements.
LEMMA TailFacts ==
  ASSUME NEW S, NEW s \in Seq(S), s # <<>>, Distinct(s)
  PROVE  /\ Tail(s) \in Seq(S)
         /\ Distinct(Tail(s))
         /\ Has(s, Head(s))
         /\ \A h : Has(Tail(s), h) <=> Has(s, h) /\ h # Head(s)
         /\ \A g, h : Before(s, g, h) => Before(Tail(s), g, h)
         /\ \A g : Before(s, g, Head(s)) => ~Has(s, g)
<1> DEFINE r == Tail(s)
<1>1. /\ r \in Seq(S) /\ Len(r) = Len(s) - 1 /\ Len(s) \in Nat \ {0}
      /\ \A i \in 1..Len(r) : r[i] = s[i + 1]
      /\ Head(s) = s[1]
  OBVIOUS
<1> HIDE DEF r
<1>2. \A i \in 1..Len(s) : i = 1 \/ (i - 1 \in 1..Len(r) /\ r[i - 1] = s[i])
  BY <1>1
<1>3. \A i \in 1..Len(r) : i + 1 \in 1..Len(s)
  BY <1>1
<1>4. Distinct(r)
  BY <1>1, <1>3 DEF Distinct
<1>5. Has(s, Head(s))
  BY <1>1 DEF Has
<1>6. ASSUME NEW h PROVE Has(r, h) <=> Has(s, h) /\ h # Head(s)
  <2>1. ASSUME Has(r, h) PROVE Has(s, h) /\ h # Head(s)
    <3>1. PICK i \in 1..Len(r) : r[i] = h
      BY <2>1 DEF Has
    <3>2. i + 1 \in 1..Len(s) /\ s[i + 1] = h /\ i + 1 # 1 /\ 1 \in 1..Len(s)
      BY <3>1, <1>1, <1>3
    <3>3. QED
      BY <3>2, <1>1 DEF Has, Distinct
  <2>2. ASSUME Has(s, h), h # Head(s) PROVE Has(r, h)
    BY <2>2, <1>1, <1>2 DEF Has
  <2>3. QED
    BY <2>1, <2>2
<1>7. ASSUME NEW g, NEW h, Before(s, g, h) PROVE Before(r, g, h)
  BY <1>1, <1>3, <1>7 DEF Before
<1>8. ASSUME NEW g, Before(s, g, Head(s)) PROVE ~Has(s, g)
  BY <1>1, <1>8 DEF Before, Has
<1>9. QED
  BY <1>1, <1>4, <1>5, <1>6, <1>7, <1>8 DEF r

\* Putting a second queue of distinct elements behind the first.
LEMMA ConcatFacts ==
  ASSUME NEW S, NEW s \in Seq(S), NEW r \in Seq(S), Distinct(s), Distinct(r),
         \A h : ~(Has(s, h) /\ Has(r, h))
  PROVE  /\ s \o r \in Seq(S)
         /\ Distinct(s \o r)
         /\ \A h : Has(s \o r, h) <=> Has(s, h) \/ Has(r, h)
         /\ \A g, h : Before(s, g, h) /\ Before(r, g, h) /\ ~Has(r, g)
                        => Before(s \o r, g, h)
         /\ \A g, h : Before(r, g, h) /\ ~Has(s, g) /\ ~Has(s, h)
                        => Before(s \o r, g, h)
<1> DEFINE q == s \o r
           m == Len(s)
           n == Len(r)
<1>1. /\ q \in Seq(S) /\ Len(q) = m + n /\ m \in Nat /\ n \in Nat
      /\ \A i \in 1..m : q[i] = s[i]
      /\ \A i \in 1..n : q[m + i] = r[i]
  OBVIOUS
<1> HIDE DEF q
<1>2. \A i \in 1..Len(q) : i \in 1..m \/ (i - m \in 1..n /\ q[i] = r[i - m] /\ i > m)
  <2> SUFFICES ASSUME NEW i \in 1..Len(q), i \notin 1..m
               PROVE  i - m \in 1..n /\ q[i] = r[i - m] /\ i > m
    OBVIOUS
  <2> HIDE DEF m, n
  <2>1. i - m \in 1..n /\ i > m /\ m + (i - m) = i
    BY <1>1
  <2>2. QED
    BY <2>1, <1>1
<1>3. \A i \in 1..m : i \in 1..Len(q)
  BY <1>1
<1>4. \A i \in 1..n : m + i \in 1..Len(q)
  BY <1>1
<1> HIDE DEF m, n
<1>5. Distinct(q)
  <2> SUFFICES ASSUME NEW i \in 1..Len(q), NEW j \in 1..Len(q), q[i] = q[j]
               PROVE  i = j
    BY DEF Distinct
  <2>1. CASE i \in 1..m /\ j \in 1..m
    BY <2>1, <1>1 DEF Distinct, m
  <2>2. CASE i \notin 1..m /\ j \notin 1..m
    <3>1. i - m = j - m
      BY <2>2, <1>2 DEF Distinct, n
    <3>2. QED
      BY <3>1, <1>1
  <2>3. ASSUME NEW a \in 1..m, NEW b \in 1..Len(q), b \notin 1..m
        PROVE  q[a] # q[b]
    BY <2>3, <1>1, <1>2 DEF Has, m, n
  <2>4. QED
    BY <2>1, <2>2, <2>3
<1>6. ASSUME NEW h PROVE Has(q, h) <=> Has(s, h) \/ Has(r, h)
  BY <1>1, <1>2, <1>3, <1>4 DEF Has, m, n
<1>7. ASSUME NEW g, NEW h, Before(s, g, h), ~Has(r, g) PROVE Before(q, g, h)
  <2> SUFFICES ASSUME NEW i \in 1..Len(q), NEW j \in 1..Len(q), q[i] = g, q[j] = h
               PROVE  i < j
    BY DEF Before
  <2>1. i \in 1..m /\ s[i] = g
    BY <1>1, <1>2, <1>7 DEF Has, n
  <2>2. CASE j \in 1..m
    BY <2>1, <2>2, <1>1, <1>7 DEF Before, m
  <2>3. CASE j \notin 1..m
    BY <2>1, <2>3, <1>1
  <2>4. QED
    BY <2>2, <2>3
<1>8. ASSUME NEW g, NEW h, Before(r, g, h), ~Has(s, g), ~Has(s, h)
      PROVE  Before(q, g, h)
  <2> SUFFICES ASSUME NEW i \in 1..Len(q), NEW j \in 1..Len(q), q[i] = g, q[j] = h
               PROVE  i < j
    BY DEF Before
  <2>1. i - m \in 1..n /\ j - m \in 1..n /\ r[i - m] = g /\ r[j - m] = h
    BY <1>1, <1>2, <1>8 DEF Has, m
  <2>2. i - m < j - m
    BY <2>1, <1>8 DEF Before, n
  <2>3. QED
    BY <2>2, <1>1
<1>9. QED
  BY <1>1, <1>5, <1>6, <1>7, <1>8 DEF q

-----------------------------------------------------------------------------
(* The loop's handles                                                      *)

(* Handles of different kinds differ, those of one kind differ by owner.   *)
LEMMA HandleFacts ==
  /\ \A c \in Callers : CallHandle(c) \in Handle /\ WakeHandle(c) \in Handle
  /\ \A t \in Tasks : StepHandle(t) \in Handle /\ PopHandle(t) \in Handle
  /\ \A x, y : /\ CallHandle(x) # StepHandle(y) /\ CallHandle(x) # PopHandle(y)
               /\ CallHandle(x) # WakeHandle(y) /\ StepHandle(x) # PopHandle(y)
               /\ StepHandle(x) # WakeHandle(y) /\ PopHandle(x) # WakeHandle(y)
  /\ \A x, y : /\ CallHandle(x) = CallHandle(y) => x = y
               /\ StepHandle(x) = StepHandle(y) => x = y
               /\ PopHandle(x) = PopHandle(y) => x = y
               /\ WakeHandle(x) = WakeHandle(y) => x = y
<1>1. /\ \A c \in Callers : CallHandle(c) \in Handle /\ WakeHandle(c) \in Handle
      /\ \A t \in Tasks : StepHandle(t) \in Handle /\ PopHandle(t) \in Handle
  BY DEF Handle, CallHandle, StepHandle, PopHandle, WakeHandle
<1>2. ASSUME NEW x, NEW y
      PROVE  /\ CallHandle(x) # StepHandle(y) /\ CallHandle(x) # PopHandle(y)
             /\ CallHandle(x) # WakeHandle(y) /\ StepHandle(x) # PopHandle(y)
             /\ StepHandle(x) # WakeHandle(y) /\ PopHandle(x) # WakeHandle(y)
  <2>1. /\ CallHandle(x).kind = "call" /\ StepHandle(x).kind = "step"
        /\ PopHandle(x).kind = "pop" /\ StepHandle(y).kind = "step"
        /\ PopHandle(y).kind = "pop" /\ WakeHandle(y).kind = "wake"
    BY DEF CallHandle, StepHandle, PopHandle, WakeHandle
  <2>2. QED
    BY <2>1
<1>3. \A x : /\ CallHandle(x).who = x /\ StepHandle(x).who = x
             /\ PopHandle(x).who = x /\ WakeHandle(x).who = x
  BY DEF CallHandle, StepHandle, PopHandle, WakeHandle
<1>4. ASSUME NEW x, NEW y
      PROVE  /\ CallHandle(x) = CallHandle(y) => x = y
             /\ StepHandle(x) = StepHandle(y) => x = y
             /\ PopHandle(x) = PopHandle(y) => x = y
             /\ WakeHandle(x) = WakeHandle(y) => x = y
  BY <1>3
<1>5. QED
  BY <1>1, <1>2, <1>4

\* A finished task's callbacks: the slot's first, then its callers' wake-ups.
LEMMA CallbacksFacts ==
  ASSUME NEW t \in Tasks, task[t].joined \in Seq(Callers), Distinct(task[t].joined)
  PROVE  /\ Callbacks(t) \in Seq(Handle)
         /\ Distinct(Callbacks(t))
         /\ \A h : Has(Callbacks(t), h) <=>
              h = PopHandle(t) \/ \E c \in Callers : Has(task[t].joined, c) /\ h = WakeHandle(c)
         /\ \A c : Before(Callbacks(t), PopHandle(t), WakeHandle(c))
<1> DEFINE j == task[t].joined
           w == [i \in 1..Len(j) |-> WakeHandle(j[i])]
           p == <<PopHandle(t)>>
<1>1. /\ j \in Seq(Callers) /\ Len(j) \in Nat /\ Distinct(j)
      /\ \A i \in 1..Len(j) : j[i] \in Callers
  OBVIOUS
<1> HIDE DEF j
<1>2. /\ w \in Seq(Handle) /\ Len(w) = Len(j)
      /\ \A i \in 1..Len(j) : w[i] = WakeHandle(j[i])
  BY <1>1, HandleFacts
<1>3. p \in Seq(Handle) /\ Len(p) = 1 /\ p[1] = PopHandle(t)
  BY HandleFacts
<1>4. Callbacks(t) = p \o w
  BY DEF Callbacks, j
<1> HIDE DEF w, p
<1>5. Distinct(w)
  BY <1>1, <1>2, HandleFacts DEF Distinct
<1>6. \A h : Has(w, h) <=> \E c \in Callers : Has(j, c) /\ h = WakeHandle(c)
  BY <1>1, <1>2 DEF Has
<1>7. Distinct(p) /\ \A h : Has(p, h) <=> h = PopHandle(t)
  BY <1>3 DEF Distinct, Has
<1>8. \A h : ~(Has(p, h) /\ Has(w, h))
  BY <1>6, <1>7, HandleFacts
<1>9. ASSUME NEW c PROVE Before(p, PopHandle(t), WakeHandle(c)) /\ ~Has(w, PopHandle(t))
  BY <1>3, <1>6, HandleFacts DEF Before
<1>10. /\ p \o w \in Seq(Handle) /\ Distinct(p \o w)
       /\ \A h : Has(p \o w, h) <=> Has(p, h) \/ Has(w, h)
       /\ \A g, h : Before(p, g, h) /\ Before(w, g, h) /\ ~Has(w, g)
                      => Before(p \o w, g, h)
  BY <1>2, <1>3, <1>5, <1>7, <1>8, ConcatFacts
<1>11. ASSUME NEW c PROVE Before(p \o w, PopHandle(t), WakeHandle(c))
  <2>1. Before(w, PopHandle(t), WakeHandle(c))
    BY <1>9 DEF Before, Has
  <2>2. QED
    BY <2>1, <1>9, <1>10
<1>12. QED
  BY <1>4, <1>6, <1>7, <1>10, <1>11 DEF j

-----------------------------------------------------------------------------
(* The inductive invariant.  What is queued is consistent with the phases  *)
(* of tasks and callers, a finished task's slot callback comes before its  *)
(* callers' wake-ups, and it finds the task it belongs to in its slot      *)
(* unless a call has come in between.                                      *)
CallsCalling == \A c \in Callers : Has(ready, CallHandle(c)) => caller[c].phase = "calling"

StepsScheduled == \A t \in Tasks : Has(ready, StepHandle(t)) => task[t].phase = "scheduled"

PopsDone ==
  \A t \in Tasks : Has(ready, PopHandle(t)) =>
    /\ Done(t)
    /\ SlotOf(task[t].op) \notin raced => inflight[SlotOf(task[t].op)] = t

WakesDone ==
  \A c \in Callers : Has(ready, WakeHandle(c)) =>
    /\ caller[c].on \in Tasks /\ Done(caller[c].on)
    /\ Before(ready, PopHandle(caller[c].on), WakeHandle(c))

JoinedAwait ==
  \A t \in Tasks : Live(t) =>
    /\ Distinct(task[t].joined)
    /\ \A c \in Callers : Has(task[t].joined, c) => caller[c].on = t

AwaitedBorn == \A c \in Callers : caller[c].on \in Tasks => task[caller[c].on].phase # "unborn"

RegisteredBorn ==
  \A k \in Slots : inflight[k] # NoTask =>
    /\ task[inflight[k]].phase # "unborn"
    /\ SlotOf(task[inflight[k]].op) = k
    /\ Done(inflight[k]) => Has(ready, PopHandle(inflight[k]))

IInv ==
  /\ TypeOK
  /\ Distinct(ready)
  /\ CallsCalling
  /\ StepsScheduled
  /\ PopsDone
  /\ WakesDone
  /\ JoinedAwait
  /\ AwaitedBorn
  /\ RegisteredBorn
  /\ SingleFlightUnlessRaced

LEMMA InitIInv == Init => IInv
<1> SUFFICES ASSUME Init PROVE IInv
  OBVIOUS
<1>1. TypeOK
  BY DEF Init, TypeOK, Unborn, AtRest, Done, Handle, TaskState, CallerState
<1>2. Len(ready) = 0
  BY DEF Init
<1>3. Distinct(ready) /\ \A h : ~Has(ready, h)
  BY <1>2 DEF Distinct, Has
<1>4. CallsCalling /\ StepsScheduled /\ PopsDone /\ WakesDone
  BY <1>3 DEF CallsCalling, StepsScheduled, PopsDone, WakesDone
<1>5. JoinedAwait /\ AwaitedBorn /\ RegisteredBorn /\ SingleFlightUnlessRaced
  BY CoalesceAssumption
  DEF Init, JoinedAwait, AwaitedBorn, RegisteredBorn, SingleFlightUnlessRaced,
      Live, Unborn, AtRest
<1>6. QED
  BY <1>1, <1>3, <1>4, <1>5 DEF IInv

(* What a step does to the queue, for each way of changing it.             *)
LEMMA Enqueues ==
  ASSUME IInv, NEW x \in Handle, ~Has(ready, x), ready' = Append(ready, x)
  PROVE  /\ ready' \in Seq(Handle) /\ Distinct(ready')
         /\ \A h : Has(ready', h) <=> Has(ready, h) \/ h = x
         /\ \A g, h : Before(ready, g, h) /\ g # x => Before(ready', g, h)
<1>1. ready \in Seq(Handle) /\ Distinct(ready)
  BY DEF IInv, TypeOK
<1>2. QED
  BY <1>1, AppendFacts

LEMMA Consumes ==
  ASSUME IInv, NEW x, Runs(x), ready' = Tail(ready)
  PROVE  /\ ready' \in Seq(Handle) /\ Distinct(ready')
         /\ Has(ready, x)
         /\ \A h : Has(ready', h) <=> Has(ready, h) /\ h # x
         /\ \A g, h : Before(ready, g, h) => Before(ready', g, h)
         /\ \A g : Before(ready, g, x) => ~Has(ready, g)
<1>1. ready \in Seq(Handle) /\ Distinct(ready) /\ ready # <<>> /\ Head(ready) = x
  BY DEF IInv, TypeOK, Runs
<1>2. QED
  BY <1>1, TailFacts

LEMMA ArriveIInv ==
  ASSUME IInv, NEW c \in Callers, NEW op \in Ops, Arrive(c, op) PROVE IInv'
<1>1. caller[c].phase = "idle" /\ ~Has(ready, CallHandle(c))
  BY DEF Arrive, IInv, CallsCalling
<1>2. /\ ready' \in Seq(Handle) /\ Distinct(ready')
      /\ \A h : Has(ready', h) <=> Has(ready, h) \/ h = CallHandle(c)
      /\ \A g, h : Before(ready, g, h) /\ g # CallHandle(c) => Before(ready', g, h)
  BY <1>1, Enqueues, HandleFacts DEF Arrive
<1>3. TypeOK'
  <2>1. caller' \in [Callers -> CallerState]
    BY DEF Arrive, IInv, TypeOK, CallerState
  <2>2. caller'[c].phase = "calling" /\ caller'[c].on = caller[c].on
    BY DEF Arrive, IInv, TypeOK, CallerState
  <2>3. \A d \in Callers \ {c} : caller'[d] = caller[d]
    BY DEF Arrive, IInv, TypeOK
  <2>4. QED
    BY <1>1, <1>2, <2>1, <2>2, <2>3 DEF Arrive, IInv, TypeOK, Done
<1>4. CallsCalling'
  BY <1>2, HandleFacts DEF Arrive, IInv, TypeOK, CallsCalling
<1>5. StepsScheduled' /\ PopsDone'
  BY <1>2, HandleFacts DEF Arrive, IInv, StepsScheduled, PopsDone, Done
<1>6. \A d \in Callers : caller'[d].on = caller[d].on
  BY DEF Arrive, IInv, TypeOK
<1>7. WakesDone'
  BY <1>2, <1>6, HandleFacts DEF Arrive, IInv, WakesDone, Done
<1>8. JoinedAwait' /\ AwaitedBorn'
  BY <1>6 DEF Arrive, IInv, JoinedAwait, AwaitedBorn, Live
<1>9. RegisteredBorn' /\ SingleFlightUnlessRaced'
  BY <1>2 DEF Arrive, IInv, RegisteredBorn, SingleFlightUnlessRaced, Live, Done
<1>10. QED
  BY <1>2, <1>3, <1>4, <1>5, <1>7, <1>8, <1>9 DEF IInv

LEMMA JoinIInv == ASSUME IInv, NEW c \in Callers, Join(c) PROVE IInv'
<1> DEFINE k == SlotOf(caller[c].op)
           t == inflight[k]
<1>1. /\ Has(ready, CallHandle(c)) /\ caller[c].phase = "calling"
      /\ caller[c].on = NoTask
  BY Consumes DEF Join, IInv, CallsCalling, TypeOK
<1>2. /\ ready' \in Seq(Handle) /\ Distinct(ready')
      /\ \A h : Has(ready', h) <=> Has(ready, h) /\ h # CallHandle(c)
      /\ \A g, h : Before(ready, g, h) => Before(ready', g, h)
  BY Consumes DEF Join
<1>3. k \in Slots /\ t \in Tasks /\ t # NoTask /\ ~Done(t) /\ Live(t) /\ t = inflight[k]
  <2>1. k \in Slots
    BY DEF SlotOf, Slots
  <2>2. t \in Tasks /\ t # NoTask /\ ~Done(t)
    BY <2>1 DEF Join, Registered, IInv, TypeOK
  <2>3. task[t] \in TaskState /\ task[t].phase # "unborn"
    BY <2>1, <2>2 DEF IInv, TypeOK, RegisteredBorn
  <2>4. QED
    BY <2>1, <2>2, <2>3 DEF Live, Done, TaskState
<1>4. /\ caller' = [caller EXCEPT ![c] = [@ EXCEPT !.phase = "awaiting", !.on = t]]
      /\ task' = [task EXCEPT ![t].joined = Append(@, c)]
      /\ UNCHANGED <<inflight, raced>>
  BY DEF Join, Awaits
<1> HIDE DEF t, k
<1>5. /\ caller' \in [Callers -> CallerState]
      /\ caller'[c].phase = "awaiting" /\ caller'[c].on = t
      /\ \A d \in Callers \ {c} : caller'[d] = caller[d]
  BY <1>3, <1>4 DEF IInv, TypeOK, CallerState
<1>6. /\ task' \in [Tasks -> TaskState]
      /\ task'[t].joined = Append(task[t].joined, c)
      /\ \A u \in Tasks : /\ task'[u].phase = task[u].phase /\ task'[u].op = task[u].op
                          /\ task'[u].out = task[u].out
                          /\ u # t => task'[u].joined = task[u].joined
  <2>1. task \in [Tasks -> TaskState] /\ task[t].joined \in Seq(Callers)
    BY <1>3 DEF IInv, TypeOK, TaskState
  <2>2. Append(task[t].joined, c) \in Seq(Callers)
    BY <2>1
  <2>3. task' = [task EXCEPT ![t] = [@ EXCEPT !.joined = Append(task[t].joined, c)]]
    BY <1>4
  <2>4. [task[t] EXCEPT !.joined = Append(task[t].joined, c)] \in TaskState
    BY <1>3, <2>1, <2>2 DEF TaskState
  <2>5. task' \in [Tasks -> TaskState]
    BY <1>3, <2>1, <2>3, <2>4
  <2>6. QED
    BY <1>3, <2>1, <2>3, <2>5 DEF TaskState
<1>7. TypeOK'
  BY <1>2, <1>3, <1>4, <1>5, <1>6, CoalesceAssumption DEF IInv, TypeOK, Done
<1>8. CallsCalling' /\ StepsScheduled' /\ PopsDone'
  BY <1>2, <1>4, <1>5, <1>6, HandleFacts
  DEF IInv, CallsCalling, StepsScheduled, PopsDone, Done
<1>9. WakesDone'
  BY <1>1, <1>2, <1>5, <1>6, CoalesceAssumption DEF IInv, WakesDone, Done
<1>10. JoinedAwait'
  <2>1. task[t].joined \in Seq(Callers) /\ Distinct(task[t].joined)
        /\ \A d \in Callers : Has(task[t].joined, d) => caller[d].on = t
    BY <1>3 DEF IInv, TypeOK, TaskState, JoinedAwait
  <2>2. ~Has(task[t].joined, c)
    BY <2>1, <1>1, <1>3
  <2>3. /\ Distinct(task'[t].joined)
        /\ \A d : Has(task'[t].joined, d) <=> Has(task[t].joined, d) \/ d = c
    BY <2>1, <2>2, <1>6, AppendFacts
  <2>4. ASSUME NEW u \in Tasks, Live(u)', u # t
        PROVE  /\ Distinct(task'[u].joined)
               /\ \A d \in Callers : Has(task'[u].joined, d) => caller'[d].on = u
    <3>1. Live(u) /\ task'[u].joined = task[u].joined
      BY <2>4, <1>6 DEF Live
    <3>2. ~Has(task[u].joined, c)
      BY <3>1, <1>1, CoalesceAssumption DEF IInv, JoinedAwait
    <3>3. QED
      BY <3>1, <3>2, <1>5 DEF IInv, JoinedAwait
  <2>5. QED
    BY <2>1, <2>3, <2>4, <1>5 DEF JoinedAwait
<1>11. AwaitedBorn'
  BY <1>3, <1>5, <1>6 DEF IInv, AwaitedBorn, Live
<1>12. RegisteredBorn' /\ SingleFlightUnlessRaced'
  BY <1>2, <1>4, <1>6, HandleFacts
  DEF IInv, TypeOK, RegisteredBorn, SingleFlightUnlessRaced, Live, Done
<1>13. QED
  BY <1>2, <1>7, <1>8, <1>9, <1>10, <1>11, <1>12 DEF IInv

LEMMA LaunchIInv ==
  ASSUME IInv, NEW c \in Callers, NEW t \in Tasks, Launch(c, t) PROVE IInv'
<1> DEFINE k == SlotOf(caller[c].op)
           q == Tail(ready)
<1>1. /\ Has(ready, CallHandle(c)) /\ caller[c].phase = "calling"
      /\ caller[c].on = NoTask
  <2>1. Has(ready, CallHandle(c))
    BY TailFacts DEF Launch, Runs, IInv, TypeOK
  <2>2. QED
    BY <2>1 DEF IInv, CallsCalling, TypeOK
<1>2. /\ k \in Slots /\ k = SlotOf(caller[c].op) /\ task[t] = Unborn
      /\ inflight[k] = NoTask \/ Done(inflight[k])
  BY DEF SlotOf, Slots, Launch, Registered
<1>3. ~Has(ready, StepHandle(t)) /\ ~Has(ready, PopHandle(t))
  BY <1>2 DEF IInv, StepsScheduled, PopsDone, Unborn, Done
<1>4. /\ ready' \in Seq(Handle) /\ Distinct(ready')
      /\ \A h : Has(ready', h) <=> (Has(ready, h) /\ h # CallHandle(c)) \/ h = StepHandle(t)
      /\ \A g, h : Before(ready, g, h) /\ g # StepHandle(t) => Before(ready', g, h)
  <2>1. /\ ready \in Seq(Handle) /\ Distinct(ready) /\ ready # <<>>
        /\ Head(ready) = CallHandle(c) /\ ready' = Append(q, StepHandle(t))
    BY DEF IInv, TypeOK, Launch, Runs
  <2>2. /\ q \in Seq(Handle) /\ Distinct(q)
        /\ \A h : Has(q, h) <=> Has(ready, h) /\ h # CallHandle(c)
        /\ \A g, h : Before(ready, g, h) => Before(q, g, h)
    BY <2>1, TailFacts
  <2> HIDE DEF q
  <2>3. QED
    BY <2>1, <2>2, <1>3, HandleFacts, AppendFacts
<1>5. /\ caller' = [caller EXCEPT ![c] = [@ EXCEPT !.phase = "awaiting", !.on = t]]
      /\ task' = [task EXCEPT ![t] = [phase |-> "scheduled", op |-> caller[c].op,
                                      cancel |-> FALSE, out |-> "none", joined |-> <<c>>]]
      /\ inflight' = [inflight EXCEPT ![k] = t]
      /\ raced' = IF Stale(k) THEN raced \cup {k} ELSE raced
  BY DEF Launch, Awaits
<1> HIDE DEF k
<1>6. /\ caller' \in [Callers -> CallerState]
      /\ caller'[c].phase = "awaiting" /\ caller'[c].on = t
      /\ \A d \in Callers \ {c} : caller'[d] = caller[d]
  BY <1>5 DEF IInv, TypeOK, CallerState
<1>7. /\ task' \in [Tasks -> TaskState]
      /\ task'[t].phase = "scheduled" /\ task'[t].out = "none"
      /\ task'[t].op = caller[c].op /\ task'[t].joined = <<c>>
      /\ \A u \in Tasks \ {t} : task'[u] = task[u]
  <2>1. <<c>> \in Seq(Callers) /\ caller[c].op \in Ops \cup {"none"}
    BY DEF IInv, TypeOK, CallerState
  <2>2. QED
    BY <1>5, <2>1 DEF IInv, TypeOK, TaskState
<1>8. /\ inflight' \in [Slots -> Tasks \cup {NoTask}] /\ inflight'[k] = t
      /\ \A l \in Slots \ {k} : inflight'[l] = inflight[l]
      /\ raced' \in SUBSET Slots /\ raced \subseteq raced'
      /\ inflight[k] # NoTask => k \in raced'
  BY <1>2, <1>5 DEF IInv, TypeOK, Stale
<1>9. TypeOK'
  <2>1. \A d \in Callers : /\ caller'[d].phase = "awaiting" <=> caller'[d].on # NoTask
                           /\ caller'[d].phase = "idle" => caller'[d] = AtRest
    BY <1>6, CoalesceAssumption DEF IInv, TypeOK
  <2>2. \A u \in Tasks : Done(u)' <=> task'[u].out # "none"
    BY <1>7 DEF IInv, TypeOK, Done
  <2>3. QED
    BY <1>4, <1>6, <1>7, <1>8, <2>1, <2>2 DEF TypeOK
<1>10. CallsCalling' /\ StepsScheduled'
  BY <1>4, <1>6, <1>7, HandleFacts DEF IInv, CallsCalling, StepsScheduled
<1>11. PopsDone'
  <2> SUFFICES ASSUME NEW u \in Tasks, Has(ready', PopHandle(u))
               PROVE  /\ Done(u)'
                      /\ SlotOf(task'[u].op) \notin raced' => inflight'[SlotOf(task'[u].op)] = u
    BY DEF PopsDone
  <2>1. Has(ready, PopHandle(u)) /\ u # t /\ task'[u] = task[u]
    BY <1>3, <1>4, <1>7, HandleFacts
  <2>2. Done(u) /\ (SlotOf(task[u].op) \notin raced => inflight[SlotOf(task[u].op)] = u)
    BY <2>1 DEF IInv, PopsDone
  <2>3. SlotOf(task[u].op) \in Slots
    BY DEF SlotOf, Slots
  <2>4. QED
    BY <2>1, <2>2, <2>3, <1>8, CoalesceAssumption DEF Done
<1>12. WakesDone'
  <2> SUFFICES ASSUME NEW d \in Callers, Has(ready', WakeHandle(d))
               PROVE  /\ caller'[d].on \in Tasks /\ Done(caller[d].on)'
                      /\ Before(ready', PopHandle(caller'[d].on), WakeHandle(d))
    BY DEF WakesDone
  <2>1. Has(ready, WakeHandle(d)) /\ d # c /\ caller'[d] = caller[d]
    BY <1>1, <1>4, <1>6, HandleFacts, CoalesceAssumption DEF IInv, WakesDone
  <2>2. caller[d].on # t
    BY <2>1, <1>2 DEF IInv, WakesDone, Done, Unborn
  <2>3. QED
    BY <2>1, <2>2, <1>4, <1>7, HandleFacts DEF IInv, WakesDone, Done
<1>13. JoinedAwait'
  <2>1. Distinct(<<c>>) /\ \A d : Has(<<c>>, d) <=> d = c
    BY DEF Distinct, Has
  <2>2. ASSUME NEW u \in Tasks, u # t, Live(u)'
        PROVE  /\ Distinct(task'[u].joined)
               /\ \A d \in Callers : Has(task'[u].joined, d) => caller'[d].on = u
    <3>1. Live(u) /\ task'[u] = task[u]
      BY <2>2, <1>7 DEF Live
    <3>2. ~Has(task[u].joined, c)
      BY <3>1, <1>1, CoalesceAssumption DEF IInv, JoinedAwait
    <3>3. QED
      BY <3>1, <3>2, <1>6 DEF IInv, JoinedAwait
  <2>3. QED
    BY <2>1, <2>2, <1>6, <1>7 DEF JoinedAwait
<1>14. AwaitedBorn'
  BY <1>6, <1>7 DEF IInv, AwaitedBorn
<1>15. RegisteredBorn'
  BY <1>2, <1>3, <1>4, <1>7, <1>8, HandleFacts
  DEF IInv, TypeOK, RegisteredBorn, Done, Unborn
<1>16. SingleFlightUnlessRaced'
  <2> SUFFICES ASSUME NEW u \in Tasks, Live(u)', SlotOf(task'[u].op) \notin raced'
               PROVE  inflight'[SlotOf(task'[u].op)] = u
    BY DEF SingleFlightUnlessRaced
  <2>1. CASE u = t
    BY <2>1, <1>2, <1>7, <1>8
  <2>2. CASE u # t
    <3>1. Live(u) /\ task'[u] = task[u] /\ SlotOf(task[u].op) \in Slots
      BY <2>2, <1>7 DEF Live, SlotOf, Slots
    <3>2. inflight[SlotOf(task[u].op)] = u
      BY <3>1, <1>8 DEF IInv, SingleFlightUnlessRaced
    <3>3. QED
      BY <3>1, <3>2, <1>8, CoalesceAssumption
  <2>3. QED
    BY <2>1, <2>2
<1>17. QED
  BY <1>4, <1>9, <1>10, <1>11, <1>12, <1>13, <1>14, <1>15, <1>16 DEF IInv

\* A step that only moves task t between "scheduled" and "suspended", or marks
\* it cancelled, keeps every fact about the records.
LEMMA SuspendIInv == ASSUME IInv, NEW t \in Tasks, Suspend(t) PROVE IInv'
<1>1. /\ Has(ready, StepHandle(t)) /\ task[t].phase = "scheduled"
  BY Consumes DEF Suspend, IInv, StepsScheduled
<1>2. /\ ready' \in Seq(Handle) /\ Distinct(ready')
      /\ \A h : Has(ready', h) <=> Has(ready, h) /\ h # StepHandle(t)
      /\ \A g, h : Before(ready, g, h) => Before(ready', g, h)
  BY Consumes DEF Suspend
<1>3. /\ task' \in [Tasks -> TaskState]
      /\ task'[t].phase = "suspended"
      /\ \A u \in Tasks : /\ task'[u].op = task[u].op /\ task'[u].out = task[u].out
                          /\ task'[u].joined = task[u].joined
                          /\ u # t => task'[u].phase = task[u].phase
  BY DEF Suspend, IInv, TypeOK, TaskState
<1>4. UNCHANGED <<inflight, caller, raced>>
  BY DEF Suspend
<1>5. \A u \in Tasks : (Done(u)' <=> Done(u)) /\ (Live(u)' <=> Live(u))
  BY <1>1, <1>3 DEF Done, Live
<1>6. TypeOK'
  BY <1>2, <1>3, <1>4, <1>5 DEF IInv, TypeOK
<1>7. CallsCalling' /\ StepsScheduled'
  BY <1>2, <1>3, <1>4, HandleFacts DEF IInv, CallsCalling, StepsScheduled
<1>8. PopsDone' /\ WakesDone'
  BY <1>2, <1>3, <1>4, <1>5, HandleFacts DEF IInv, PopsDone, WakesDone, Done
<1>9. JoinedAwait' /\ AwaitedBorn'
  BY <1>3, <1>4, <1>5 DEF IInv, JoinedAwait, AwaitedBorn
<1>10. RegisteredBorn' /\ SingleFlightUnlessRaced'
  BY <1>2, <1>3, <1>4, <1>5, HandleFacts
  DEF IInv, TypeOK, RegisteredBorn, SingleFlightUnlessRaced, Done
<1>11. QED
  BY <1>2, <1>6, <1>7, <1>8, <1>9, <1>10 DEF IInv

\* A task that was suspended becomes runnable, whether what it awaited has come
\* or a caller of its was cancelled.
LEMMA Reschedules ==
  ASSUME IInv, NEW t \in Tasks, task[t].phase = "suspended",
         ready' = Append(ready, StepHandle(t)), UNCHANGED <<inflight, caller, raced>>,
         task' \in [Tasks -> TaskState], task'[t].phase = "scheduled",
         \A u \in Tasks : /\ task'[u].op = task[u].op /\ task'[u].out = task[u].out
                          /\ task'[u].joined = task[u].joined
                          /\ u # t => task'[u].phase = task[u].phase
  PROVE  IInv'
<1>1. ~Has(ready, StepHandle(t))
  BY DEF IInv, StepsScheduled
<1>2. /\ ready' \in Seq(Handle) /\ Distinct(ready')
      /\ \A h : Has(ready', h) <=> Has(ready, h) \/ h = StepHandle(t)
      /\ \A g, h : Before(ready, g, h) /\ g # StepHandle(t) => Before(ready', g, h)
  BY <1>1, Enqueues, HandleFacts
<1>3. \A u \in Tasks : (Done(u)' <=> Done(u)) /\ (Live(u)' <=> Live(u))
  BY DEF Done, Live
<1>4. TypeOK'
  BY <1>2, <1>3 DEF IInv, TypeOK
<1>5. CallsCalling' /\ StepsScheduled'
  BY <1>2, HandleFacts DEF IInv, CallsCalling, StepsScheduled
<1>6. PopsDone' /\ WakesDone'
  BY <1>2, <1>3, HandleFacts DEF IInv, PopsDone, WakesDone, Done
<1>7. JoinedAwait' /\ AwaitedBorn'
  BY <1>3 DEF IInv, JoinedAwait, AwaitedBorn
<1>8. RegisteredBorn' /\ SingleFlightUnlessRaced'
  <2>1. \A k \in Slots : inflight[k] # NoTask => inflight[k] \in Tasks
    BY DEF IInv, TypeOK
  <2>2. RegisteredBorn'
    BY <1>2, <1>3, <2>1 DEF IInv, RegisteredBorn
  <2>3. SingleFlightUnlessRaced'
    BY <1>3 DEF IInv, SingleFlightUnlessRaced
  <2>4. QED
    BY <2>2, <2>3
<1>9. QED
  BY <1>2, <1>4, <1>5, <1>6, <1>7, <1>8 DEF IInv

LEMMA ResumeIInv == ASSUME IInv, NEW t \in Tasks, Resume(t) PROVE IInv'
<1>1. /\ task' \in [Tasks -> TaskState] /\ task'[t].phase = "scheduled"
      /\ \A u \in Tasks : /\ task'[u].op = task[u].op /\ task'[u].out = task[u].out
                          /\ task'[u].joined = task[u].joined
                          /\ u # t => task'[u].phase = task[u].phase
  BY DEF Resume, IInv, TypeOK, TaskState
<1>2. QED
  BY <1>1, Reschedules DEF Resume

LEMMA CancelIInv == ASSUME IInv, NEW c \in Callers, Cancel(c) PROVE IInv'
<1> DEFINE t == caller[c].on
<1>1. t \in Tasks /\ task[t].phase # "unborn" /\ task[t] \in TaskState
  BY CoalesceAssumption DEF Cancel, IInv, TypeOK, CallerState, AwaitedBorn
<1>2. CASE Done(t)
  <2>1. /\ caller' \in [Callers -> CallerState]
        /\ \A d \in Callers : /\ caller'[d].phase = caller[d].phase
                              /\ caller'[d].on = caller[d].on
                              /\ caller'[d].phase = "idle" => caller'[d] = caller[d]
    <3>1. /\ caller' = [caller EXCEPT ![c] = [@ EXCEPT !.cancel = TRUE]]
          /\ caller[c].phase = "awaiting" /\ caller \in [Callers -> CallerState]
      BY <1>2 DEF Cancel, IInv, TypeOK
    <3>2. caller' \in [Callers -> CallerState]
      BY <3>1 DEF CallerState
    <3>3. QED
      BY <3>1, <3>2 DEF CallerState
  <2>2. UNCHANGED <<inflight, task, ready, raced>>
    BY <1>2 DEF Cancel
  <2>3. TypeOK'
    BY <2>1, <2>2 DEF IInv, TypeOK, Done
  <2>4. CallsCalling' /\ StepsScheduled' /\ PopsDone' /\ WakesDone'
    BY <2>1, <2>2 DEF IInv, CallsCalling, StepsScheduled, PopsDone, WakesDone, Done
  <2>5. JoinedAwait' /\ AwaitedBorn' /\ RegisteredBorn' /\ SingleFlightUnlessRaced'
    BY <2>1, <2>2
    DEF IInv, JoinedAwait, AwaitedBorn, RegisteredBorn, SingleFlightUnlessRaced, Done, Live
  <2>6. QED
    BY <2>2, <2>3, <2>4, <2>5 DEF IInv
<1>3. CASE ~Done(t)
  <2>1. /\ task' = [task EXCEPT ![t] = [@ EXCEPT !.phase = "scheduled", !.cancel = TRUE]]
        /\ ready' = IF task[t].phase = "suspended"
                    THEN Append(ready, StepHandle(t)) ELSE ready
        /\ UNCHANGED <<inflight, caller, raced>>
    BY <1>3 DEF Cancel
  <2> HIDE DEF t
  <2>2. /\ task' \in [Tasks -> TaskState] /\ task'[t].phase = "scheduled"
        /\ \A u \in Tasks : /\ task'[u].op = task[u].op /\ task'[u].out = task[u].out
                            /\ task'[u].joined = task[u].joined
                            /\ u # t => task'[u].phase = task[u].phase
    BY <1>1, <2>1 DEF IInv, TypeOK, TaskState
  <2>3. CASE task[t].phase = "suspended"
    BY <1>1, <2>1, <2>2, <2>3, Reschedules
  <2>4. CASE task[t].phase = "scheduled"
    <3>1. ready' = ready
      BY <2>1, <2>4
    <3>2. \A u \in Tasks : /\ task'[u].phase = task[u].phase
                           /\ (Done(u)' <=> Done(u)) /\ (Live(u)' <=> Live(u))
      BY <2>2, <2>4 DEF Done, Live
    <3>3. TypeOK'
      BY <2>1, <2>2, <3>1, <3>2 DEF IInv, TypeOK
    <3>4. CallsCalling' /\ StepsScheduled' /\ PopsDone' /\ WakesDone'
      BY <2>1, <2>2, <3>1, <3>2
      DEF IInv, CallsCalling, StepsScheduled, PopsDone, WakesDone, Done
    <3>5. JoinedAwait' /\ AwaitedBorn' /\ RegisteredBorn' /\ SingleFlightUnlessRaced'
      BY <2>1, <2>2, <3>1, <3>2
      DEF IInv, TypeOK, JoinedAwait, AwaitedBorn, RegisteredBorn,
          SingleFlightUnlessRaced, Done
    <3>6. QED
      BY <3>1, <3>3, <3>4, <3>5 DEF IInv
  <2>5. QED
    BY <1>1, <1>3, <2>3, <2>4 DEF TaskState, Done
<1>4. QED
  BY <1>2, <1>3

\* The finishing task is the one registered unless its slot has been raced, so
\* the callback it leaves in the queue will find it there.
LEMMA FinishIInv ==
  ASSUME IInv, NEW t \in Tasks, NEW out \in {"ok", "error", "cancelled"}, Finish(t, out)
  PROVE  IInv'
<1> DEFINE q == Tail(ready)
<1>1. /\ Has(ready, StepHandle(t)) /\ task[t].phase = "scheduled" /\ Live(t)
      /\ q \in Seq(Handle) /\ Distinct(q)
      /\ \A h : Has(q, h) <=> Has(ready, h) /\ h # StepHandle(t)
      /\ \A g, h : Before(ready, g, h) => Before(q, g, h)
  <2>1. ready \in Seq(Handle) /\ Distinct(ready) /\ ready # <<>> /\ Head(ready) = StepHandle(t)
    BY DEF Finish, Runs, IInv, TypeOK
  <2>2. QED
    BY <2>1, TailFacts DEF IInv, StepsScheduled, Live
<1>2. /\ task[t].joined \in Seq(Callers) /\ Distinct(task[t].joined)
      /\ \A c \in Callers : Has(task[t].joined, c) => caller[c].on = t
  BY <1>1 DEF IInv, TypeOK, TaskState, JoinedAwait
<1>3. /\ Callbacks(t) \in Seq(Handle) /\ Distinct(Callbacks(t))
      /\ \A h : Has(Callbacks(t), h) <=>
           h = PopHandle(t) \/ \E c \in Callers : Has(task[t].joined, c) /\ h = WakeHandle(c)
      /\ \A c : Before(Callbacks(t), PopHandle(t), WakeHandle(c))
  BY <1>2, CallbacksFacts
<1>4. ~Has(q, PopHandle(t))
  BY <1>1 DEF IInv, PopsDone, Done
<1>5. \A c \in Callers : Has(task[t].joined, c) => ~Has(q, WakeHandle(c))
  BY <1>1, <1>2 DEF IInv, WakesDone, Done
<1>6. \A h : ~(Has(q, h) /\ Has(Callbacks(t), h))
  BY <1>3, <1>4, <1>5
<1>7. ready' = q \o Callbacks(t)
  BY DEF Finish
<1> HIDE DEF q
<1>8. /\ ready' \in Seq(Handle) /\ Distinct(ready')
      /\ \A h : Has(ready', h) <=> Has(q, h) \/ Has(Callbacks(t), h)
      /\ \A g, h : Before(q, g, h) /\ Before(Callbacks(t), g, h) /\ ~Has(Callbacks(t), g)
                     => Before(ready', g, h)
      /\ \A g, h : Before(Callbacks(t), g, h) /\ ~Has(q, g) /\ ~Has(q, h)
                     => Before(ready', g, h)
  BY <1>1, <1>3, <1>6, <1>7, ConcatFacts
<1>9. /\ task' \in [Tasks -> TaskState]
      /\ task'[t].phase = "done" /\ task'[t].out # "none" /\ task'[t].op = task[t].op
      /\ \A u \in Tasks \ {t} : task'[u] = task[u]
  <2> DEFINE r == [task[t] EXCEPT !.phase = "done", !.out = out]
  <2>1. task \in [Tasks -> TaskState] /\ task[t] \in TaskState
    BY DEF IInv, TypeOK
  <2>2. r \in TaskState /\ r.phase = "done" /\ r.out # "none" /\ r.op = task[t].op
    BY <2>1 DEF TaskState
  <2>3. task' = [task EXCEPT ![t] = r]
    BY DEF Finish
  <2> HIDE DEF r
  <2>4. QED
    BY <2>1, <2>2, <2>3
<1>10. UNCHANGED <<inflight, caller, raced>>
  BY DEF Finish
<1>11. /\ \A u \in Tasks : Done(u)' <=> Done(u) \/ u = t
       /\ \A u \in Tasks : Live(u)' <=> Live(u) /\ u # t
  BY <1>9 DEF Done, Live
<1>12. TypeOK'
  BY <1>8, <1>9, <1>10, <1>11 DEF IInv, TypeOK
<1>13. CallsCalling' /\ StepsScheduled'
  BY <1>1, <1>3, <1>8, <1>9, <1>10, HandleFacts DEF IInv, CallsCalling, StepsScheduled
<1>14. PopsDone'
  <2> SUFFICES ASSUME NEW u \in Tasks, Has(ready', PopHandle(u))
               PROVE  /\ Done(u)'
                      /\ SlotOf(task'[u].op) \notin raced => inflight[SlotOf(task'[u].op)] = u
    BY <1>10 DEF PopsDone
  <2>1. CASE u = t
    BY <2>1, <1>1, <1>9, <1>11 DEF IInv, SingleFlightUnlessRaced
  <2>2. CASE u # t
    <3>1. Has(ready, PopHandle(u))
      BY <2>2, <1>1, <1>3, <1>8, HandleFacts
    <3>2. QED
      BY <3>1, <2>2, <1>9, <1>11 DEF IInv, PopsDone
  <2>3. QED
    BY <2>1, <2>2
<1>15. WakesDone'
  <2> SUFFICES ASSUME NEW c \in Callers, Has(ready', WakeHandle(c))
               PROVE  /\ caller[c].on \in Tasks
                      /\ Done(caller[c].on) \/ caller[c].on = t
                      /\ Before(ready', PopHandle(caller[c].on), WakeHandle(c))
    BY <1>9, <1>10 DEF WakesDone, Done
  <2>1. CASE Has(task[t].joined, c)
    BY <2>1, <1>2, <1>3, <1>4, <1>5, <1>8
  <2>2. CASE ~Has(task[t].joined, c)
    <3>1. Has(ready, WakeHandle(c)) /\ ~Has(Callbacks(t), WakeHandle(c))
      BY <2>2, <1>1, <1>3, <1>8, HandleFacts
    <3>2. /\ caller[c].on \in Tasks /\ Done(caller[c].on) /\ caller[c].on # t
          /\ Before(q, PopHandle(caller[c].on), WakeHandle(c))
      BY <3>1, <1>1 DEF IInv, WakesDone, Done
    <3>3. ~Has(Callbacks(t), PopHandle(caller[c].on))
      BY <3>2, <1>3, HandleFacts
    <3>4. Before(Callbacks(t), PopHandle(caller[c].on), WakeHandle(c))
      BY <3>3 DEF Before, Has
    <3>5. QED
      BY <3>2, <3>3, <3>4, <1>8
  <2>3. QED
    BY <2>1, <2>2
<1>16. JoinedAwait'
  BY <1>9, <1>10, <1>11 DEF IInv, JoinedAwait
<1>17. AwaitedBorn'
  BY <1>9, <1>10 DEF IInv, AwaitedBorn
<1>18. RegisteredBorn'
  <2> SUFFICES ASSUME NEW k \in Slots, inflight[k] # NoTask
               PROVE  /\ task'[inflight[k]].phase # "unborn"
                      /\ SlotOf(task'[inflight[k]].op) = k
                      /\ task'[inflight[k]].phase = "done"
                           => Has(ready', PopHandle(inflight[k]))
    BY <1>10 DEF RegisteredBorn, Done
  <2>1. inflight[k] \in Tasks
    BY DEF IInv, TypeOK
  <2>2. CASE inflight[k] = t
    BY <2>2, <1>3, <1>8, <1>9 DEF IInv, RegisteredBorn
  <2>3. CASE inflight[k] # t
    BY <2>1, <2>3, <1>1, <1>8, <1>9, HandleFacts DEF IInv, RegisteredBorn, Done
  <2>4. QED
    BY <2>2, <2>3
<1>19. SingleFlightUnlessRaced'
  BY <1>9, <1>10, <1>11 DEF IInv, SingleFlightUnlessRaced
<1>20. QED
  BY <1>8, <1>12, <1>13, <1>14, <1>15, <1>16, <1>17, <1>18, <1>19 DEF IInv

\* The callback removes what is registered; nothing of an unraced slot is lost
\* because the task that runs under it, if any, is the registered one, and that
\* one has finished.
LEMMA ClearSlotIInv == ASSUME IInv, NEW t \in Tasks, ClearSlot(t) PROVE IInv'
<1> DEFINE k == SlotOf(task[t].op)
<1>1. /\ Has(ready, PopHandle(t)) /\ Done(t)
      /\ k \in Slots /\ (k \notin raced => inflight[k] = t)
  BY Consumes DEF ClearSlot, IInv, PopsDone, SlotOf, Slots
<1>2. /\ ready' \in Seq(Handle) /\ Distinct(ready')
      /\ \A h : Has(ready', h) <=> Has(ready, h) /\ h # PopHandle(t)
      /\ \A g, h : Before(ready, g, h) => Before(ready', g, h)
  BY Consumes DEF ClearSlot
<1>3. UNCHANGED <<task, caller, raced>>
  BY DEF ClearSlot
<1>4. inflight' = [inflight EXCEPT ![k] = NoTask]
  BY DEF ClearSlot, Popped
<1>5. /\ inflight' \in [Slots -> Tasks \cup {NoTask}] /\ inflight'[k] = NoTask
      /\ \A l \in Slots \ {k} : inflight'[l] = inflight[l]
  BY <1>1, <1>4 DEF IInv, TypeOK
<1> HIDE DEF k
<1>6. TypeOK'
  BY <1>2, <1>3, <1>5 DEF IInv, TypeOK, Done
<1>7. CallsCalling' /\ StepsScheduled' /\ WakesDone'
  BY <1>2, <1>3 DEF IInv, CallsCalling, StepsScheduled, WakesDone, Done
<1>8. PopsDone'
  <2> SUFFICES ASSUME NEW u \in Tasks, Has(ready', PopHandle(u))
               PROVE  /\ Done(u)
                      /\ SlotOf(task[u].op) \notin raced => inflight'[SlotOf(task[u].op)] = u
    BY <1>3 DEF PopsDone, Done
  <2>1. Has(ready, PopHandle(u)) /\ u # t
    BY <1>2
  <2>2. Done(u) /\ (SlotOf(task[u].op) \notin raced => inflight[SlotOf(task[u].op)] = u)
    BY <2>1 DEF IInv, PopsDone
  <2>3. SlotOf(task[u].op) \in Slots
    BY DEF SlotOf, Slots
  <2>4. QED
    BY <2>1, <2>2, <2>3, <1>1, <1>5
<1>9. JoinedAwait' /\ AwaitedBorn'
  BY <1>3 DEF IInv, JoinedAwait, AwaitedBorn, Live
<1>10. RegisteredBorn'
  <2> SUFFICES ASSUME NEW l \in Slots, inflight'[l] # NoTask
               PROVE  /\ task[inflight'[l]].phase # "unborn"
                      /\ SlotOf(task[inflight'[l]].op) = l
                      /\ Done(inflight'[l]) => Has(ready', PopHandle(inflight'[l]))
    BY <1>3 DEF RegisteredBorn, Done
  <2>1. l # k /\ inflight'[l] = inflight[l]
    BY <1>5
  <2>2. inflight[l] # t
    BY <2>1, <1>1 DEF IInv, RegisteredBorn, k
  <2>3. QED
    BY <2>1, <2>2, <1>2, HandleFacts DEF IInv, RegisteredBorn
<1>11. SingleFlightUnlessRaced'
  <2> SUFFICES ASSUME NEW u \in Tasks, Live(u), SlotOf(task[u].op) \notin raced
               PROVE  inflight'[SlotOf(task[u].op)] = u
    BY <1>3 DEF SingleFlightUnlessRaced, Live
  <2>1. inflight[SlotOf(task[u].op)] = u /\ SlotOf(task[u].op) \in Slots
    BY DEF IInv, SingleFlightUnlessRaced, SlotOf, Slots
  <2>2. SlotOf(task[u].op) # k
    BY <2>1, <1>1 DEF Live, Done
  <2>3. QED
    BY <2>1, <2>2, <1>5
<1>12. QED
  BY <1>2, <1>6, <1>7, <1>8, <1>9, <1>10, <1>11 DEF IInv

LEMMA WakeIInv == ASSUME IInv, NEW c \in Callers, Wake(c) PROVE IInv'
<1> DEFINE t == caller[c].on
<1>1. /\ Has(ready, WakeHandle(c)) /\ t \in Tasks /\ Done(t)
      /\ ~Has(ready, PopHandle(t))
  BY Consumes DEF Wake, IInv, WakesDone
<1>2. /\ ready' \in Seq(Handle) /\ Distinct(ready')
      /\ \A h : Has(ready', h) <=> Has(ready, h) /\ h # WakeHandle(c)
      /\ \A g, h : Before(ready, g, h) => Before(ready', g, h)
  BY Consumes DEF Wake
<1>3. /\ caller' = [caller EXCEPT ![c] = AtRest]
      /\ task' = IF \E d \in Callers \ {c} : caller[d].on = t
                 THEN task ELSE [task EXCEPT ![t] = Unborn]
      /\ UNCHANGED <<inflight, raced>>
  BY DEF Wake
<1> HIDE DEF t
<1>4. /\ caller' \in [Callers -> CallerState] /\ caller'[c] = AtRest
      /\ \A d \in Callers \ {c} : caller'[d] = caller[d]
  BY <1>3 DEF IInv, TypeOK, AtRest, CallerState
<1>5. /\ task' \in [Tasks -> TaskState]
      /\ \A u \in Tasks \ {t} : task'[u] = task[u]
      /\ task'[t] = Unborn \/ task'[t] = task[t]
  BY <1>1, <1>3 DEF IInv, TypeOK, Unborn, TaskState
<1>6. \A d \in Callers \ {c} : caller[d].on = t => task'[t] = task[t]
  BY <1>3
<1>7. \A u \in Tasks : Live(u)' <=> Live(u)
  BY <1>1, <1>5 DEF Live, Done, Unborn
<1>8. TypeOK'
  <2>1. \A d \in Callers : /\ caller'[d].phase = "awaiting" <=> caller'[d].on # NoTask
                           /\ caller'[d].phase = "idle" => caller'[d] = AtRest
    BY <1>4 DEF IInv, TypeOK, AtRest
  <2>2. \A u \in Tasks : Done(u)' <=> task'[u].out # "none"
    BY <1>5 DEF IInv, TypeOK, Done, Unborn
  <2>3. QED
    BY <1>2, <1>3, <1>4, <1>5, <2>1, <2>2 DEF IInv, TypeOK
<1>9. CallsCalling'
  <2>1. ~Has(ready, CallHandle(c))
    BY <1>1, CoalesceAssumption DEF IInv, CallsCalling, TypeOK, t
  <2>2. QED
    BY <2>1, <1>2, <1>4 DEF IInv, CallsCalling
<1>10. StepsScheduled'
  BY <1>1, <1>2, <1>5 DEF IInv, StepsScheduled, Done
<1>11. PopsDone'
  <2> SUFFICES ASSUME NEW u \in Tasks, Has(ready', PopHandle(u))
               PROVE  /\ Done(u)'
                      /\ SlotOf(task'[u].op) \notin raced => inflight[SlotOf(task'[u].op)] = u
    BY <1>3 DEF PopsDone
  <2>1. Has(ready, PopHandle(u)) /\ u # t /\ task'[u] = task[u]
    BY <1>1, <1>2, <1>5
  <2>2. QED
    BY <2>1 DEF IInv, PopsDone, Done
<1>12. WakesDone'
  <2> SUFFICES ASSUME NEW d \in Callers, Has(ready', WakeHandle(d))
               PROVE  /\ caller'[d].on \in Tasks /\ Done(caller[d].on)'
                      /\ Before(ready', PopHandle(caller'[d].on), WakeHandle(d))
    BY DEF WakesDone
  <2>1. Has(ready, WakeHandle(d)) /\ d # c /\ caller'[d] = caller[d]
    BY <1>2, <1>4
  <2>2. task'[caller[d].on] = task[caller[d].on]
    BY <2>1, <1>5, <1>6 DEF IInv, WakesDone
  <2>3. QED
    BY <2>1, <2>2, <1>2 DEF IInv, WakesDone, Done
<1>13. JoinedAwait'
  <2> SUFFICES ASSUME NEW u \in Tasks, Live(u)
               PROVE  /\ Distinct(task'[u].joined)
                      /\ \A d \in Callers : Has(task'[u].joined, d) => caller'[d].on = u
    BY <1>7 DEF JoinedAwait
  <2>1. u # t /\ task'[u] = task[u]
    BY <1>1, <1>5 DEF Live, Done
  <2>2. ~Has(task[u].joined, c)
    BY <2>1 DEF IInv, JoinedAwait, t
  <2>3. QED
    BY <2>1, <2>2, <1>4 DEF IInv, JoinedAwait
<1>14. AwaitedBorn'
  BY <1>4, <1>5, <1>6, CoalesceAssumption DEF IInv, AwaitedBorn, AtRest
<1>15. RegisteredBorn'
  <2> SUFFICES ASSUME NEW k \in Slots, inflight[k] # NoTask
               PROVE  /\ task'[inflight[k]].phase # "unborn"
                      /\ SlotOf(task'[inflight[k]].op) = k
                      /\ task'[inflight[k]].phase = "done"
                           => Has(ready', PopHandle(inflight[k]))
    BY <1>3 DEF RegisteredBorn, Done
  <2>1. inflight[k] \in Tasks /\ inflight[k] # t
    BY <1>1 DEF IInv, TypeOK, RegisteredBorn
  <2>2. QED
    BY <2>1, <1>2, <1>5, HandleFacts DEF IInv, RegisteredBorn, Done
<1>16. SingleFlightUnlessRaced'
  BY <1>1, <1>3, <1>5, <1>7 DEF IInv, SingleFlightUnlessRaced, Live, Done
<1>17. QED
  BY <1>2, <1>8, <1>9, <1>10, <1>11, <1>12, <1>13, <1>14, <1>15, <1>16 DEF IInv

LEMMA NextIInv == IInv /\ [Next]_vars => IInv'
<1> SUFFICES ASSUME IInv, [Next]_vars PROVE IInv'
  OBVIOUS
<1>1. CASE Next
  <2>1. CASE \E c \in Callers, op \in Ops : Arrive(c, op)
    BY <2>1, ArriveIInv
  <2>2. CASE \E c \in Callers : RunCall(c) \/ Wake(c) \/ Cancel(c)
    BY <2>2, JoinIInv, LaunchIInv, WakeIInv, CancelIInv DEF RunCall
  <2>3. CASE \E t \in Tasks : RunStep(t) \/ Resume(t) \/ ClearSlot(t)
    BY <2>3, SuspendIInv, FinishIInv, ResumeIInv, ClearSlotIInv DEF RunStep
  <2>4. QED
    BY <1>1, <2>1, <2>2, <2>3 DEF Next
<1>2. CASE UNCHANGED vars
  BY <1>2
  DEF vars, IInv, TypeOK, CallsCalling, StepsScheduled, PopsDone, WakesDone, JoinedAwait,
      AwaitedBorn, RegisteredBorn, SingleFlightUnlessRaced, Live, Done, Distinct, Has, Before
<1>3. QED
  BY <1>1, <1>2

LEMMA InvariantIInv == Spec => []IInv
BY InitIInv, NextIInv, PTL DEF Spec

-----------------------------------------------------------------------------
\* Types and record consistency of the session's operation slots, for any
\* number of callers and tasks.
THEOREM TypeCorrect == Spec => []TypeOK
<1>1. IInv => TypeOK
  BY DEF IInv
<1>2. QED
  BY <1>1, InvariantIInv, PTL

\* No slot is left holding a finished task, and but for the race the running task is the
\* registered one, in states of the right types: the invariant that the run checks.
THEOREM InvHolds == Spec => []Inv
<1>1. IInv => Inv
  BY DEF Inv, IInv, TypeOK, RegisteredBorn, NoWedgedSlot, Queued, Has
<1>2. QED
  BY <1>1, InvariantIInv, PTL

\* As long as no call has arrived between the last step of a slot's task and its
\* slot-clearing callback, the slot's one running task is the registered one:
\* _coalesce joins every later call to it and `busy` covers it.
THEOREM SingleFlightHolds == Spec => []SingleFlightUnlessRaced
<1>1. IInv => SingleFlightUnlessRaced
  BY DEF IInv
<1>2. QED
  BY <1>1, InvariantIInv, PTL

\* A slot that holds a finished task is about to be cleared: no sequence of
\* calls, cancellations and failures leaves a session busy for ever.
THEOREM NoWedgedSlotHolds == Spec => []NoWedgedSlot
<1>1. IInv => NoWedgedSlot
  BY DEF IInv, TypeOK, RegisteredBorn, NoWedgedSlot, Queued, Has
<1>2. QED
  BY <1>1, InvariantIInv, PTL

-----------------------------------------------------------------------------
(* The refinement of SharedCall                                            *)

\* What exists has an operation, and only a caller whose answer is there is cancelled
\* by itself.
Records ==
  /\ \A t \in Tasks : task[t].phase # "unborn" => task[t].op \in Ops
  /\ \A c \in Callers : caller[c].phase = "calling" => caller[c].op \in Ops
  /\ \A c \in Callers : caller[c].cancel => caller[c].phase = "awaiting" /\ Done(caller[c].on)

\* A step of the session is one of SharedCall or changes nothing that callers see.
Kept == raced' = {} => [Promise!Next]_(Promise!sharedVars)

LEMMA SlotFacts ==
  /\ \A op : SlotOf(op) \in Slots
  /\ "none" \notin Slots /\ "none" \notin Ops
BY DEF SlotOf, Slots, Ops

\* What is registered and not done is at work, under its own key.
LEMMA RegisteredFacts ==
  ASSUME IInv, Records, NEW k \in Slots, Registered(k)
  PROVE  /\ inflight[k] \in Tasks /\ Live(inflight[k])
         /\ task[inflight[k]].op \in Ops /\ SlotOf(task[inflight[k]].op) = k
<1>1. inflight[k] # NoTask /\ ~Done(inflight[k]) /\ inflight[k] \in Tasks
  BY DEF Registered, IInv, TypeOK
<1>2. task[inflight[k]].phase # "unborn" /\ SlotOf(task[inflight[k]].op) = k
  BY <1>1 DEF IInv, RegisteredBorn
<1>3. task[inflight[k]].phase \in {"unborn", "scheduled", "suspended", "done"}
  BY <1>1 DEF IInv, TypeOK, TaskState
<1>4. QED
  BY <1>1, <1>2, <1>3 DEF Live, Done, Records

\* A caller that awaits a task waits for its slot until the task is done, and is
\* answered from then on.
LEMMA SeenFacts ==
  ASSUME IInv, Records, NEW c \in Callers
  PROVE  /\ caller[c].phase # "awaiting" => Seen(c) = Promise!NoCall
         /\ caller[c].phase = "awaiting" =>
              /\ caller[c].on \in Tasks /\ task[caller[c].on].phase # "unborn"
              /\ Seen(c).key = SlotOf(task[caller[c].on].op)
              /\ ~Done(caller[c].on) => /\ Seen(c) = Promise!WaitsFor(SlotOf(task[caller[c].on].op))
                                        /\ Live(caller[c].on) /\ ~caller[c].cancel
              /\ Done(caller[c].on) => Seen(c).res # "none"
<1>1. caller[c].phase # "awaiting" => Seen(c) = Promise!NoCall
  BY DEF Seen, Promise!NoCall
<1> SUFFICES ASSUME caller[c].phase = "awaiting"
             PROVE  /\ caller[c].on \in Tasks /\ task[caller[c].on].phase # "unborn"
                    /\ Seen(c).key = SlotOf(task[caller[c].on].op)
                    /\ ~Done(caller[c].on) => /\ Seen(c) = Promise!WaitsFor(SlotOf(task[caller[c].on].op))
                                              /\ Live(caller[c].on) /\ ~caller[c].cancel
                    /\ Done(caller[c].on) => Seen(c).res # "none"
  BY <1>1
<1> DEFINE t == caller[c].on
<1>2. Seen(c) = [key |-> SlotOf(task[t].op), res |-> IF caller[c].cancel THEN "cancelled" ELSE task[t].out]
  BY DEF Seen
<1>3. t \in Tasks /\ task[t].phase # "unborn"
  BY CoalesceAssumption DEF IInv, TypeOK, CallerState, AwaitedBorn
<1>4. /\ task[t].phase \in {"scheduled", "suspended", "done"}
      /\ Done(t) <=> task[t].out # "none"
  BY <1>3 DEF IInv, TypeOK, TaskState
<1>5. caller[c].cancel \in BOOLEAN /\ (caller[c].cancel => Done(t))
  BY DEF IInv, TypeOK, CallerState, Records
<1>6. ~Done(t) => Seen(c) = Promise!WaitsFor(SlotOf(task[t].op)) /\ Live(t) /\ ~caller[c].cancel
  BY <1>2, <1>4, <1>5 DEF Promise!WaitsFor, Live, Done
<1>7. Done(t) => Seen(c).res # "none"
  BY <1>2, <1>4
<1>8. QED
  BY <1>2, <1>3, <1>6, <1>7

\* Nothing that callers see has changed.
LEMMA Unseen ==
  ASSUME \A k \in Slots : RunningIn(k)' = RunningIn(k) /\ DoomedIn(k)' = DoomedIn(k),
         \A c \in Callers : Seen(c)' = Seen(c)
  PROVE  Kept
<1>1. UNCHANGED <<RunningSeen, DoomedSeen, CallSeen>>
  BY DEF RunningSeen, DoomedSeen, CallSeen
<1>2. QED
  BY <1>1 DEF Kept, Promise!sharedVars

\* The slots look the same if they hold the same tasks and what shows of these is the same.
LEMMA SlotsUnseen ==
  ASSUME IInv, UNCHANGED inflight,
         \A u \in Tasks : (\E k \in Slots : inflight[k] = u) =>
           task'[u].op = task[u].op /\ task'[u].cancel = task[u].cancel /\ (Done(u)' <=> Done(u))
  PROVE  \A k \in Slots : RunningIn(k)' = RunningIn(k) /\ DoomedIn(k)' = DoomedIn(k)
<1> SUFFICES ASSUME NEW k \in Slots PROVE RunningIn(k)' = RunningIn(k) /\ DoomedIn(k)' = DoomedIn(k)
  OBVIOUS
<1>1. inflight[k] = NoTask \/ inflight[k] \in Tasks
  BY DEF IInv, TypeOK
<1>2. Registered(k)' <=> Registered(k)
  BY <1>1 DEF Registered, Done
<1>3. CASE Registered(k)
  <2>1. inflight[k] \in Tasks
    BY <1>1, <1>3 DEF Registered
  <2>2. QED
    BY <1>2, <1>3, <2>1 DEF RunningIn, DoomedIn
<1>4. CASE ~Registered(k)
  BY <1>2, <1>4 DEF RunningIn, DoomedIn
<1>5. QED
  BY <1>3, <1>4

\* One caller's call has changed.
LEMMA OneCallSeen ==
  ASSUME NEW c \in Callers, NEW v, Seen(c)' = v, \A d \in Callers \ {c} : Seen(d)' = Seen(d)
  PROVE  CallSeen' = [CallSeen EXCEPT ![c] = v] /\ CallSeen[c] = Seen(c)
BY DEF CallSeen

LEMMA InitPromise == Init => Records /\ Promise!Init
<1> SUFFICES ASSUME Init PROVE Records /\ Promise!Init
  OBVIOUS
<1>1. Records
  BY DEF Init, Records, Unborn, AtRest
<1>2. \A k \in Slots : RunningIn(k) = "none" /\ DoomedIn(k) = FALSE
  BY DEF Init, RunningIn, DoomedIn, Registered
<1>3. \A c \in Callers : Seen(c) = Promise!NoCall
  BY DEF Init, Seen, AtRest, Promise!NoCall
<1>4. QED
  BY <1>1, <1>2, <1>3 DEF Promise!Init, RunningSeen, DoomedSeen, CallSeen

LEMMA ArriveKept ==
  ASSUME IInv, Records, NEW c \in Callers, NEW op \in Ops, Arrive(c, op)
  PROVE  Records' /\ Kept
<1>1. /\ UNCHANGED <<inflight, task>> /\ caller[c].phase = "idle"
      /\ caller'[c].phase = "calling" /\ caller'[c].op = op
      /\ caller'[c].cancel = caller[c].cancel
      /\ \A d \in Callers \ {c} : caller'[d] = caller[d]
  BY DEF Arrive, IInv, TypeOK, CallerState
<1>2. Records'
  BY <1>1 DEF Records, Done
<1>3. \A d \in Callers : Seen(d)' = Seen(d)
  BY <1>1 DEF Seen
<1>4. \A k \in Slots : RunningIn(k)' = RunningIn(k) /\ DoomedIn(k)' = DoomedIn(k)
  BY <1>1 DEF RunningIn, DoomedIn, Registered, Done
<1>5. QED
  BY <1>2, <1>3, <1>4, Unseen

\* A call that finds a task at work shares it.
LEMMA JoinKept ==
  ASSUME IInv, Records, NEW c \in Callers, Join(c) PROVE Records' /\ Kept
<1> DEFINE op == caller[c].op
           k == SlotOf(op)
           t == inflight[k]
<1>1. caller[c].phase = "calling" /\ op \in Ops /\ ~caller[c].cancel
  BY Consumes DEF Join, IInv, CallsCalling, Records
<1>2. /\ k \in Slots /\ Registered(k) /\ t \in Tasks /\ Live(t) /\ ~Done(t)
      /\ task[t].op \in Ops /\ SlotOf(task[t].op) = k /\ task[t].out = "none"
  <2>1. k \in Slots /\ Registered(k)
    BY SlotFacts DEF Join
  <2>2. t \in Tasks /\ Live(t) /\ task[t].op \in Ops /\ SlotOf(task[t].op) = k
    BY <2>1, RegisteredFacts
  <2>3. QED
    BY <2>1, <2>2 DEF Registered, IInv, TypeOK
<1>3. /\ caller' = [caller EXCEPT ![c] = [@ EXCEPT !.phase = "awaiting", !.on = t]]
      /\ task' = [task EXCEPT ![t].joined = Append(@, c)]
      /\ UNCHANGED inflight
  BY DEF Join, Awaits
<1>4. \A u \in Tasks : /\ task'[u].phase = task[u].phase /\ task'[u].op = task[u].op
                       /\ task'[u].out = task[u].out /\ task'[u].cancel = task[u].cancel
  BY <1>2, <1>3 DEF IInv, TypeOK, TaskState
<1> HIDE DEF t
<1>5. /\ caller'[c].phase = "awaiting" /\ caller'[c].on = t /\ caller'[c].cancel = FALSE
      /\ \A d \in Callers \ {c} : caller'[d] = caller[d]
  BY <1>1, <1>3 DEF IInv, TypeOK, CallerState
<1>6. Records'
  BY <1>4, <1>5, SeenFacts DEF Records, Done
<1>7. \A d \in Callers \ {c} : Seen(d)' = Seen(d)
  BY <1>4, <1>5, SeenFacts DEF Seen
<1>8. Seen(c)' = Promise!WaitsFor(k) /\ Seen(c) = Promise!NoCall
  BY <1>1, <1>2, <1>4, <1>5, SeenFacts DEF Seen, Promise!WaitsFor
<1>9. CallSeen' = [CallSeen EXCEPT ![c] = Promise!WaitsFor(k)] /\ CallSeen[c] = Promise!NoCall
  BY <1>7, <1>8, OneCallSeen
<1>10. UNCHANGED <<RunningSeen, DoomedSeen>>
  <2>1. \A l \in Slots : RunningIn(l)' = RunningIn(l) /\ DoomedIn(l)' = DoomedIn(l)
    BY <1>3, <1>4, SlotsUnseen DEF Done
  <2>2. QED
    BY <2>1 DEF RunningSeen, DoomedSeen
<1>11. RunningSeen[k] # "none"
  BY <1>2, SlotFacts DEF RunningSeen, RunningIn, t
<1>12. Promise!Shares(c, op)
  BY <1>9, <1>10, <1>11 DEF Promise!Shares
<1>13. QED
  BY <1>1, <1>6, <1>12 DEF Kept, Promise!Next

\* A call that finds no task at work starts one, and unless a finished one is still
\* registered the slot is empty.
LEMMA LaunchKept ==
  ASSUME IInv, Records, NEW c \in Callers, NEW t \in Tasks, Launch(c, t)
  PROVE  Records' /\ Kept
<1> DEFINE op == caller[c].op
<1> PICK k \in Slots : k = SlotOf(op)
  BY SlotFacts
<1>1. caller[c].phase = "calling" /\ op \in Ops /\ ~caller[c].cancel
  <2>1. Has(ready, CallHandle(c))
    BY TailFacts DEF Launch, Runs, IInv, TypeOK
  <2>2. QED
    BY <2>1 DEF IInv, CallsCalling, Records
<1>2. /\ ~Registered(k) /\ task[t] = Unborn
      /\ caller' = [caller EXCEPT ![c] = [@ EXCEPT !.phase = "awaiting", !.on = t]]
      /\ task' = [task EXCEPT ![t] = [phase |-> "scheduled", op |-> op,
                                      cancel |-> FALSE, out |-> "none", joined |-> <<c>>]]
      /\ inflight' = [inflight EXCEPT ![k] = t]
      /\ raced' = IF Stale(k) THEN raced \cup {k} ELSE raced
  BY SlotFacts DEF Launch, Awaits
<1>3. /\ caller'[c].phase = "awaiting" /\ caller'[c].on = t /\ caller'[c].cancel = FALSE
      /\ \A d \in Callers \ {c} : caller'[d] = caller[d]
  BY <1>1, <1>2 DEF IInv, TypeOK, CallerState
<1>4. /\ task'[t].phase = "scheduled" /\ task'[t].op = op /\ task'[t].out = "none"
      /\ task'[t].cancel = FALSE
      /\ \A u \in Tasks \ {t} : task'[u] = task[u]
  BY <1>2 DEF IInv, TypeOK
<1>5. /\ inflight'[k] = t
      /\ \A l \in Slots \ {k} : inflight'[l] = inflight[l]
  BY <1>2 DEF IInv, TypeOK
<1>6. \A d \in Callers : caller[d].on # t
  BY <1>2 DEF IInv, AwaitedBorn, Unborn
<1>7. \A l \in Slots : inflight[l] # t
  BY <1>2, CoalesceAssumption DEF IInv, RegisteredBorn, Unborn
<1>8. Records'
  <2>1. \A d \in Callers \ {c} : caller[d].cancel => Done(caller[d].on)'
    BY <1>3, <1>4, <1>6, SeenFacts DEF Records, Done
  <2>2. QED
    BY <1>1, <1>3, <1>4, <2>1 DEF Records
<1>9. SUFFICES ASSUME raced' = {} PROVE Promise!Next
  BY <1>8 DEF Kept
<1>10. inflight[k] = NoTask
  BY <1>2, <1>9 DEF Stale, Registered
<1>11. Seen(c)' = Promise!WaitsFor(k) /\ Seen(c) = Promise!NoCall
  BY <1>1, <1>3, <1>4, SeenFacts DEF Seen, Promise!WaitsFor
<1>12. \A d \in Callers \ {c} : Seen(d)' = Seen(d)
  <2> SUFFICES ASSUME NEW d \in Callers \ {c} PROVE Seen(d)' = Seen(d)
    OBVIOUS
  <2>1. CASE caller[d].phase = "awaiting"
    <3>1. caller[d].on \in Tasks \ {t}
      BY <2>1, <1>6, SeenFacts
    <3>2. QED
      BY <3>1, <1>3, <1>4 DEF Seen
  <2>2. CASE caller[d].phase # "awaiting"
    BY <2>2, <1>3 DEF Seen
  <2>3. QED
    BY <2>1, <2>2
<1>13. CallSeen' = [CallSeen EXCEPT ![c] = Promise!WaitsFor(k)] /\ CallSeen[c] = Promise!NoCall
  BY <1>11, <1>12, OneCallSeen
<1>14. /\ RunningIn(k)' = op /\ ~DoomedIn(k)'
       /\ RunningIn(k) = "none" /\ ~DoomedIn(k)
  <2>1. Registered(k)'
    BY <1>2, <1>4, <1>5, CoalesceAssumption DEF Registered, Done
  <2>2. QED
    BY <2>1, <1>2, <1>4, <1>5 DEF RunningIn, DoomedIn
<1>15. \A l \in Slots \ {k} : RunningIn(l)' = RunningIn(l) /\ DoomedIn(l)' = DoomedIn(l)
  <2> SUFFICES ASSUME NEW l \in Slots \ {k} PROVE RunningIn(l)' = RunningIn(l) /\ DoomedIn(l)' = DoomedIn(l)
    OBVIOUS
  <2>1. inflight'[l] = inflight[l] /\ (inflight[l] = NoTask \/ inflight[l] \in Tasks \ {t})
    BY <1>5, <1>7 DEF IInv, TypeOK
  <2>2. CASE inflight[l] = NoTask
    BY <2>1, <2>2 DEF RunningIn, DoomedIn, Registered
  <2>3. CASE inflight[l] \in Tasks \ {t}
    BY <2>1, <2>3, <1>4 DEF RunningIn, DoomedIn, Registered, Done
  <2>4. QED
    BY <2>1, <2>2, <2>3
<1>16. RunningSeen' = [RunningSeen EXCEPT ![k] = op] /\ RunningSeen[k] = "none"
  BY <1>2, <1>14, <1>15 DEF RunningSeen
<1>17. DoomedSeen' = DoomedSeen
  <2>1. \A l \in Slots : DoomedIn(l)' = DoomedIn(l)
    BY <1>14, <1>15 DEF DoomedIn
  <2>2. QED
    BY <2>1 DEF DoomedSeen
<1>18. Promise!Starts(c, op)
  BY <1>13, <1>16, <1>17 DEF Promise!Starts
<1>19. QED
  BY <1>1, <1>18 DEF Promise!Next

\* Between its first and its last step, nothing shows of a task but its cancellation.
LEMMA StepKept ==
  ASSUME IInv, Records, NEW t \in Tasks, UNCHANGED <<inflight, caller>>,
         task[t].phase \notin {"unborn", "done"}, task'[t].phase \notin {"unborn", "done"},
         \A u \in Tasks : /\ task'[u].op = task[u].op /\ task'[u].out = task[u].out
                          /\ task'[u].cancel = task[u].cancel
                          /\ u # t => task'[u].phase = task[u].phase
  PROVE  Records' /\ Kept
<1>1. \A u \in Tasks : Done(u)' <=> Done(u)
  BY DEF Done
<1>2. Records'
  BY <1>1, SeenFacts DEF Records
<1>3. \A k \in Slots : RunningIn(k)' = RunningIn(k) /\ DoomedIn(k)' = DoomedIn(k)
  BY <1>1, SlotsUnseen
<1>4. \A c \in Callers : Seen(c)' = Seen(c)
  BY SeenFacts DEF Seen
<1>5. QED
  BY <1>2, <1>3, <1>4, Unseen

LEMMA SuspendKept == ASSUME IInv, Records, NEW t \in Tasks, Suspend(t) PROVE Records' /\ Kept
<1>1. task[t].phase = "scheduled"
  BY Consumes DEF Suspend, IInv, StepsScheduled
<1>2. /\ task'[t].phase = "suspended"
      /\ \A u \in Tasks : /\ task'[u].op = task[u].op /\ task'[u].out = task[u].out
                          /\ task'[u].cancel = task[u].cancel
                          /\ u # t => task'[u].phase = task[u].phase
  BY DEF Suspend, IInv, TypeOK, TaskState
<1>3. QED
  BY <1>1, <1>2, StepKept DEF Suspend

LEMMA ResumeKept == ASSUME IInv, Records, NEW t \in Tasks, Resume(t) PROVE Records' /\ Kept
<1>1. /\ task[t].phase = "suspended" /\ task'[t].phase = "scheduled"
      /\ \A u \in Tasks : /\ task'[u].op = task[u].op /\ task'[u].out = task[u].out
                          /\ task'[u].cancel = task[u].cancel
                          /\ u # t => task'[u].phase = task[u].phase
  BY DEF Resume, IInv, TypeOK, TaskState
<1>2. QED
  BY <1>1, StepKept DEF Resume

\* What is at work in a slot that no call has raced is what is registered there.
LEMMA AtWorkRegistered ==
  ASSUME IInv, Records, raced = {}, NEW t \in Tasks, Live(t), NEW k \in Slots, k = SlotOf(task[t].op)
  PROVE  /\ inflight[k] = t /\ Registered(k)
         /\ RunningIn(k) = task[t].op /\ (DoomedIn(k) <=> task[t].cancel)
         /\ \A l \in Slots \ {k} : inflight[l] # t
<1>1. inflight[k] = t
  BY DEF IInv, SingleFlightUnlessRaced
<1>2. Registered(k)
  BY <1>1, CoalesceAssumption DEF Registered, Live, Done
<1>3. \A l \in Slots \ {k} : inflight[l] # t
  BY CoalesceAssumption DEF IInv, RegisteredBorn
<1>4. QED
  BY <1>1, <1>2, <1>3 DEF RunningIn, DoomedIn

\* The end of a task is the end of its slot's operation, and the answer of all who wait
\* for that slot.
LEMMA FinishKept ==
  ASSUME IInv, Records, NEW t \in Tasks, NEW out \in {"ok", "error", "cancelled"}, Finish(t, out)
  PROVE  Records' /\ Kept
<1> PICK k \in Slots : k = SlotOf(task[t].op)
  BY SlotFacts
<1>1. task[t].phase = "scheduled" /\ Live(t) /\ ~Done(t) /\ task[t].op \in Ops
  <2>1. Has(ready, StepHandle(t))
    BY TailFacts DEF Finish, Runs, IInv, TypeOK
  <2>2. QED
    BY <2>1 DEF IInv, StepsScheduled, Live, Done, Records
<1>2. /\ UNCHANGED <<inflight, caller, raced>> /\ (out = "cancelled") = task[t].cancel
      /\ task' = [task EXCEPT ![t] = [@ EXCEPT !.phase = "done", !.out = out]]
  BY DEF Finish
<1>3. /\ task'[t].phase = "done" /\ task'[t].out = out
      /\ task'[t].op = task[t].op /\ task'[t].cancel = task[t].cancel
      /\ \A u \in Tasks \ {t} : task'[u] = task[u]
  BY <1>2 DEF IInv, TypeOK, TaskState
<1>4. Records'
  BY <1>1, <1>2, <1>3, SeenFacts DEF Records, Done
<1>5. SUFFICES ASSUME raced = {} PROVE Promise!Next
  BY <1>2, <1>4 DEF Kept
<1>6. /\ inflight[k] = t /\ Registered(k)
      /\ RunningIn(k) = task[t].op /\ (DoomedIn(k) <=> task[t].cancel)
      /\ \A l \in Slots \ {k} : inflight[l] # t
  BY <1>1, <1>5, AtWorkRegistered
<1>7. RunningIn(k)' = "none" /\ ~DoomedIn(k)'
  BY <1>2, <1>3, <1>6 DEF RunningIn, DoomedIn, Registered, Done
<1>8. \A l \in Slots \ {k} : RunningIn(l)' = RunningIn(l) /\ DoomedIn(l)' = DoomedIn(l)
  <2> SUFFICES ASSUME NEW l \in Slots \ {k} PROVE RunningIn(l)' = RunningIn(l) /\ DoomedIn(l)' = DoomedIn(l)
    OBVIOUS
  <2>1. inflight[l] = NoTask \/ inflight[l] \in Tasks \ {t}
    BY <1>6 DEF IInv, TypeOK
  <2>2. CASE inflight[l] = NoTask
    BY <1>2, <2>2 DEF RunningIn, DoomedIn, Registered
  <2>3. CASE inflight[l] \in Tasks \ {t}
    BY <1>2, <1>3, <2>3 DEF RunningIn, DoomedIn, Registered, Done
  <2>4. QED
    BY <2>1, <2>2, <2>3
<1>9. RunningSeen' = [RunningSeen EXCEPT ![k] = "none"] /\ RunningSeen[k] # "none"
  BY <1>1, <1>6, <1>7, <1>8, SlotFacts DEF RunningSeen
<1>10. DoomedSeen' = [DoomedSeen EXCEPT ![k] = FALSE] /\ (out = "cancelled") = DoomedSeen[k]
  <2>1. DoomedIn(k) \in BOOLEAN /\ DoomedIn(k)' = FALSE /\ (out = "cancelled") = DoomedIn(k)
    BY <1>2, <1>6, <1>7 DEF DoomedIn, IInv, TypeOK, TaskState
  <2>2. QED
    BY <2>1, <1>8 DEF DoomedSeen
<1>11. ASSUME NEW c \in Callers
       PROVE  Seen(c)' = IF Seen(c) = Promise!WaitsFor(k) THEN [key |-> k, res |-> out] ELSE Seen(c)
  <2>1. CASE caller[c].phase # "awaiting"
    <3>1. Seen(c) # Promise!WaitsFor(k)
      BY <2>1, SeenFacts, SlotFacts DEF Promise!NoCall, Promise!WaitsFor
    <3>2. QED
      BY <2>1, <3>1, <1>2 DEF Seen
  <2>2. CASE caller[c].phase = "awaiting" /\ caller[c].on = t
    <3>1. Seen(c) = Promise!WaitsFor(k) /\ caller[c].cancel = FALSE
      BY <2>2, <1>1, SeenFacts DEF IInv, TypeOK, CallerState
    <3>2. Seen(c)' = [key |-> k, res |-> out]
      BY <2>2, <3>1, <1>2, <1>3 DEF Seen
    <3>3. QED
      BY <3>1, <3>2
  <2>3. CASE caller[c].phase = "awaiting" /\ caller[c].on # t
    <3>1. caller[c].on \in Tasks \ {t}
      BY <2>3, SeenFacts
    <3>2. Seen(c)' = Seen(c)
      BY <3>1, <1>2, <1>3 DEF Seen
    <3>3. Seen(c) # Promise!WaitsFor(k)
      <4> SUFFICES ASSUME Seen(c) = Promise!WaitsFor(k) PROVE FALSE
        OBVIOUS
      <4>1. Seen(c).key = k /\ Seen(c).res = "none"
        BY DEF Promise!WaitsFor
      <4>2. Live(caller[c].on) /\ SlotOf(task[caller[c].on].op) = k
        BY <2>3, <4>1, SeenFacts
      <4>3. QED
        BY <3>1, <4>2, <1>5, <1>6, AtWorkRegistered
    <3>4. QED
      BY <3>2, <3>3
  <2>4. QED
    BY <2>1, <2>2, <2>3
<1>12. CallSeen' = [c \in Callers |-> IF CallSeen[c] = Promise!WaitsFor(k)
                                      THEN [key |-> k, res |-> out] ELSE CallSeen[c]]
  BY <1>11 DEF CallSeen
<1>13. Promise!Ends(k, out)
  BY <1>9, <1>10, <1>12 DEF Promise!Ends
<1>14. QED
  BY <1>13 DEF Promise!Next, Promise!Outcomes

\* The callback that clears the slot shows nothing: its task was done already.
LEMMA ClearSlotKept ==
  ASSUME IInv, Records, NEW t \in Tasks, ClearSlot(t) PROVE Records' /\ Kept
<1> PICK k \in Slots : k = SlotOf(task[t].op)
  BY SlotFacts
<1>1. /\ Done(t) /\ (k \notin raced => inflight[k] = t)
      /\ UNCHANGED <<task, caller, raced>> /\ inflight' = [inflight EXCEPT ![k] = NoTask]
  BY Consumes DEF ClearSlot, Popped, IInv, PopsDone
<1>2. Records'
  BY <1>1 DEF Records, Done
<1>3. SUFFICES ASSUME raced = {} PROVE Kept
  BY <1>1, <1>2 DEF Kept
<1>4. /\ inflight'[k] = NoTask /\ inflight[k] = t
      /\ \A l \in Slots \ {k} : inflight'[l] = inflight[l]
  BY <1>1, <1>3 DEF IInv, TypeOK
<1>5. ~Registered(k) /\ ~Registered(k)'
  BY <1>1, <1>4 DEF Registered
<1>6. \A l \in Slots : RunningIn(l)' = RunningIn(l) /\ DoomedIn(l)' = DoomedIn(l)
  <2> SUFFICES ASSUME NEW l \in Slots PROVE RunningIn(l)' = RunningIn(l) /\ DoomedIn(l)' = DoomedIn(l)
    OBVIOUS
  <2>1. CASE l = k
    BY <2>1, <1>5 DEF RunningIn, DoomedIn
  <2>2. CASE l # k
    BY <2>2, <1>1, <1>4 DEF RunningIn, DoomedIn, Registered, Done
  <2>3. QED
    BY <2>1, <2>2
<1>7. \A c \in Callers : Seen(c)' = Seen(c)
  BY <1>1 DEF Seen
<1>8. QED
  BY <1>6, <1>7, Unseen

\* A caller that resumes returns with its answer.
LEMMA WakeKept == ASSUME IInv, Records, NEW c \in Callers, Wake(c) PROVE Records' /\ Kept
<1> PICK t : t = caller[c].on
  OBVIOUS
<1>1. /\ Has(ready, WakeHandle(c)) /\ t \in Tasks /\ Done(t)
      /\ ~Has(ready, PopHandle(t)) /\ caller[c].phase = "awaiting"
  BY Consumes, CoalesceAssumption DEF Wake, IInv, WakesDone, TypeOK
<1>2. /\ caller' = [caller EXCEPT ![c] = AtRest]
      /\ task' = IF \E d \in Callers \ {c} : caller[d].on = t
                 THEN task ELSE [task EXCEPT ![t] = Unborn]
      /\ UNCHANGED <<inflight, raced>>
  BY DEF Wake
<1>3. /\ caller'[c] = AtRest /\ \A d \in Callers \ {c} : caller'[d] = caller[d]
  BY <1>2 DEF IInv, TypeOK
<1>4. /\ \A u \in Tasks \ {t} : task'[u] = task[u]
      /\ task'[t] = Unborn \/ task'[t] = task[t]
      /\ \A d \in Callers \ {c} : caller[d].on \in Tasks => task'[caller[d].on] = task[caller[d].on]
  BY <1>1, <1>2 DEF IInv, TypeOK
<1>5. Records'
  <2>1. \A u \in Tasks : task'[u].phase # "unborn" => task'[u].op \in Ops
    BY <1>4 DEF Records, Unborn
  <2>2. \A d \in Callers : caller'[d].phase = "calling" => caller'[d].op \in Ops
    BY <1>3 DEF Records, AtRest
  <2>3. \A d \in Callers : caller'[d].cancel => caller'[d].phase = "awaiting" /\ Done(caller[d].on)'
    BY <1>3, <1>4, SeenFacts DEF Records, AtRest, Done
  <2>4. QED
    BY <2>1, <2>2, <2>3 DEF Records
<1>6. \A k \in Slots : inflight[k] # t
  BY <1>1, CoalesceAssumption DEF IInv, RegisteredBorn
<1>7. UNCHANGED <<RunningSeen, DoomedSeen>>
  <2>1. \A k \in Slots : RunningIn(k)' = RunningIn(k) /\ DoomedIn(k)' = DoomedIn(k)
    BY <1>2, <1>4, <1>6, SlotsUnseen DEF Done
  <2>2. QED
    BY <2>1 DEF RunningSeen, DoomedSeen
<1>8. Seen(c)' = Promise!NoCall /\ Seen(c).res # "none"
  <2>1. caller'[c].phase # "awaiting"
    BY <1>3 DEF AtRest
  <2>2. Seen(c)' = Promise!NoCall
    BY <2>1 DEF Seen, Promise!NoCall
  <2>3. Seen(c).res # "none"
    BY <1>1, SeenFacts
  <2>4. QED
    BY <2>2, <2>3
<1>9. \A d \in Callers \ {c} : Seen(d)' = Seen(d)
  BY <1>3, <1>4, SeenFacts DEF Seen
<1>10. CallSeen' = [CallSeen EXCEPT ![c] = Promise!NoCall] /\ CallSeen[c].res # "none"
  BY <1>8, <1>9, OneCallSeen
<1>11. Promise!Returns(c)
  BY <1>7, <1>10 DEF Promise!Returns
<1>12. QED
  BY <1>5, <1>11 DEF Kept, Promise!Next

\* Cancelling a caller cancels what it waits for, or else its own answer.
LEMMA CancelKept == ASSUME IInv, Records, NEW c \in Callers, Cancel(c) PROVE Records' /\ Kept
<1> PICK t : t = caller[c].on
  OBVIOUS
<1> PICK k \in Slots : k = SlotOf(task[t].op)
  BY SlotFacts
<1>1. t \in Tasks /\ task[t].phase # "unborn" /\ caller[c].phase = "awaiting"
  BY SeenFacts DEF Cancel
<1>2. CASE Done(t)
  <2>1. /\ caller' = [caller EXCEPT ![c].cancel = TRUE]
        /\ UNCHANGED <<inflight, task, raced>>
    BY <1>2 DEF Cancel
  <2>2. /\ caller'[c].cancel = TRUE /\ caller'[c].phase = "awaiting" /\ caller'[c].on = t
        /\ \A d \in Callers \ {c} : caller'[d] = caller[d]
    BY <1>1, <2>1 DEF IInv, TypeOK, CallerState
  <2>3. Records'
    BY <1>2, <2>1, <2>2 DEF Records, Done
  <2>4. UNCHANGED <<RunningSeen, DoomedSeen>>
    BY <2>1 DEF RunningSeen, DoomedSeen, RunningIn, DoomedIn, Registered, Done
  <2>5. \A d \in Callers \ {c} : Seen(d)' = Seen(d)
    BY <2>1, <2>2 DEF Seen
  <2>6. Seen(c)' = [Seen(c) EXCEPT !.res = "cancelled"] /\ Seen(c).res # "none"
    BY <1>1, <1>2, <2>1, <2>2, SeenFacts DEF Seen
  <2>7. /\ CallSeen' = [CallSeen EXCEPT ![c] = [Seen(c) EXCEPT !.res = "cancelled"]]
        /\ CallSeen[c] = Seen(c)
    BY <2>5, <2>6, OneCallSeen
  <2>8. Promise!CancelledLate(c)
    BY <2>4, <2>6, <2>7 DEF Promise!CancelledLate
  <2>9. QED
    BY <2>3, <2>8 DEF Kept, Promise!Next
<1>3. CASE ~Done(t)
  <2>1. /\ task' = [task EXCEPT ![t] = [@ EXCEPT !.phase = "scheduled", !.cancel = TRUE]]
        /\ UNCHANGED <<inflight, caller, raced>>
    BY <1>3 DEF Cancel
  <2>2. /\ task'[t].phase = "scheduled" /\ task'[t].cancel = TRUE
        /\ task'[t].op = task[t].op /\ task'[t].out = task[t].out
        /\ \A u \in Tasks \ {t} : task'[u] = task[u]
    BY <1>1, <2>1 DEF IInv, TypeOK, TaskState
  <2>3. \A u \in Tasks : Done(u)' <=> Done(u)
    BY <1>3, <2>2 DEF Done
  <2>4. Records'
    BY <1>1, <2>1, <2>2, <2>3, SeenFacts DEF Records
  <2>5. CallSeen' = CallSeen
    <3>1. \A d \in Callers : Seen(d)' = Seen(d)
      BY <2>1, <2>2, SeenFacts DEF Seen
    <3>2. QED
      BY <3>1 DEF CallSeen
  <2>6. SUFFICES ASSUME raced = {} PROVE Promise!Next
    BY <2>1, <2>4 DEF Kept
  <2>7. Live(t) /\ Seen(c) = Promise!WaitsFor(k)
    BY <1>1, <1>3, SeenFacts
  <2>8. /\ inflight[k] = t /\ Registered(k) /\ \A l \in Slots \ {k} : inflight[l] # t
    BY <1>1, <2>6, <2>7, AtWorkRegistered
  <2>9. \A l \in Slots : Registered(l)' <=> Registered(l)
    BY <2>1, <2>3 DEF Registered, IInv, TypeOK
  <2>10. RunningSeen' = RunningSeen
    <3>1. \A l \in Slots : RunningIn(l)' = RunningIn(l)
      BY <2>1, <2>2, <2>9 DEF RunningIn, Registered, IInv, TypeOK
    <3>2. QED
      BY <3>1 DEF RunningSeen
  <2>11. DoomedSeen' = [DoomedSeen EXCEPT ![k] = TRUE]
    <3>1. DoomedIn(k)' = TRUE
      BY <2>1, <2>2, <2>8, <2>9 DEF DoomedIn
    <3>2. \A l \in Slots \ {k} : DoomedIn(l)' = DoomedIn(l)
      BY <2>1, <2>2, <2>8, <2>9 DEF DoomedIn, Registered, IInv, TypeOK
    <3>3. QED
      BY <3>1, <3>2 DEF DoomedSeen
  <2>12. Promise!Dooms(c, k)
    BY <2>5, <2>7, <2>10, <2>11 DEF Promise!Dooms, CallSeen
  <2>13. QED
    BY <2>12 DEF Promise!Next
<1>4. QED
  BY <1>2, <1>3

LEMMA NextKept == IInv /\ Records /\ [Next]_vars => Records' /\ Kept
<1> SUFFICES ASSUME IInv, Records, [Next]_vars PROVE Records' /\ Kept
  OBVIOUS
<1>1. CASE Next
  <2>1. CASE \E c \in Callers, op \in Ops : Arrive(c, op)
    BY <2>1, ArriveKept
  <2>2. CASE \E c \in Callers : RunCall(c) \/ Wake(c) \/ Cancel(c)
    BY <2>2, JoinKept, LaunchKept, WakeKept, CancelKept DEF RunCall
  <2>3. CASE \E t \in Tasks : RunStep(t) \/ Resume(t) \/ ClearSlot(t)
    BY <2>3, SuspendKept, FinishKept, ResumeKept, ClearSlotKept DEF RunStep
  <2>4. QED
    BY <1>1, <2>1, <2>2, <2>3 DEF Next
<1>2. CASE UNCHANGED vars
  <2>1. Records'
    BY <1>2 DEF vars, Records, Done
  <2>2. \A k \in Slots : RunningIn(k)' = RunningIn(k) /\ DoomedIn(k)' = DoomedIn(k)
    BY <1>2 DEF vars, RunningIn, DoomedIn, Registered, Done
  <2>3. \A c \in Callers : Seen(c)' = Seen(c)
    BY <1>2 DEF vars, Seen
  <2>4. QED
    BY <2>1, <2>2, <2>3, Unseen
<1>3. QED
  BY <1>1, <1>2

\* _coalesce implements SharedCall for any callers and tasks, as long as no call comes
\* between a task's last step and its callback: each slot runs one operation, all who
\* call meanwhile get its one outcome at once, and it is cancelled only with one of them.
THEOREM CoalesceKeepsPromise == Spec => KeepsPromise
<1>1. Init => Records /\ Promise!Init
  BY InitPromise
<1>2. IInv /\ Records /\ [Next]_vars => Records' /\ (raced' = {} => [Promise!Next]_(Promise!sharedVars))
  BY NextKept DEF Kept
<1>3. QED
  BY <1>1, <1>2, InvariantIInv, PTL DEF Spec, KeepsPromise
=============================================================================
