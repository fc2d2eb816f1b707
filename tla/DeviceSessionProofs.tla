------------------------- MODULE DeviceSessionProofs -------------------------
(***************************************************************************)
(* Proofs about DeviceSession, for any clients, numbers of attempts and    *)
(* polls, policies and groups of features.                                 *)
(*                                                                         *)
(* Almost every step leaves the lock and the current client alone, closes  *)
(* sockets at most, and moves no coroutine into, inside or out of          *)
(* connect(): such a step is Quieter, and one lemma (Steady) shows that it *)
(* keeps the invariant.  What is left are the steps of connect() itself.   *)
(***************************************************************************)
EXTENDS DeviceSession, TLAPS

-----------------------------------------------------------------------------
(* Queues of distinct elements, by membership                              *)

Has(s, h) == \E i \in 1..Len(s) : s[i] = h

Distinct(s) == \A i, j \in 1..Len(s) : s[i] = s[j] => i = j

\* Appending x to a queue of distinct elements that does not hold it.
LEMMA AppendFacts ==
  ASSUME NEW S, NEW s \in Seq(S), NEW x \in S, Distinct(s), ~Has(s, x)
  PROVE  /\ Append(s, x) \in Seq(S)
         /\ Distinct(Append(s, x))
         /\ \A h : Has(Append(s, x), h) <=> Has(s, h) \/ h = x
         /\ Append(s, x) # <<>>
         /\ Head(Append(s, x)) = IF s = <<>> THEN x ELSE Head(s)
<1> DEFINE r == Append(s, x)
<1>1. /\ r \in Seq(S) /\ Len(r) = Len(s) + 1 /\ Len(s) \in Nat
      /\ \A i \in 1..Len(s) : r[i] = s[i]
      /\ r[Len(s) + 1] = x
  OBVIOUS
<1> HIDE DEF r
<1>2. \A i \in 1..Len(r) : i \in 1..Len(s) \/ i = Len(s) + 1
  BY <1>1
<1>3. Distinct(r)
  BY <1>1, <1>2 DEF Distinct, Has
<1>4. ASSUME NEW h PROVE Has(r, h) <=> Has(s, h) \/ h = x
  BY <1>1, <1>2 DEF Has
<1>5. r # <<>> /\ Head(r) = IF s = <<>> THEN x ELSE Head(s)
  BY <1>1
<1>6. QED
  BY <1>1, <1>3, <1>4, <1>5 DEF r

\* Consuming the head of a queue of distinct elements.
LEMMA TailFacts ==
  ASSUME NEW S, NEW s \in Seq(S), s # <<>>, Distinct(s)
  PROVE  /\ Tail(s) \in Seq(S)
         /\ Distinct(Tail(s))
         /\ Has(s, Head(s))
         /\ \A h : Has(Tail(s), h) <=> Has(s, h) /\ h # Head(s)
<1> DEFINE r == Tail(s)
<1>1. /\ r \in Seq(S) /\ Len(r) = Len(s) - 1 /\ Len(s) \in Nat \ {0}
      /\ \A i \in 1..Len(r) : r[i] = s[i + 1]
      /\ Head(s) = s[1]
  OBVIOUS
<1> HIDE DEF r
<1>2. \A i \in 1..Len(s) : i = 1 \/ (i - 1 \in 1..Len(r) /\ r[i - 1] = s[i])
  BY <1>1
<1>3. \A i \in 1..Len(r) : i + 1 \in 1..Len(s)
  BY <1>1
<1>4. Distinct(r)
  BY <1>1, <1>3 DEF Distinct
<1>5. Has(s, Head(s))
  BY <1>1 DEF Has
<1>6. ASSUME NEW h PROVE Has(r, h) <=> Has(s, h) /\ h # Head(s)
  <2>1. ASSUME Has(r, h) PROVE Has(s, h) /\ h # Head(s)
    <3>1. PICK i \in 1..Len(r) : r[i] = h
      BY <2>1 DEF Has
    <3>2. i + 1 \in 1..Len(s) /\ s[i + 1] = h /\ i + 1 # 1 /\ 1 \in 1..Len(s)
      BY <3>1, <1>1, <1>3
    <3>3. QED
      BY <3>2, <1>1 DEF Has, Distinct
  <2>2. ASSUME Has(s, h), h # Head(s) PROVE Has(r, h)
    BY <2>2, <1>1, <1>2 DEF Has
  <2>3. QED
    BY <2>1, <2>2
<1>7. QED
  BY <1>1, <1>4, <1>5, <1>6 DEF r

\* Leaving a queue of distinct elements from the k-th place.
LEMMA RemoveFacts ==
  ASSUME NEW S, NEW s \in Seq(S), Distinct(s), NEW k \in 1..Len(s)
  PROVE  LET r == [i \in 1..(Len(s) - 1) |-> IF i < k THEN s[i] ELSE s[i + 1]]
         IN  /\ r \in Seq(S)
             /\ Distinct(r)
             /\ \A h : Has(r, h) <=> Has(s, h) /\ h # s[k]
             /\ k # 1 => r # <<>> /\ Head(r) = Head(s)
<1> DEFINE n == Len(s)
           r == [i \in 1..(n - 1) |-> IF i < k THEN s[i] ELSE s[i + 1]]
<1>1. n \in Nat \ {0} /\ k \in 1..n /\ \A i \in 1..n : s[i] \in S
  OBVIOUS
<1>2. /\ \A i, j \in 1..n : s[i] = s[j] => i = j
      /\ \A h : Has(s, h) <=> \E i \in 1..n : s[i] = h
  BY DEF Distinct, Has
<1>3. Head(s) = s[1]
  BY <1>1
<1> HIDE DEF n
<1>4. r \in Seq(S) /\ Len(r) = n - 1
  BY <1>1
<1>5. \A i \in 1..(n - 1) : r[i] = IF i < k THEN s[i] ELSE s[i + 1]
  OBVIOUS
<1> HIDE DEF r
<1>6. Distinct(r)
  BY <1>1, <1>2, <1>4, <1>5 DEF Distinct
<1>7. ASSUME NEW h PROVE Has(r, h) <=> Has(s, h) /\ h # s[k]
  <2>1. ASSUME NEW i \in 1..(n - 1), r[i] = h
        PROVE  \E j \in 1..n : j # k /\ s[j] = h
    BY <2>1, <1>1, <1>5
  <2>2. ASSUME NEW j \in 1..n, j # k, s[j] = h PROVE \E i \in 1..(n - 1) : r[i] = h
    <3>1. CASE j < k
      <4>1. j \in 1..(n - 1) /\ r[j] = h
        BY <2>2, <3>1, <1>1, <1>5
      <4>2. QED
        BY <4>1
    <3>2. CASE j > k
      <4>1. j - 1 \in 1..(n - 1) /\ r[j - 1] = h
        BY <2>2, <3>2, <1>1, <1>5
      <4>2. QED
        BY <4>1
    <3>3. QED
      BY <2>2, <3>1, <3>2, <1>1
  <2>3. QED
    BY <2>1, <2>2, <1>1, <1>2, <1>4 DEF Has
<1>8. k # 1 => r # <<>> /\ Head(r) = Head(s)
  BY <1>1, <1>3, <1>4, <1>5
<1>9. QED
  BY <1>4, <1>6, <1>7, <1>8 DEF r, n

-----------------------------------------------------------------------------
(* The inductive invariant                                                 *)

\* The awaits at which a coroutine has no request out.
Silent == InConnect \cup {"idle", "pollWait", "sleep", "start", "throwaway"}

\* The attempts and the polls that are left.
Counted(p, r) ==
  /\ r.at \in {"idle", "lock", "getState", "toggle"} => r.n = 0
  /\ r.at \in {"dial", "register"} => r.n <= attempts(p)
  /\ r.at = "backoff" => r.n < attempts(p)
  /\ r.at = "pollWait" => r.n < Polls

ProcOK(p, r) ==
  /\ r \in ProcState
  /\ r.at \in Silent => r.req = "none"
  /\ r.req # "none" \/ r.at = "pollWait" => r.cl \in Clients
  /\ Counted(p, r)

\* LockProtectsConnect in terms of membership.
Queue ==
  /\ Distinct(lock)
  /\ \A p \in Procs : proc[p].at \in InConnect <=> Has(lock, p)
  /\ \A p \in Procs : proc[p].at \in {"dial", "register", "backoff"} => Holds(p)
  /\ \A p \in Procs : proc[p].at \in {"dial", "register"} => proc[p].cl = cur

\* Between two attempts, and while one dials, the session has no socket at all;
\* until it has registered nobody can use it.
Dialling ==
  \A p \in Procs : /\ proc[p].at \in {"dial", "backoff"} => ~connected(cur)
                   /\ proc[p].at = "register" => ws[cur] # "open"

Registering == ws[cur] = "registering" => \E p \in Procs : proc[p].at = "register"

\* p has a request out that only an open socket can carry.
OnTheWire(p, r) == r.req = "handled" \/ (r.req = "sent" /\ p \in Connecting)

Asked == \A p \in Procs : OnTheWire(p, proc[p]) => ws[proc[p].cl] = "open"

\* A request that has failed had its socket closed, and nobody opens it again:
\* a client that dials is one nobody else uses.
Broken == \A p \in Procs : proc[p].req = "broken" => ws[proc[p].cl] = "none"

\* The client that power_on polls has registered.
Polling == \A p \in Procs : proc[p].at = "pollWait" => ws[proc[p].cl] # "registering"

Alone == \A p, q \in Procs : proc[p].at = "dial" /\ q # p => proc[q].cl # cur

IInv ==
  /\ TypeOK /\ \A p \in Procs : ProcOK(p, proc[p])
  /\ OneSocket /\ Queue /\ Dialling /\ Registering
  /\ Asked /\ Broken /\ Polling /\ Alone

LEMMA QueueIsLock == Queue <=> LockProtectsConnect
BY DEF Queue, LockProtectsConnect, Distinct, Has

-----------------------------------------------------------------------------
(* Records                                                                 *)

LEMMA IdleOK == ASSUME NEW p \in Procs
                PROVE  Idle \in ProcState /\ ProcOK(p, Idle) /\ Idle.at = "idle"
                       /\ Idle.req = "none" /\ Idle.n = 0 /\ Idle.cl = NoClient
BY SessionAssumption DEF Idle, ProcState, ProcOK, Counted, Awaits, Silent, InConnect

LEMMA AttemptsBound == ASSUME NEW p \in Procs
                       PROVE  attempts(p) \in Nat /\ attempts(p) <= Attempts
BY SessionAssumption DEF attempts

\* What the reader's exit does to the coroutines.
LEMMA LostFacts ==
  ASSUME NEW f \in [Procs -> ProcState], NEW S, NEW p \in Procs
  PROVE  LET r == Lost(f, S)[p]
         IN  /\ Lost(f, S) \in [Procs -> ProcState]
             /\ r.at = f[p].at /\ r.op = f[p].op /\ r.cl = f[p].cl
             /\ r.n = f[p].n /\ r.seen = f[p].seen
             /\ \/ r.req = f[p].req
                \/ r.req = "broken" /\ f[p].req \in {"sent", "handled"} /\ f[p].cl \in S
             /\ f[p].cl \in S /\ ws[f[p].cl] = "open" => r.req \notin {"sent", "handled"}
             /\ ProcOK(p, f[p]) => ProcOK(p, r)
<1> DEFINE r == Lost(f, S)[p]
           g(q) == [f[q] EXCEPT !.req = "broken"]
<1>1. \A q \in Procs : /\ g(q) \in ProcState /\ g(q).at = f[q].at /\ g(q).op = f[q].op
                       /\ g(q).cl = f[q].cl /\ g(q).n = f[q].n /\ g(q).seen = f[q].seen
                       /\ g(q).req = "broken"
  BY DEF ProcState
<1> HIDE DEF g
<1>2. Lost(f, S) = [q \in Procs |-> IF f[q].cl \in S /\ ws[f[q].cl] = "open"
                                       /\ f[q].req \in {"sent", "handled"}
                                    THEN g(q) ELSE f[q]]
  BY DEF Lost, g
<1>3. Lost(f, S) \in [Procs -> ProcState]
  BY <1>1, <1>2
<1>4. \/ r = g(p) /\ f[p].req \in {"sent", "handled"} /\ f[p].cl \in S
      \/ r = f[p] /\ ~(f[p].cl \in S /\ ws[f[p].cl] = "open"
                         /\ f[p].req \in {"sent", "handled"})
  BY <1>2
<1> HIDE DEF r
<1>5. CASE r = g(p) /\ f[p].req \in {"sent", "handled"} /\ f[p].cl \in S
  <2>1. ProcOK(p, f[p]) => ProcOK(p, r)
    BY <1>1, <1>5 DEF ProcOK, Counted
  <2>2. QED
    BY <1>1, <1>3, <1>5, <2>1 DEF r
<1>6. CASE r = f[p] /\ ~(f[p].cl \in S /\ ws[f[p].cl] = "open"
                           /\ f[p].req \in {"sent", "handled"})
  BY <1>3, <1>6 DEF r
<1>7. QED
  BY <1>4, <1>5, <1>6

\* The record of a coroutine that goes on to a request.
LEMMA AsksFacts ==
  ASSUME NEW p \in Procs, proc[p] \in ProcState, NEW c \in Clients, NEW ask \in Awaits \ Silent
  PROVE  LET r == Asks(p, c, ask)
         IN  /\ r \in ProcState /\ r.at = ask /\ r.cl = c /\ r.n = proc[p].n
             /\ r.op = proc[p].op /\ r.req = IF connected(c) THEN "sent" ELSE "broken"
             /\ ask \notin {"getState", "toggle"} \/ proc[p].n = 0 => ProcOK(p, r)
<1> DEFINE r == Asks(p, c, ask)
<1>1. r = [proc[p] EXCEPT !.at = ask, !.cl = c,
                          !.req = IF connected(c) THEN "sent" ELSE "broken", !.seen = "none"]
  BY DEF Asks
<1>2. /\ r \in ProcState /\ r.at = ask /\ r.cl = c /\ r.n = proc[p].n
      /\ r.op = proc[p].op /\ r.req = IF connected(c) THEN "sent" ELSE "broken"
  BY <1>1 DEF ProcState
<1> HIDE DEF r
<1>3. ask \notin {"getState", "toggle"} \/ proc[p].n = 0 => ProcOK(p, r)
  BY <1>2 DEF ProcOK, Counted, Silent, InConnect
<1>4. QED
  BY <1>2, <1>3 DEF r

-----------------------------------------------------------------------------
(* Steps that leave connect() alone                                        *)

\* Seen from here, the coroutines f and the sockets w differ in nothing that
\* concerns connect(), but for sockets that have been closed.
Quieter(f, w) ==
  /\ f \in [Procs -> ProcState] /\ \A p \in Procs : ProcOK(p, f[p])
  /\ \A p \in Procs : f[p].at \in InConnect \/ proc[p].at \in InConnect =>
                        f[p].at = proc[p].at /\ f[p].cl = proc[p].cl
  /\ w \in [Clients -> {"none", "registering", "open"}]
  /\ \A c \in Clients : w[c] = ws[c] \/ w[c] = "none"
  /\ \A p \in Procs : /\ OnTheWire(p, f[p]) => w[f[p].cl] = "open"
                      /\ f[p].req = "broken" => w[f[p].cl] = "none"
                      /\ f[p].at = "pollWait" => w[f[p].cl] # "registering"
                      /\ f[p].cl = cur => proc[p].cl = cur \/ connected(cur)

Outside == /\ users' = users /\ mode' \in Modes /\ magic' \in BOOLEAN
           /\ tv' \in PowerStates \cup {"Off"}

LEMMA Steady ==
  ASSUME IInv, Quieter(proc', ws'), cur' = cur, lock' = lock, Outside
  PROVE  IInv'
<1>1. TypeOK' /\ (\A p \in Procs : ProcOK(p, proc[p]))'
  BY DEF IInv, TypeOK, Quieter, Outside
<1>2. \A p \in Procs : /\ proc'[p].at \in InConnect <=> proc[p].at \in InConnect
                       /\ proc'[p].at \in InConnect =>
                            proc'[p].at = proc[p].at /\ proc'[p].cl = proc[p].cl
  BY DEF Quieter
<1>3. \A c \in Clients : ws'[c] # "none" => ws'[c] = ws[c]
  BY DEF Quieter
<1>4. OneSocket'
  BY <1>3 DEF IInv, OneSocket, connected
<1>5. Queue'
  BY <1>2 DEF IInv, Queue, Holds, InConnect
<1>6. Dialling'
  BY <1>2, <1>3 DEF IInv, TypeOK, Dialling, connected, InConnect
<1>7. Registering'
  <2>1. ASSUME NEW p \in Procs, proc[p].at = "register" PROVE proc'[p].at = "register"
    BY <2>1, <1>2 DEF InConnect
  <2>2. QED
    BY <2>1, <1>3 DEF IInv, TypeOK, Registering
<1>8. Asked' /\ Broken' /\ Polling'
  BY DEF Quieter, Asked, Broken, Polling
<1>9. Alone'
  BY <1>2 DEF IInv, TypeOK, Alone, Dialling, Quieter, InConnect
<1>10. QED
  BY <1>1, <1>4, <1>5, <1>6, <1>7, <1>8, <1>9 DEF IInv

\* As long as only proc[p] changes, outside connect().
LEMMA QuietOne ==
  ASSUME IInv, NEW p \in Procs, NEW r \in ProcState, ProcOK(p, r),
         proc[p].at \notin InConnect, r.at \notin InConnect,
         OnTheWire(p, r) => ws[r.cl] = "open",
         r.req = "broken" => ws[r.cl] = "none",
         r.at = "pollWait" => ws[r.cl] # "registering",
         r.cl \in {proc[p].cl, NoClient} \/ (r.cl = cur /\ connected(cur))
  PROVE  Quieter([proc EXCEPT ![p] = r], ws)
<1> DEFINE f == [proc EXCEPT ![p] = r]
<1>1. /\ f \in [Procs -> ProcState] /\ f[p] = r
      /\ \A q \in Procs : q # p => f[q] = proc[q]
  BY DEF IInv, TypeOK
<1> HIDE DEF f
<1>2. NoClient # cur
  BY SessionAssumption DEF IInv, TypeOK
<1>3. QED
  BY <1>1, <1>2 DEF IInv, TypeOK, Asked, Broken, Polling, Quieter, f

LEMMA QuietWithout ==
  ASSUME IInv, NEW p \in Procs, proc[p].at \notin InConnect
  PROVE  Quieter(Without(p), ws)
<1>1. Idle \in ProcState /\ ProcOK(p, Idle) /\ Idle.at = "idle" /\ Idle.req = "none"
      /\ Idle.cl = NoClient
  BY IdleOK
<1>2. QED
  BY <1>1, QuietOne DEF Without, OnTheWire, InConnect

\* Closing the session's client.
LEMMA QuietClose ==
  ASSUME IInv, NEW f, Quieter(f, ws)
  PROVE  Quieter(Lost(f, {cur}), [ws EXCEPT ![cur] = "none"])
<1> DEFINE g == Lost(f, {cur})
           w == [ws EXCEPT ![cur] = "none"]
<1>1. f \in [Procs -> ProcState] /\ \A p \in Procs : ProcOK(p, f[p])
  BY DEF Quieter
<1>2. /\ w \in [Clients -> {"none", "registering", "open"}] /\ w[cur] = "none"
      /\ \A c \in Clients : c # cur => w[c] = ws[c]
  BY DEF IInv, TypeOK
<1>3. g \in [Procs -> ProcState]
  BY <1>1, LostFacts DEF Procs
<1>4. \A p \in Procs :
        /\ g[p].at = f[p].at /\ g[p].cl = f[p].cl /\ ProcOK(p, g[p])
        /\ \/ g[p].req = f[p].req
           \/ g[p].req = "broken" /\ f[p].cl = cur
        /\ f[p].cl = cur /\ ws[cur] = "open" => g[p].req \notin {"sent", "handled"}
  BY <1>1, LostFacts
<1> HIDE DEF g, w
<1>5. ASSUME NEW p \in Procs, OnTheWire(p, g[p]) PROVE w[g[p].cl] = "open"
  <2>1. OnTheWire(p, f[p]) /\ ws[f[p].cl] = "open" /\ f[p].cl \in Clients
    BY <1>1, <1>4, <1>5 DEF OnTheWire, Quieter, ProcOK
  <2>2. f[p].cl = cur
    BY <2>1 DEF IInv, OneSocket, connected
  <2>3. QED
    BY <2>1, <2>2, <1>4, <1>5 DEF OnTheWire
<1>6. ASSUME NEW p \in Procs, g[p].req = "broken" PROVE w[g[p].cl] = "none"
  <2>1. f[p].cl = cur \/ (f[p].req = "broken" /\ f[p].cl \in Clients /\ ws[f[p].cl] = "none")
    BY <1>1, <1>4, <1>6 DEF Quieter, ProcOK
  <2>2. QED
    BY <2>1, <1>2, <1>4
<1>7. \A p \in Procs : g[p].at \in InConnect \/ proc[p].at \in InConnect =>
                          g[p].at = proc[p].at /\ g[p].cl = proc[p].cl
  BY <1>4 DEF Quieter
<1>8. \A p \in Procs : g[p].cl = cur => proc[p].cl = cur \/ connected(cur)
  BY <1>4 DEF Quieter
<1>9. \A c \in Clients : w[c] = ws[c] \/ w[c] = "none"
  BY <1>2
<1>10. ASSUME NEW p \in Procs, g[p].at = "pollWait" PROVE w[g[p].cl] # "registering"
  BY <1>1, <1>2, <1>4, <1>10 DEF Quieter, ProcOK
<1>11. Quieter(g, w)
  BY <1>2, <1>3, <1>4, <1>5, <1>6, <1>7, <1>8, <1>9, <1>10 DEF Quieter
<1>12. QED
  BY <1>11 DEF g, w

\* How an operation leaves the session.
LEMMA QuietDisconnects ==
  ASSUME IInv, NEW p \in Procs, proc[p].at \notin InConnect, Disconnects(p)
  PROVE  Quieter(proc', ws')
<1> DEFINE f == [Without(p) EXCEPT !["keepalive"] = Idle]
<1>1. Quieter(Without(p), ws)
  BY QuietWithout
<1>2. proc["keepalive"].at \notin InConnect /\ "keepalive" \in Procs
  BY DEF IInv, TypeOK, Queue, Has, Procs, Connecting
<1>3. Idle \in ProcState /\ Idle.at = "idle" /\ Idle.req = "none" /\ Idle.cl = NoClient
      /\ \A q \in Procs : ProcOK(q, Idle)
  BY IdleOK DEF Procs
<1>4. /\ f \in [Procs -> ProcState] /\ f["keepalive"] = Idle
      /\ \A q \in Procs : q # "keepalive" => f[q] = Without(p)[q]
  BY <1>1, <1>2, <1>3 DEF Quieter
<1>5. ws' = [ws EXCEPT ![cur] = "none"] /\ proc' = Lost(f, {cur})
  BY DEF Disconnects, ClosesCurrent
<1> HIDE DEF f
<1>6. Quieter(f, ws)
  <2>1. NoClient # cur /\ "idle" \notin InConnect
    BY SessionAssumption DEF IInv, TypeOK, InConnect
  <2>2. ~OnTheWire("keepalive", Idle)
    BY <1>3 DEF OnTheWire
  <2>3. QED
    BY <1>1, <1>2, <1>3, <1>4, <2>1, <2>2 DEF Quieter
<1>7. QED
  BY <1>5, <1>6, QuietClose

LEMMA QuietSettles ==
  ASSUME IInv, NEW p \in Procs, proc[p].at \notin InConnect, Settles(p)
  PROVE  Quieter(proc', ws')
<1>1. mode \in {"off", "keep_open", "keepalive"}
  BY SessionAssumption DEF IInv, TypeOK
<1>2. CASE mode = "off"
  BY <1>2, QuietDisconnects DEF Settles
<1>3. CASE mode = "keep_open"
  BY <1>3, QuietWithout DEF Settles
<1>4. CASE mode = "keepalive"
  <2> DEFINE r == [Without(p)["keepalive"] EXCEPT !.at = "sleep"]
  <2>1. Quieter(Without(p), ws)
    BY QuietWithout
  <2>2. proc["keepalive"].at \notin InConnect /\ "keepalive" \in Procs
    BY DEF IInv, TypeOK, Queue, Has, Procs, Connecting
  <2>3. ws' = ws /\ proc' = IF Busy("keepalive") THEN Without(p)
                            ELSE [Without(p) EXCEPT !["keepalive"].at = "sleep"]
    BY <1>4 DEF Settles, StartsKeepalive
  <2>4. CASE Busy("keepalive")
    BY <2>1, <2>3, <2>4
  <2>5. CASE ~Busy("keepalive")
    <3>1. /\ Without(p)["keepalive"] \in ProcState /\ Without(p)["keepalive"].at = "idle"
          /\ ProcOK("keepalive", Without(p)["keepalive"])
      BY <2>1, <2>2, <2>5, IdleOK DEF Quieter, Without, Busy, IInv, TypeOK
    <3>2. /\ r \in ProcState /\ r.at = "sleep" /\ r.req = "none"
          /\ ProcOK("keepalive", r)
      BY <3>1 DEF ProcState, ProcOK, Counted, Awaits, Silent, InConnect
    <3>3. proc' = [Without(p) EXCEPT !["keepalive"] = r]
      BY <2>3, <2>5
    <3> HIDE DEF r
    <3>4. QED
      BY <2>1, <2>2, <2>3, <3>2, <3>3 DEF Quieter, OnTheWire, InConnect
  <2>6. QED
    BY <2>4, <2>5
<1>5. QED
  BY <1>1, <1>2, <1>3, <1>4

-----------------------------------------------------------------------------
(* The television, and the steps of operations that are connected          *)

LEMMA QuietSelf == ASSUME IInv PROVE Quieter(proc, ws)
BY DEF IInv, TypeOK, Asked, Broken, Polling, Quieter

\* A coroutine with a request out is not inside connect().
LEMMA AskingOutside ==
  ASSUME IInv, NEW p \in Procs, proc[p].req # "none"
  PROVE  /\ proc[p].at \in Awaits \ Silent /\ proc[p].at \notin InConnect
         /\ proc[p].cl \in Clients /\ proc[p] \in ProcState
BY DEF IInv, TypeOK, ProcOK, ProcState, Silent

LEMMA TvHandlesIInv ==
  ASSUME IInv, NEW p \in Procs, TvHandles(p) PROVE IInv'
<1>1. /\ proc[p].req = "sent" /\ ws[proc[p].cl] = "open"
      /\ proc[p].at \in Awaits \ Silent /\ proc[p].at \notin InConnect
      /\ proc[p] \in ProcState /\ ProcOK(p, proc[p]) /\ tv \in PowerStates
  BY AskingOutside DEF TvHandles, IInv, TypeOK
<1>2. PICK v \in Answers(proc[p].at) :
        proc' = [proc EXCEPT ![p].req = "handled", ![p].seen = IF v = "done" THEN @ ELSE v]
  BY DEF TvHandles
<1> DEFINE r == [proc[p] EXCEPT !.req = "handled",
                                !.seen = IF v = "done" THEN proc[p].seen ELSE v]
<1>3. v \in PowerStates \cup {"Unknown", "pc", "other", "done"}
  BY <1>1 DEF Answers
<1>4. proc' = [proc EXCEPT ![p] = r]
  BY <1>1, <1>2 DEF IInv, TypeOK, ProcState
<1>5. /\ r \in ProcState /\ r.at = proc[p].at /\ r.cl = proc[p].cl /\ r.n = proc[p].n
      /\ r.req = "handled"
  BY <1>1, <1>3 DEF ProcState
<1> HIDE DEF r
<1>6. ProcOK(p, r)
  BY <1>1, <1>5 DEF ProcOK, Counted, Silent
<1>7. Quieter(proc', ws)
  BY <1>1, <1>4, <1>5, <1>6, QuietOne
<1>8. tv' \in PowerStates \cup {"Off"}
  BY <1>1 DEF TvHandles, Effect, PowerStates
<1>9. QED
  BY <1>7, <1>8, Steady DEF TvHandles, Outside, IInv, TypeOK

LEMMA EnvironmentIInv == ASSUME IInv, Environment PROVE IInv'
<1>1. CASE MagicArrives
  BY <1>1, QuietSelf, Steady DEF MagicArrives, Outside, IInv, TypeOK, PowerStates
<1>2. CASE Remote
  BY <1>2, QuietSelf, Steady DEF Remote, Outside, IInv, TypeOK, PowerStates
<1>3. CASE Reload
  BY <1>3, QuietSelf, Steady DEF Reload, Outside, IInv, TypeOK
<1>4. ASSUME NEW c \in Clients, Drop(c) PROVE IInv'
  <2>1. c = cur
    BY <1>4 DEF Drop, IInv, OneSocket, connected
  <2>2. Quieter(proc', ws')
    BY <1>4, <2>1, QuietSelf, QuietClose DEF Drop
  <2>3. QED
    BY <1>4, <2>2, Steady DEF Drop, Outside, IInv, TypeOK
<1>5. QED
  BY <1>1, <1>2, <1>3, <1>4 DEF Environment

\* A connected operation goes on to its next request.
LEMMA QuietContinues ==
  ASSUME IInv, NEW p \in Connecting, proc[p].req # "none", NEW ask \in Awaits \ Silent,
         ask \notin {"getState", "toggle"} \/ proc[p].n = 0, Continues(p, ask)
  PROVE  Quieter(proc', ws')
<1> DEFINE c == proc[p].cl
           r == Asks(p, c, ask)
<1>1. p \in Procs /\ c \in Clients /\ proc[p] \in ProcState /\ proc[p].at \notin InConnect
  BY AskingOutside DEF Connecting, Procs
<1>2. /\ r \in ProcState /\ r.at = ask /\ r.cl = c /\ ProcOK(p, r)
      /\ r.req = IF connected(c) THEN "sent" ELSE "broken"
  BY <1>1, AsksFacts
<1>3. proc' = [proc EXCEPT ![p] = r] /\ ws' = ws
  BY DEF Continues
<1> HIDE DEF r
<1>4. connected(c) => ws[c] = "open"
  BY <1>1 DEF IInv, ProcOK, ProcState, Asked, Broken, OnTheWire, connected
<1>5. r.at \notin InConnect /\ r.at # "pollWait"
  BY <1>2 DEF Silent
<1>6. /\ OnTheWire(p, r) => ws[r.cl] = "open"
      /\ r.req = "broken" => ws[r.cl] = "none"
  BY <1>2, <1>4 DEF OnTheWire, connected
<1>7. QED
  BY <1>1, <1>2, <1>3, <1>5, <1>6, QuietOne

\* A connected power_on waits between two polls.
LEMMA OnAnsweredIInv == ASSUME IInv, OnAnswered PROVE IInv'
<1> DEFINE s == proc["on"].seen
<1>1. /\ "on" \in Procs /\ "on" \in Connecting /\ proc["on"].req = "handled"
      /\ proc["on"].req # "none"
      /\ proc["on"].at \in Awaits \ Silent /\ proc["on"].at \notin InConnect
      /\ proc["on"] \in ProcState /\ ProcOK("on", proc["on"])
  BY AskingOutside DEF OnAnswered, IInv, Procs, Connecting
<1>2. {"launch", "toggle", "screenOn", "reread", "poll"} \subseteq Awaits \ Silent
  BY DEF Awaits, Silent, InConnect
<1>3. CASE /\ proc["on"].at = "getState"
           /\ Continues("on", CASE s = "Active" -> "launch"
                                [] s = "Active Standby" -> "toggle"
                                [] OTHER -> "screenOn")
  <2>1. proc["on"].n = 0
    BY <1>1, <1>3 DEF ProcOK, Counted
  <2>2. \E ask \in {"launch", "toggle", "screenOn"} : Continues("on", ask)
    BY <1>3
  <2>3. Quieter(proc', ws')
    BY <1>1, <1>2, <2>1, <2>2, QuietContinues
  <2>4. QED
    BY <2>3, Steady DEF OnAnswered, Outside, IInv, TypeOK
<1>4. CASE \E ask \in {"reread", "launch"} : Continues("on", ask)
  <2>1. Quieter(proc', ws')
    BY <1>1, <1>2, <1>4, QuietContinues
  <2>2. QED
    BY <2>1, Steady DEF OnAnswered, Outside, IInv, TypeOK
<1>5. CASE /\ \/ proc["on"].at = "toggle"
              \/ proc["on"].at = "poll" /\ s # "Active" /\ proc["on"].n < Polls
           /\ proc' = [proc EXCEPT !["on"].at = "pollWait", !["on"].req = "none",
                                    !["on"].seen = "none"]
           /\ ws' = ws
  <2> DEFINE r == [proc["on"] EXCEPT !.at = "pollWait", !.req = "none", !.seen = "none"]
  <2>1. proc["on"].n < Polls
    BY <1>1, <1>5, SessionAssumption DEF ProcOK, Counted
  <2>2. proc' = [proc EXCEPT !["on"] = r]
    BY <1>5
  <2>3. /\ r \in ProcState /\ r.at = "pollWait" /\ r.req = "none"
        /\ r.cl = proc["on"].cl /\ r.n = proc["on"].n
    BY <1>1 DEF ProcState, Awaits
  <2> HIDE DEF r
  <2>4. /\ ProcOK("on", r) /\ ~OnTheWire("on", r) /\ r.at \notin InConnect
        /\ ws[r.cl] # "registering"
    BY <1>1, <2>1, <2>3 DEF ProcOK, Counted, OnTheWire, InConnect, IInv, Asked
  <2>5. Quieter(proc', ws')
    BY <1>1, <1>5, <2>2, <2>3, <2>4, QuietOne
  <2>6. QED
    BY <2>5, Steady DEF OnAnswered, Outside, IInv, TypeOK
<1>6. CASE Settles("on")
  <2>1. Quieter(proc', ws')
    BY <1>1, <1>6, QuietSettles
  <2>2. QED
    BY <2>1, Steady DEF OnAnswered, Outside, IInv, TypeOK
<1>7. QED
  BY <1>3, <1>4, <1>5, <1>6 DEF OnAnswered

LEMMA PollAgainIInv == ASSUME IInv, PollAgain PROVE IInv'
<1> DEFINE c == proc["on"].cl
           a == Asks("on", c, "poll")
           r == [a EXCEPT !.n = @ + 1]
<1>1. /\ "on" \in Procs /\ "on" \in Connecting /\ proc["on"].at = "pollWait"
      /\ proc["on"] \in ProcState /\ proc["on"].n < Polls /\ c \in Clients
      /\ "poll" \in Awaits \ Silent /\ proc["on"].at \notin InConnect
  BY DEF PollAgain, IInv, TypeOK, ProcOK, Counted, Procs, Connecting, Awaits, Silent, InConnect
<1>2. /\ a \in ProcState /\ a.at = "poll" /\ a.cl = c /\ a.n = proc["on"].n
      /\ a.req = IF connected(c) THEN "sent" ELSE "broken"
  BY <1>1, AsksFacts
<1>3. proc' = [proc EXCEPT !["on"] = r]
  BY DEF PollAgain
<1> HIDE DEF a
<1>4. a.n \in Nat /\ a.n + 1 \in 0..Polls
  BY <1>1, <1>2, SessionAssumption DEF ProcState
<1>5. /\ r \in ProcState /\ r.at = "poll" /\ r.cl = c
      /\ r.req = IF connected(c) THEN "sent" ELSE "broken"
  BY <1>2, <1>4 DEF ProcState
<1> HIDE DEF r
<1>6. connected(c) => ws[c] = "open"
  BY <1>1 DEF IInv, TypeOK, Polling, connected
<1>7. ProcOK("on", r)
  BY <1>1, <1>5 DEF ProcOK, Counted, Silent, InConnect
<1>8. Quieter(proc', ws)
  <2>1. /\ OnTheWire("on", r) => ws[r.cl] = "open"
        /\ r.req = "broken" => ws[r.cl] = "none"
        /\ r.at \notin InConnect
    BY <1>5, <1>6 DEF OnTheWire, connected, InConnect
  <2>2. QED
    BY <1>1, <1>3, <1>5, <1>7, <2>1, QuietOne
<1>9. QED
  BY <1>8, Steady DEF PollAgain, Outside, IInv, TypeOK

LEMMA OffAnsweredIInv == ASSUME IInv, OffAnswered PROVE IInv'
<1>1. /\ "off" \in Procs /\ "off" \in Connecting /\ proc["off"].req # "none"
      /\ proc["off"].at \notin InConnect
      /\ {"guard", "turnOff", "screenOff"} \subseteq Awaits \ Silent
  BY AskingOutside DEF OffAnswered, Procs, Connecting, Awaits, Silent, InConnect
<1>2. CASE \E ask \in {"guard", "turnOff", "screenOff"} : Continues("off", ask)
  <2>1. Quieter(proc', ws')
    BY <1>1, <1>2, QuietContinues
  <2>2. QED
    BY <2>1, Steady DEF OffAnswered, Outside, IInv, TypeOK
<1>3. CASE Disconnects("off") \/ Settles("off")
  <2>1. Quieter(proc', ws')
    BY <1>1, <1>3, QuietDisconnects, QuietSettles
  <2>2. QED
    BY <2>1, Steady DEF OffAnswered, Outside, IInv, TypeOK
<1>4. QED
  BY <1>2, <1>3 DEF OffAnswered, OffEnds, Darkens

LEMMA ExecAnsweredIInv == ASSUME IInv, ExecAnswered PROVE IInv'
<1>1. "exec" \in Procs /\ proc["exec"].at \notin InConnect
  BY AskingOutside DEF ExecAnswered, Procs
<1>2. Quieter(proc', ws')
  BY <1>1, QuietSettles DEF ExecAnswered
<1>3. QED
  BY <1>2, Steady DEF ExecAnswered, Outside, IInv, TypeOK

LEMMA OperationFailsIInv ==
  ASSUME IInv, NEW p \in Connecting, OperationFails(p) PROVE IInv'
<1>1. p \in Procs /\ proc[p].req # "none" /\ proc[p].at \notin InConnect
  BY AskingOutside DEF OperationFails, Procs, Connecting
<1>2. CASE \E ask \in {"turnOff", "screenOff"} : Continues(p, ask)
  <2>1. {"turnOff", "screenOff"} \subseteq Awaits \ Silent
    BY DEF Awaits, Silent, InConnect
  <2>2. Quieter(proc', ws')
    BY <1>1, <1>2, <2>1, QuietContinues
  <2>3. QED
    BY <2>2, Steady DEF OperationFails, Outside, IInv, TypeOK
<1>3. CASE Raises(p)
  <2>1. Quieter(proc', ws')
    BY <1>1, <1>3, QuietSettles, QuietWithout DEF Raises
  <2>2. QED
    BY <2>1, Steady DEF OperationFails, Outside, IInv, TypeOK
<1>4. QED
  BY <1>2, <1>3 DEF OperationFails, Darkens

-----------------------------------------------------------------------------
(* The keepalive task and the probe                                        *)

LEMMA QuietAsks ==
  ASSUME IInv, NEW p \in Procs \ Connecting, connected(cur), NEW ask \in {"ping", "ask"},
         proc[p].at \notin InConnect
  PROVE  Quieter([proc EXCEPT ![p] = Asks(p, cur, ask)], ws)
<1> DEFINE r == Asks(p, cur, ask)
<1>1. proc[p] \in ProcState /\ cur \in Clients
  BY DEF IInv, TypeOK
<1>2. ask \in Awaits \ Silent /\ ask \notin InConnect
  BY DEF Awaits, Silent, InConnect
<1>3. /\ r \in ProcState /\ r.at = ask /\ r.cl = cur /\ r.req = "sent" /\ ProcOK(p, r)
  BY <1>1, <1>2, AsksFacts
<1> HIDE DEF r
<1>4. ~OnTheWire(p, r)
  BY <1>3 DEF OnTheWire
<1>5. Quieter([proc EXCEPT ![p] = r], ws)
  BY <1>2, <1>3, <1>4, QuietOne
<1>6. QED
  BY <1>5 DEF r

LEMMA KeepaliveIInv == ASSUME IInv, KeepaliveSteps PROVE IInv'
<1>1. "keepalive" \in Procs \ Connecting /\ proc["keepalive"].at \notin InConnect
  BY DEF IInv, TypeOK, Queue, Has, Procs, Connecting
<1>2. CASE KeepaliveTick
  <2>1. Quieter(proc', ws')
    BY <1>1, <1>2, QuietAsks, QuietWithout DEF KeepaliveTick
  <2>2. QED
    BY <1>2, <2>1, Steady DEF KeepaliveTick, Outside, IInv, TypeOK
<1>3. CASE KeepaliveAnswered
  <2> DEFINE r == [Idle EXCEPT !.at = "sleep"]
  <2>1. r \in ProcState /\ r.at = "sleep" /\ r.req = "none" /\ r.cl = NoClient
    BY <1>1, IdleOK DEF ProcState, Awaits
  <2>2. proc' = [proc EXCEPT !["keepalive"] = r]
    BY <1>3 DEF KeepaliveAnswered
  <2> HIDE DEF r
  <2>3. ProcOK("keepalive", r) /\ ~OnTheWire("keepalive", r) /\ r.at \notin InConnect
    BY <2>1 DEF ProcOK, Counted, OnTheWire, InConnect
  <2>4. Quieter(proc', ws)
    BY <1>1, <2>1, <2>2, <2>3, QuietOne
  <2>5. QED
    BY <1>3, <2>4, Steady DEF KeepaliveAnswered, Outside, IInv, TypeOK
<1>4. CASE KeepaliveFails
  <2>1. Quieter(proc', ws')
    BY <1>1, <1>4, QuietWithout, QuietClose DEF KeepaliveFails, ClosesCurrent
  <2>2. QED
    BY <1>4, <2>1, Steady DEF KeepaliveFails, Outside, IInv, TypeOK
<1>5. QED
  BY <1>2, <1>3, <1>4 DEF KeepaliveSteps

\* A coroutine calls connect(): it goes to the end of the lock's queue.
LEMMA Enqueues ==
  ASSUME IInv, NEW f, Quieter(f, ws'), NEW p \in Connecting, f[p].at = "idle",
         NEW r \in ProcState, r.at = "lock", r.n = 0, r.req = "none",
         r.cl = f[p].cl \/ r.cl = NoClient,
         proc' = [f EXCEPT ![p] = r], lock' = Append(lock, p), cur' = cur, Outside
  PROVE  IInv'
<1>1. /\ p \in Procs /\ f \in [Procs -> ProcState] /\ NoClient # cur
      /\ proc' \in [Procs -> ProcState] /\ proc'[p] = r
      /\ \A q \in Procs : q # p => proc'[q] = f[q]
  BY SessionAssumption DEF Quieter, Connecting, Procs, IInv, TypeOK
<1>2. proc[p].at \notin InConnect
  BY <1>1 DEF Quieter, InConnect
<1>3. lock \in Seq(Connecting) /\ Distinct(lock) /\ ~Has(lock, p)
  BY <1>1, <1>2 DEF IInv, TypeOK, Queue
<1>4. /\ lock' \in Seq(Connecting) /\ Distinct(lock')
      /\ \A h : Has(lock', h) <=> Has(lock, h) \/ h = p
      /\ lock' # <<>> /\ Head(lock') = IF lock = <<>> THEN p ELSE Head(lock)
  BY <1>3, AppendFacts
<1>5. \A q \in Procs : ProcOK(q, proc'[q])
  BY <1>1 DEF Quieter, ProcOK, Counted
<1>6. TypeOK'
  BY <1>1, <1>4 DEF IInv, TypeOK, Quieter, Outside
<1>7. \A q \in Procs : proc'[q].at \in {"dial", "register", "backoff"} =>
        /\ proc'[q].at = proc[q].at /\ proc'[q].cl = proc[q].cl /\ q # p
  BY <1>1 DEF Quieter, InConnect
<1>8. Queue'
  <2>1. \A q \in Procs : proc'[q].at \in InConnect <=> Has(lock', q)
    BY <1>1, <1>2, <1>4 DEF Quieter, IInv, Queue, InConnect
  <2>2. \A q \in Procs : Holds(q) => Holds(q)'
    BY <1>4 DEF Holds
  <2>3. QED
    BY <1>4, <1>7, <2>1, <2>2 DEF IInv, Queue
<1>9. \A c \in Clients : ws'[c] # "none" => ws'[c] = ws[c]
  BY DEF Quieter
<1>10. OneSocket' /\ Dialling'
  BY <1>7, <1>9 DEF IInv, TypeOK, OneSocket, Dialling, connected
<1>11. Registering'
  <2>1. ASSUME NEW q \in Procs, proc[q].at = "register" PROVE proc'[q].at = "register"
    BY <2>1, <1>1 DEF Quieter, InConnect
  <2>2. QED
    BY <2>1, <1>9 DEF IInv, TypeOK, Registering
<1>12. Asked' /\ Broken' /\ Polling'
  BY <1>1 DEF Quieter, Asked, Broken, Polling, OnTheWire
<1>13. Alone'
  BY <1>1, <1>7 DEF IInv, TypeOK, Alone, Dialling, Quieter
<1>14. QED
  BY <1>5, <1>6, <1>8, <1>10, <1>11, <1>12, <1>13 DEF IInv

LEMMA StartIInv ==
  ASSUME IInv, NEW p \in Connecting, NEW op, Start(p, op),
         op \in {"power_on", "unblank", "power_off", "blank", "request"}
  PROVE  IInv'
<1> DEFINE r == [proc[p] EXCEPT !.at = "lock", !.op = op]
<1>1. /\ p \in Procs /\ proc[p] \in ProcState /\ proc[p].at = "idle" /\ proc[p].n = 0
      /\ proc[p].req = "none"
  BY DEF Start, Busy, IInv, TypeOK, ProcOK, Counted, Silent, Procs, Connecting
<1>2. /\ r \in ProcState /\ r.at = "lock" /\ r.n = 0 /\ r.req = "none" /\ r.cl = proc[p].cl
  BY <1>1 DEF ProcState, Awaits
<1>3. proc' = [proc EXCEPT ![p] = r]
  BY DEF Start
<1> HIDE DEF r
<1>4. Quieter(proc, ws') /\ cur' = cur /\ lock' = Append(lock, p) /\ Outside
  BY QuietSelf DEF Start, Outside, IInv, TypeOK
<1>5. QED
  BY <1>1, <1>2, <1>3, <1>4, Enqueues

LEMMA VerdictIInv ==
  ASSUME IInv, NEW f, Quieter(f, ws'), f["on"].at = proc["on"].at, NEW st, Verdict(f, st),
         cur' = cur, Outside
  PROVE  IInv'
<1>1. CASE st \in NoWakeStates \/ Busy("on")
  BY <1>1, Steady DEF Verdict
<1>2. CASE ~(st \in NoWakeStates \/ Busy("on"))
  <2> DEFINE r == [Idle EXCEPT !.at = "lock", !.op = "power_on"]
  <2>1. /\ r \in ProcState /\ r.at = "lock" /\ r.n = 0 /\ r.req = "none" /\ r.cl = NoClient
    <3>1. /\ Idle \in ProcState /\ Idle.n = 0 /\ Idle.req = "none" /\ Idle.cl = NoClient
      BY IdleOK DEF Procs
    <3>2. QED
      BY <3>1 DEF ProcState, Awaits
  <2>2. proc' = [f EXCEPT !["on"] = r] /\ lock' = Append(lock, "on")
    BY <1>2 DEF Verdict
  <2> HIDE DEF r
  <2>3. "on" \in Connecting /\ f["on"].at = "idle"
    BY <1>2 DEF Busy, Connecting
  <2>4. QED
    BY <2>1, <2>2, <2>3, Enqueues
<1>3. QED
  BY <1>1, <1>2

LEMMA ProbeStartsIInv == ASSUME IInv, ProbeStarts PROVE IInv'
<1> DEFINE r == [proc["probe"] EXCEPT !.at = "start"]
<1>1. /\ "probe" \in Procs /\ proc["probe"] \in ProcState
      /\ proc["probe"].at = "idle" /\ proc["probe"].req = "none"
  BY DEF ProbeStarts, Busy, IInv, TypeOK, ProcOK, Silent, Procs
<1>2. r \in ProcState /\ r.at = "start" /\ r.req = "none" /\ r.cl = proc["probe"].cl
  BY <1>1 DEF ProcState, Awaits
<1>3. proc' = [proc EXCEPT !["probe"] = r]
  BY DEF ProbeStarts
<1> HIDE DEF r
<1>4. /\ ProcOK("probe", r) /\ ~OnTheWire("probe", r)
      /\ r.at \notin InConnect /\ proc["probe"].at \notin InConnect
  BY <1>1, <1>2 DEF ProcOK, Counted, OnTheWire, InConnect
<1>5. Quieter(proc', ws)
  BY <1>1, <1>2, <1>3, <1>4, QuietOne
<1>6. QED
  BY <1>5, Steady DEF ProbeStarts, Outside, IInv, TypeOK

LEMMA ProbeIInv == ASSUME IInv, ProbeSteps PROVE IInv'
<1>1. /\ "probe" \in Procs \ Connecting /\ "on" \in Procs
      /\ proc["probe"].at \notin InConnect /\ proc["probe"] \in ProcState
  BY DEF IInv, TypeOK, Queue, Has, Procs, Connecting
<1>2. Quieter(Without("probe"), ws) /\ Without("probe")["on"].at = proc["on"].at
  BY <1>1, QuietWithout DEF Without, IInv, TypeOK
<1>3. CASE ProbeLooks
  <2>1. CASE connected(cur)
    <3>1. proc' = [proc EXCEPT !["probe"] = Asks("probe", cur, "ask")] /\ ws' = ws
      BY <1>3, <2>1 DEF ProbeLooks
    <3>2. Quieter(proc', ws')
      BY <1>1, <2>1, <3>1, QuietAsks
    <3>3. QED
      BY <1>3, <3>2, Steady DEF ProbeLooks, Outside, IInv, TypeOK
  <2>2. CASE ~connected(cur)
    <3> DEFINE r == [proc["probe"] EXCEPT !.at = "throwaway"]
    <3>1. proc["probe"].req = "none"
      BY <1>1, <1>3 DEF ProbeLooks, IInv, ProcOK, Silent
    <3>2. r \in ProcState /\ r.at = "throwaway" /\ r.req = "none" /\ r.cl = proc["probe"].cl
      BY <1>1, <3>1 DEF ProcState, Awaits
    <3>3. proc' = [proc EXCEPT !["probe"] = r] /\ ws' = ws
      BY <1>3, <2>2 DEF ProbeLooks
    <3> HIDE DEF r
    <3>4. ProcOK("probe", r) /\ ~OnTheWire("probe", r) /\ r.at \notin InConnect
      BY <3>2 DEF ProcOK, Counted, OnTheWire, InConnect
    <3>5. Quieter(proc', ws')
      BY <1>1, <3>2, <3>3, <3>4, QuietOne
    <3>6. QED
      BY <1>3, <3>5, Steady DEF ProbeLooks, Outside, IInv, TypeOK
  <2>3. QED
    BY <2>1, <2>2
<1>4. CASE ProbeAnswered
  BY <1>2, <1>4, VerdictIInv DEF ProbeAnswered, Outside, IInv, TypeOK
<1>5. CASE ProbeFails
  <2> DEFINE f == Lost(Without("probe"), {cur})
  <2>1. Quieter(f, ws')
    BY <1>2, <1>5, QuietClose DEF ProbeFails
  <2>2. f["on"].at = proc["on"].at
    BY <1>1, <1>2, LostFacts DEF Quieter
  <2>3. Verdict(f, "Unreachable") /\ cur' = cur /\ Outside
    BY <1>5 DEF ProbeFails, Outside, IInv, TypeOK
  <2> HIDE DEF f
  <2>4. QED
    BY <2>1, <2>2, <2>3, VerdictIInv
<1>6. CASE ProbeThrowaway
  <2>1. ws' = ws /\ cur' = cur /\ Outside /\ \E st : Verdict(Without("probe"), st)
    BY <1>6 DEF ProbeThrowaway, Outside, IInv, TypeOK
  <2>2. QED
    BY <1>2, <2>1, VerdictIInv
<1>7. QED
  BY <1>3, <1>4, <1>5, <1>6 DEF ProbeSteps

-----------------------------------------------------------------------------
(* The steps of connect()                                                  *)

\* The head of the lock's queue is one of the coroutines that call connect().
LEMMA HeadFacts ==
  ASSUME IInv, NEW p \in Procs, Holds(p)
  PROVE  /\ p \in Connecting /\ Has(lock, p)
         /\ proc[p].at \in InConnect /\ proc[p].req = "none"
         /\ \A q \in Procs : proc[q].at \in {"dial", "register", "backoff"} => q = p
<1>1. lock \in Seq(Connecting) /\ lock # <<>> /\ Head(lock) = p /\ Distinct(lock)
  BY DEF Holds, IInv, TypeOK, Queue
<1>2. Has(lock, p)
  BY <1>1, TailFacts
<1>3. p \in Connecting
  BY <1>1
<1>4. QED
  BY <1>1, <1>2, <1>3 DEF IInv, Queue, Holds, ProcOK, Silent

\* A coroutine leaves the lock or its queue, and connect() with it; the session's
\* socket becomes s.
LEMMA Leaves ==
  ASSUME IInv, NEW p \in Procs, Has(lock, p),
         NEW r \in ProcState, ProcOK(p, r), r.at \notin InConnect, r.at # "pollWait",
         r.req # "broken", r.cl = NoClient \/ r.cl = proc[p].cl \/ connected(cur),
         NEW s \in {ws[cur], "none", "open"}, Holds(p) \/ s = ws[cur],
         ws[cur] = "none" => s = "none", ws[cur] = "open" => s = "open",
         s # "registering" \/ ~Holds(p),
         OnTheWire(p, r) => r.cl = cur /\ s = "open",
         proc' = [proc EXCEPT ![p] = r], ws' = [ws EXCEPT ![cur] = s],
         cur' = cur, Outside,
         lock' \in Seq(Connecting), Distinct(lock'),
         \A h : Has(lock', h) <=> Has(lock, h) /\ h # p,
         ~Holds(p) => lock' # <<>> /\ Head(lock') = Head(lock)
  PROVE  IInv'
<1>1. /\ proc' \in [Procs -> ProcState] /\ proc'[p] = r
      /\ \A q \in Procs : q # p => proc'[q] = proc[q]
      /\ cur \in Clients /\ NoClient # cur
  BY SessionAssumption DEF IInv, TypeOK
<1>2. /\ ws' \in [Clients -> {"none", "registering", "open"}] /\ ws'[cur] = s
      /\ \A c \in Clients : c # cur => ws'[c] = ws[c]
  BY DEF IInv, TypeOK
<1>3. TypeOK'
  BY <1>1, <1>2 DEF IInv, TypeOK, Outside
<1>4. \A q \in Procs : ProcOK(q, proc'[q])
  BY <1>1 DEF IInv
<1>5. OneSocket'
  BY <1>2 DEF IInv, OneSocket, connected
<1>6. \A q \in Procs : proc'[q].at \in {"dial", "register", "backoff"} =>
        q # p /\ proc'[q] = proc[q] /\ Holds(q) /\ ~Holds(p)
  BY <1>1, HeadFacts DEF IInv, Queue, InConnect
<1>7. Queue'
  <2>1. \A q \in Procs : proc'[q].at \in InConnect <=> Has(lock', q)
    BY <1>1 DEF IInv, Queue
  <2>2. \A q \in Procs : Holds(q) /\ ~Holds(p) => Holds(q)'
    BY DEF Holds
  <2>3. QED
    BY <1>6, <2>1, <2>2 DEF IInv, Queue
<1>8. Dialling'
  BY <1>2, <1>6 DEF IInv, Dialling, connected
<1>9. Registering'
  <2>1. CASE Holds(p)
    BY <2>1, <1>2 DEF Registering
  <2>2. CASE ~Holds(p)
    BY <2>2, <1>1, <1>2 DEF IInv, Registering, Queue
  <2>3. QED
    BY <2>1, <2>2
<1>10. Asked'
  <2> SUFFICES ASSUME NEW q \in Procs, OnTheWire(q, proc'[q])
               PROVE  ws'[proc'[q].cl] = "open"
    BY DEF Asked, OnTheWire
  <2>1. CASE q = p
    BY <2>1, <1>1, <1>2
  <2>2. CASE q # p
    <3>1. /\ proc'[q] = proc[q] /\ proc[q].cl \in Clients /\ ws[proc[q].cl] = "open"
      BY <2>2, <1>1 DEF IInv, Asked, OnTheWire, ProcOK
    <3>2. QED
      BY <3>1, <1>2
  <2>3. QED
    BY <2>1, <2>2
<1>11. Broken'
  <2> SUFFICES ASSUME NEW q \in Procs, proc'[q].req = "broken"
               PROVE  ws'[proc'[q].cl] = "none"
    BY DEF Broken
  <2>1. q # p /\ proc'[q] = proc[q] /\ proc[q].cl \in Clients /\ ws[proc[q].cl] = "none"
    BY <1>1 DEF IInv, Broken, ProcOK
  <2>2. QED
    BY <2>1, <1>2
<1>12. Polling'
  <2> SUFFICES ASSUME NEW q \in Procs, proc'[q].at = "pollWait"
               PROVE  ws'[proc'[q].cl] # "registering"
    BY DEF Polling
  <2>1. /\ q # p /\ proc'[q] = proc[q] /\ proc[q].cl \in Clients
        /\ ws[proc[q].cl] # "registering"
    BY <1>1 DEF IInv, Polling, ProcOK
  <2>2. QED
    BY <2>1, <1>2
<1>13. Alone'
  BY <1>1, <1>6 DEF IInv, Alone, Dialling
<1>14. QED
  BY <1>3, <1>4, <1>5, <1>7, <1>8, <1>9, <1>10, <1>11, <1>12, <1>13 DEF IInv

\* The same for the holder, who leaves by releasing the lock.
LEMMA HolderLeaves ==
  ASSUME IInv, NEW p \in Procs, Holds(p),
         NEW r \in ProcState, ProcOK(p, r), r.at \notin InConnect, r.at # "pollWait",
         r.req # "broken", r.cl = NoClient \/ r.cl = proc[p].cl \/ connected(cur),
         NEW s \in {"none", "open"},
         ws[cur] = "none" => s = "none", ws[cur] = "open" => s = "open",
         OnTheWire(p, r) => r.cl = cur /\ s = "open",
         proc' = [proc EXCEPT ![p] = r], ws' = [ws EXCEPT ![cur] = s],
         lock' = Tail(lock), cur' = cur, Outside
  PROVE  IInv'
<1>1. lock \in Seq(Connecting) /\ Distinct(lock) /\ lock # <<>> /\ Head(lock) = p
  BY DEF IInv, TypeOK, Queue, Holds
<1>2. /\ lock' \in Seq(Connecting) /\ Distinct(lock')
      /\ \A h : Has(lock', h) <=> Has(lock, h) /\ h # p
  BY <1>1, TailFacts
<1>3. Has(lock, p)
  BY <1>1, TailFacts
<1>4. QED
  BY <1>2, <1>3, Leaves

\* The holder dials with a client c that nobody uses, registers on the one it has
\* dialled with, or waits for its next attempt.
LEMMA HolderMoves ==
  ASSUME IInv, NEW p \in Procs, Holds(p), ws[cur] # "open",
         NEW r \in ProcState, ProcOK(p, r), r.at \in {"dial", "register", "backoff"},
         NEW c \in Clients, NEW s \in {"none", "registering"},
         c = cur \/ (~connected(cur) /\ ws[c] = "none" /\ \A q \in Procs : proc[q].cl # c),
         r.at = "dial" => c # cur,
         s = "registering" => r.at = "register" /\ proc[p].at = "dial" /\ c = cur,
         r.at \in {"dial", "register"} => r.cl = c,
         proc' = [proc EXCEPT ![p] = r], ws' = [ws EXCEPT ![c] = s],
         cur' = c, lock' = lock, Outside
  PROVE  IInv'
<1>1. /\ proc' \in [Procs -> ProcState] /\ proc'[p] = r
      /\ \A q \in Procs : q # p => proc'[q] = proc[q]
      /\ r.req = "none" /\ r.at \in InConnect /\ r.at # "pollWait"
  BY DEF IInv, TypeOK, ProcOK, Silent, InConnect
<1>2. /\ ws' \in [Clients -> {"none", "registering", "open"}] /\ ws'[c] = s
      /\ \A d \in Clients : d # c => ws'[d] = ws[d]
  BY DEF IInv, TypeOK
<1>3. TypeOK'
  BY <1>1, <1>2 DEF IInv, TypeOK, Outside
<1>4. \A q \in Procs : ProcOK(q, proc'[q])
  BY <1>1 DEF IInv
<1>5. OneSocket'
  BY <1>2 DEF IInv, TypeOK, OneSocket, connected
<1>6. \A q \in Procs : proc'[q].at \in {"dial", "register", "backoff"} => q = p
  BY <1>1, HeadFacts
<1>7. Queue'
  <2>1. Has(lock, p)
    BY HeadFacts
  <2>2. QED
    BY <1>1, <1>6, <2>1 DEF IInv, Queue, Holds
<1>8. Dialling'
  BY <1>1, <1>2, <1>6 DEF Dialling, connected
<1>9. Registering'
  BY <1>1, <1>2 DEF Registering
<1>10. ASSUME NEW q \in Procs, q # p
       PROVE  /\ ~OnTheWire(q, proc[q])
              /\ proc[q].cl = c => s = "none"
  BY <1>10 DEF IInv, Asked, Alone, OneSocket, OnTheWire, ProcOK, connected
<1>11. Asked'
  BY <1>1, <1>10 DEF Asked, OnTheWire
<1>12. Broken' /\ Polling'
  BY <1>1, <1>2, <1>10 DEF IInv, Broken, Polling, ProcOK
<1>13. Alone'
  BY <1>1, <1>6 DEF Alone
<1>14. QED
  BY <1>3, <1>4, <1>5, <1>7, <1>8, <1>9, <1>11, <1>12, <1>13 DEF IInv

LEMMA FirstAskFacts ==
  ASSUME NEW p
  PROVE  FirstAsk(p) \in Awaits \ Silent /\ FirstAsk(p) \in {"unblank", "request", "getState"}
BY DEF FirstAsk, Awaits, Silent, InConnect

LEMMA ReusesIInv == ASSUME IInv, NEW p \in Procs, Reuses(p) PROVE IInv'
<1> DEFINE r == Asks(p, cur, FirstAsk(p))
<1>1. /\ Holds(p) /\ proc[p].at = "lock" /\ connected(cur) /\ cur \in Clients
      /\ proc[p] \in ProcState /\ proc[p].n = 0
  BY DEF Reuses, IInv, TypeOK, ProcOK, Counted
<1>2. ws[cur] = "open"
  BY <1>1, HeadFacts DEF IInv, TypeOK, Registering, connected
<1>3. /\ r \in ProcState /\ r.at \in {"unblank", "request", "getState"} /\ r.cl = cur
      /\ r.req = "sent" /\ ProcOK(p, r)
  BY <1>1, AsksFacts, FirstAskFacts
<1>4. /\ proc' = [proc EXCEPT ![p] = r] /\ ws' = [ws EXCEPT ![cur] = "open"]
      /\ lock' = Tail(lock) /\ cur' = cur /\ Outside
  BY <1>2 DEF Reuses, Outside, IInv, TypeOK
<1> HIDE DEF r
<1>5. r.at \notin InConnect /\ r.at # "pollWait"
  BY <1>3 DEF InConnect
<1>6. QED
  BY <1>1, <1>2, <1>3, <1>4, <1>5, HolderLeaves

LEMMA DialsIInv ==
  ASSUME IInv, NEW p \in Procs, Holds(p), proc[p].at \in InConnect, ~connected(cur),
         NEW c \in NewClients, NEW n \in 1..attempts(p), Dials(p, c, n),
         ws' = ws, lock' = lock, Outside
  PROVE  IInv'
<1> DEFINE r == [proc[p] EXCEPT !.at = "dial", !.cl = c, !.n = n]
<1>1. /\ proc[p] \in ProcState /\ proc[p].req = "none" /\ n \in 0..Attempts
      /\ attempts(p) \in Nat
  BY AttemptsBound, HeadFacts, SessionAssumption DEF IInv, TypeOK
<1>2. c \in Clients /\ c # cur /\ ws[c] = "none" /\ \A q \in Procs : proc[q].cl # c
  BY DEF NewClients, Unused
<1>3. /\ r \in ProcState /\ r.at = "dial" /\ r.cl = c /\ r.n = n /\ r.req = "none"
  BY <1>1, <1>2 DEF ProcState, Awaits
<1>4. proc' = [proc EXCEPT ![p] = r] /\ ws' = [ws EXCEPT ![c] = "none"] /\ cur' = c
  BY <1>2 DEF Dials, IInv, TypeOK
<1> HIDE DEF r
<1>5. ProcOK(p, r)
  BY <1>1, <1>3 DEF ProcOK, Counted
<1>6. ws[cur] # "open"
  BY DEF connected
<1>7. QED
  BY <1>2, <1>3, <1>4, <1>5, <1>6, HolderMoves

LEMMA FirstAttemptIInv ==
  ASSUME IInv, NEW p \in Procs, NEW c \in NewClients, FirstAttempt(p, c) PROVE IInv'
<1>1. 1 \in 1..attempts(p)
  BY SessionAssumption DEF attempts
<1>2. Holds(p) /\ proc[p].at \in InConnect /\ ~connected(cur)
  BY DEF FirstAttempt, MayDial, InConnect
<1>3. Dials(p, c, 1) /\ ws' = ws /\ lock' = lock /\ Outside
  BY DEF FirstAttempt, Outside, IInv, TypeOK, wakes
<1>4. QED
  BY <1>1, <1>2, <1>3, DialsIInv

LEMMA NextAttemptIInv ==
  ASSUME IInv, NEW p \in Procs, NEW c \in NewClients, NextAttempt(p, c) PROVE IInv'
<1>1. /\ proc[p].at = "backoff" /\ proc[p].n \in Nat /\ proc[p].n < attempts(p)
      /\ attempts(p) \in Nat
  BY AttemptsBound, SessionAssumption
  DEF NextAttempt, IInv, TypeOK, ProcOK, Counted, ProcState
<1>2. proc[p].n + 1 \in 1..attempts(p)
  BY <1>1
<1>3. Holds(p) /\ proc[p].at \in InConnect /\ ~connected(cur)
  BY <1>1 DEF IInv, Queue, Dialling, InConnect
<1>4. Dials(p, c, proc[p].n + 1) /\ ws' = ws /\ lock' = lock /\ Outside
  BY DEF NextAttempt, Outside, IInv, TypeOK
<1>5. QED
  BY <1>2, <1>3, <1>4, DialsIInv

LEMMA DialOkIInv == ASSUME IInv, NEW p \in Procs, DialOk(p) PROVE IInv'
<1> DEFINE r == [proc[p] EXCEPT !.at = "register"]
<1>1. /\ proc[p].at = "dial" /\ Holds(p) /\ proc[p].cl = cur /\ ~connected(cur)
      /\ proc[p] \in ProcState /\ ProcOK(p, proc[p]) /\ proc[p].req = "none"
      /\ cur \in Clients
  BY DEF DialOk, IInv, TypeOK, Queue, Dialling, ProcOK, Silent, InConnect
<1>2. /\ r \in ProcState /\ r.at = "register" /\ r.cl = cur /\ r.n = proc[p].n
      /\ r.req = "none"
  BY <1>1 DEF ProcState, Awaits
<1>3. /\ proc' = [proc EXCEPT ![p] = r] /\ ws' = [ws EXCEPT ![cur] = "registering"]
      /\ cur' = cur /\ lock' = lock /\ Outside
  BY <1>1 DEF DialOk, Outside, IInv, TypeOK
<1> HIDE DEF r
<1>4. ProcOK(p, r)
  BY <1>1, <1>2 DEF ProcOK, Counted
<1>5. ws[cur] # "open"
  BY <1>1 DEF connected
<1>6. QED
  BY <1>1, <1>2, <1>3, <1>4, <1>5, HolderMoves

LEMMA RegisterOkIInv == ASSUME IInv, NEW p \in Procs, RegisterOk(p) PROVE IInv'
<1> DEFINE a == Asks(p, cur, FirstAsk(p))
           r == [a EXCEPT !.n = 0]
<1>1. /\ proc[p].at = "register" /\ Holds(p) /\ proc[p].cl = cur /\ ws[cur] = "registering"
      /\ proc[p] \in ProcState /\ cur \in Clients
  BY DEF RegisterOk, IInv, TypeOK, Queue
<1>2. /\ a \in ProcState /\ a.at \in {"unblank", "request", "getState"} /\ a.cl = cur
      /\ a.req = "sent"
  BY <1>1, AsksFacts, FirstAskFacts DEF connected
<1>3. /\ proc' = [proc EXCEPT ![p] = r] /\ ws' = [ws EXCEPT ![cur] = "open"]
      /\ lock' = Tail(lock) /\ cur' = cur /\ Outside
  BY <1>1 DEF RegisterOk, Outside, IInv, TypeOK
<1> HIDE DEF a
<1>4. /\ r \in ProcState /\ r.at \in {"unblank", "request", "getState"} /\ r.cl = cur
      /\ r.req = "sent" /\ r.n = 0
  BY <1>2, SessionAssumption DEF ProcState
<1> HIDE DEF r
<1>5. ProcOK(p, r) /\ r.at \notin InConnect /\ r.at # "pollWait"
  BY <1>1, <1>4 DEF ProcOK, Counted, Silent, InConnect
<1>6. QED
  BY <1>1, <1>3, <1>4, <1>5, HolderLeaves

\* connect() gives up.
LEMMA GivesUp ==
  ASSUME IInv, NEW p \in Procs, Holds(p), proc[p].at \in {"dial", "register"},
         ws' = [ws EXCEPT ![proc[p].cl] = "none"], proc' = Without(p), lock' = Tail(lock),
         cur' = cur, Outside
  PROVE  IInv'
<1>1. proc[p].cl = cur /\ ws[cur] # "open"
  BY DEF IInv, Queue, Dialling, connected
<1>2. /\ Idle \in ProcState /\ ProcOK(p, Idle) /\ Idle.at \notin InConnect
      /\ Idle.at # "pollWait" /\ Idle.req = "none" /\ Idle.cl = NoClient
      /\ ~OnTheWire(p, Idle)
  BY IdleOK DEF InConnect, OnTheWire
<1>3. proc' = [proc EXCEPT ![p] = Idle] /\ ws' = [ws EXCEPT ![cur] = "none"]
  BY <1>1 DEF Without
<1>4. QED
  BY <1>1, <1>2, <1>3, HolderLeaves

LEMMA AttemptFailsIInv == ASSUME IInv, NEW p \in Procs, AttemptFails(p) PROVE IInv'
<1>1. /\ proc[p].at \in {"dial", "register"} /\ Holds(p) /\ proc[p].cl = cur
      /\ ws[cur] # "open" /\ cur \in Clients
      /\ proc[p] \in ProcState /\ proc[p].n \in Nat /\ proc[p].req = "none"
      /\ attempts(p) \in Nat
  BY AttemptsBound, SessionAssumption
  DEF AttemptFails, IInv, TypeOK, Queue, Dialling, connected, ProcState, ProcOK, Silent, InConnect
<1>2. cur' = cur /\ Outside
  BY DEF AttemptFails, Outside, IInv, TypeOK, wakes
<1>3. CASE proc[p].n >= attempts(p)
  <2>1. /\ ws' = [ws EXCEPT ![proc[p].cl] = "none"]
        /\ proc' = Without(p) /\ lock' = Tail(lock)
    BY <1>3 DEF AttemptFails
  <2>2. QED
    BY <1>1, <1>2, <2>1, GivesUp
<1>4. CASE ~(proc[p].n >= attempts(p))
  <2> DEFINE r == [proc[p] EXCEPT !.at = "backoff", !.cl = NoClient]
  <2>1. /\ r \in ProcState /\ r.at = "backoff" /\ r.n = proc[p].n /\ r.req = "none"
    BY <1>1 DEF ProcState, Awaits
  <2>2. /\ proc' = [proc EXCEPT ![p] = r] /\ ws' = [ws EXCEPT ![cur] = "none"]
        /\ lock' = lock
    BY <1>1, <1>4 DEF AttemptFails
  <2> HIDE DEF r
  <2>3. ProcOK(p, r)
    BY <1>1, <1>4, <2>1 DEF ProcOK, Counted
  <2>4. QED
    BY <1>1, <1>2, <2>1, <2>2, <2>3, HolderMoves
<1>5. QED
  BY <1>3, <1>4

LEMMA KeyRejectedIInv == ASSUME IInv, NEW p \in Procs, KeyRejected(p) PROVE IInv'
<1>1. Holds(p) /\ proc[p].at \in {"dial", "register"}
  BY DEF KeyRejected, IInv, Queue
<1>2. QED
  BY <1>1, GivesUp DEF KeyRejected, Outside, IInv, TypeOK

\* A cancelled operation: inside connect() it leaves the lock or its queue.
LEMMA CancelledIInv == ASSUME IInv, NEW p \in Procs, Cancelled(p) PROVE IInv'
<1>1. cur' = cur /\ Outside /\ proc' = Without(p) /\ LeavesLock(p)
  BY DEF Cancelled, Outside, IInv, TypeOK
<1>2. CASE ~Has(lock, p)
  <2>1. proc[p].at \notin InConnect
    BY <1>2 DEF IInv, Queue
  <2>2. ws' = ws /\ lock' = lock
    BY <1>1, <1>2, <2>1 DEF Cancelled, LeavesLock, Has, InConnect
  <2>3. QED
    BY <1>1, <2>1, <2>2, QuietWithout, Steady
<1>3. CASE Has(lock, p)
  <2> DEFINE k == CHOOSE i \in 1..Len(lock) : lock[i] = p
  <2>1. k \in 1..Len(lock) /\ lock[k] = p
    BY <1>3 DEF Has
  <2>2. lock' = [i \in 1..(Len(lock) - 1) |-> IF i < k THEN lock[i] ELSE lock[i + 1]]
    BY <1>1, <1>3 DEF LeavesLock, Has
  <2> HIDE DEF k
  <2>3. lock \in Seq(Connecting) /\ Distinct(lock)
    BY DEF IInv, TypeOK, Queue
  <2>4. /\ lock' \in Seq(Connecting) /\ Distinct(lock')
        /\ \A h : Has(lock', h) <=> Has(lock, h) /\ h # p
        /\ k # 1 => lock' # <<>> /\ Head(lock') = Head(lock)
    <3> DEFINE r == [i \in 1..(Len(lock) - 1) |-> IF i < k THEN lock[i] ELSE lock[i + 1]]
    <3>1. /\ r \in Seq(Connecting) /\ Distinct(r)
          /\ \A h : Has(r, h) <=> Has(lock, h) /\ h # lock[k]
          /\ k # 1 => r # <<>> /\ Head(r) = Head(lock)
      BY <2>1, <2>3, RemoveFacts
    <3>2. lock' = r
      BY <2>2
    <3> HIDE DEF r
    <3>3. QED
      BY <2>1, <3>1, <3>2
  <2>5. k = 1 => Holds(p)
    BY <2>1, <2>3 DEF Holds
  <2>6. PICK s \in {ws[cur], "none"} :
          /\ ws' = [ws EXCEPT ![cur] = s]
          /\ s # ws[cur] => Holds(p) /\ ws[cur] # "open"
          /\ s # "registering" \/ ~Holds(p)
    <3>1. CASE proc[p].at = "register"
      <4>1. proc[p].cl = cur /\ Holds(p) /\ ws[cur] # "open"
        BY <3>1 DEF IInv, Queue, Dialling
      <4>2. QED
        BY <3>1, <4>1 DEF Cancelled
    <3>2. CASE proc[p].at # "register"
      <4>1. ws' = [ws EXCEPT ![cur] = ws[cur]]
        BY <3>2 DEF Cancelled, IInv, TypeOK
      <4>2. Holds(p) => ws[cur] # "registering"
        BY <3>2, HeadFacts DEF IInv, Registering
      <4>3. QED
        BY <4>1, <4>2
    <3>3. QED
      BY <3>1, <3>2
  <2>7. /\ Idle \in ProcState /\ ProcOK(p, Idle) /\ Idle.at \notin InConnect
        /\ Idle.at # "pollWait" /\ Idle.req = "none" /\ Idle.cl = NoClient
        /\ ~OnTheWire(p, Idle)
    BY IdleOK DEF InConnect, OnTheWire
  <2>8. proc' = [proc EXCEPT ![p] = Idle]
    BY <1>1 DEF Without
  <2>9. QED
    BY <1>1, <1>3, <2>4, <2>5, <2>6, <2>7, <2>8, Leaves
<1>4. QED
  BY <1>2, <1>3

-----------------------------------------------------------------------------
(* Invariance                                                              *)

LEMMA InitIInv == Init => IInv
<1> SUFFICES ASSUME Init PROVE IInv
  OBVIOUS
<1>1. \A p \in Procs : /\ Idle \in ProcState /\ ProcOK(p, Idle) /\ Idle.at = "idle"
                       /\ Idle.req = "none" /\ Idle.cl = NoClient
  BY IdleOK
<1>2. /\ \A p \in Procs : proc[p] = Idle
      /\ \A c \in Clients : ws[c] = "none"
      /\ lock = <<>> /\ cur \in Clients
  BY DEF Init
<1>3. TypeOK
  <2>1. proc \in [Procs -> ProcState]
    BY <1>1 DEF Init
  <2>2. lock \in Seq(Connecting) /\ ws \in [Clients -> {"none", "registering", "open"}]
    BY DEF Init
  <2>3. users \in Scenarios /\ mode \in Modes /\ magic \in BOOLEAN
        /\ tv \in PowerStates \cup {"Off"}
    BY DEF Init
  <2>4. QED
    BY <1>2, <2>1, <2>2, <2>3 DEF TypeOK
<1>4. \A h : ~Has(lock, h)
  BY <1>2 DEF Has
<1>5. Queue
  BY <1>1, <1>2, <1>4 DEF Queue, Distinct, InConnect
<1>6. OneSocket /\ Dialling /\ Registering /\ Asked /\ Broken /\ Polling /\ Alone
  BY <1>1, <1>2
  DEF OneSocket, Dialling, Registering, Asked, Broken, Polling, Alone, connected, OnTheWire
<1>7. QED
  BY <1>1, <1>2, <1>3, <1>5, <1>6 DEF IInv

LEMMA ConnectsIInv == ASSUME IInv, NEW p \in Procs, Connects(p) PROVE IInv'
BY ReusesIInv, DialOkIInv, RegisterOkIInv, AttemptFailsIInv, KeyRejectedIInv,
   FirstAttemptIInv, NextAttemptIInv DEF Connects

LEMMA NextIInv == IInv /\ [Next]_vars => IInv'
<1> SUFFICES ASSUME IInv, [Next]_vars PROVE IInv'
  OBVIOUS
<1>1. CASE Request
  BY <1>1, StartIInv DEF Request, Connecting
<1>2. CASE ProbeStarts
  BY <1>2, ProbeStartsIInv
<1>3. CASE Environment
  BY <1>3, EnvironmentIInv
<1>4. ASSUME NEW p \in Procs, TvHandles(p) PROVE IInv'
  BY <1>4, TvHandlesIInv
<1>5. CASE OnSteps \/ OffSteps \/ ExecSteps
  BY <1>5, ConnectsIInv, OperationFailsIInv, OnAnsweredIInv, PollAgainIInv, OffAnsweredIInv,
     ExecAnsweredIInv DEF OnSteps, OffSteps, ExecSteps, Procs, Connecting
<1>6. CASE KeepaliveSteps
  BY <1>6, KeepaliveIInv
<1>7. CASE ProbeSteps
  BY <1>7, ProbeIInv
<1>8. ASSUME NEW p \in {"on", "off"}, Cancelled(p) PROVE IInv'
  BY <1>8, CancelledIInv DEF Procs
<1>9. CASE UNCHANGED vars
  <2>1. Quieter(proc', ws')
    BY <1>9, QuietSelf DEF vars
  <2>2. QED
    BY <1>9, <2>1, Steady DEF vars, Outside, IInv, TypeOK
<1>10. QED
  BY <1>1, <1>2, <1>3, <1>4, <1>5, <1>6, <1>7, <1>8, <1>9 DEF Next

LEMMA InvariantIInv == Spec => []IInv
BY InitIInv, NextIInv, PTL DEF Spec

\* Types, and the bounds on attempts and polls.
THEOREM TypeCorrect == Spec => []TypeOK
<1>1. IInv => TypeOK
  BY DEF IInv
<1>2. QED
  BY <1>1, InvariantIInv, PTL

\* The session never loses track of a socket.
THEOREM OneSocketHolds == Spec => []OneSocket
<1>1. IInv => OneSocket
  BY DEF IInv
<1>2. QED
  BY <1>1, InvariantIInv, PTL

\* Whoever is inside connect() is in the lock's queue, once, and nobody else is;
\* only its head dials and registers.
THEOREM LockProtectsConnectHolds == Spec => []LockProtectsConnect
<1>1. IInv => LockProtectsConnect
  BY QueueIsLock DEF IInv
<1>2. QED
  BY <1>1, InvariantIInv, PTL

\* The lock survives every way out of connect(): the invariant that the run checks, for
\* any clients, attempts and polls.
THEOREM InvHolds == Spec => []Inv
<1>1. IInv => Inv
  BY QueueIsLock DEF Inv, IInv
<1>2. QED
  BY <1>1, InvariantIInv, PTL

-----------------------------------------------------------------------------
(* No operation that ends takes the connection from one still running      *)

CutShort == \E p \in Procs : proc[p].req \in {"sent", "handled"} /\ proc'[p].req = "broken"

\* One coroutine moves, and had no request out or has one that can be answered.
LEMMA OneMoves ==
  ASSUME NEW p \in Procs, NEW r, proc \in [Procs -> ProcState],
         proc' = [proc EXCEPT ![p] = r], proc[p].req = "none" \/ r.req # "broken"
  PROVE  ~CutShort
BY DEF CutShort

LEMMA WithoutKeeps ==
  ASSUME IInv, NEW p \in Procs, proc' = Without(p)
  PROVE  ~CutShort
BY OneMoves, IdleOK DEF Without, IInv, TypeOK

\* settle() closes a connection only under the "off" policy.
LEMMA SettlesKeeps ==
  ASSUME IInv, NEW p \in Procs, Settles(p), mode # "off"
  PROVE  ~CutShort
<1>1. CASE proc' = Without(p)
  BY <1>1, WithoutKeeps
<1>2. CASE proc' = [Without(p) EXCEPT !["keepalive"].at = "sleep"]
  <2>1. \A q \in Procs : Without(p)[q].req \in {proc[q].req, "none"}
    BY IdleOK DEF Without, IInv, TypeOK
  <2>2. Without(p) \in [Procs -> ProcState]
    BY IdleOK DEF Without, IInv, TypeOK
  <2>3. \A q \in Procs : proc'[q].req = Without(p)[q].req
    BY <1>2, <2>2 DEF ProcState
  <2>4. QED
    BY <2>1, <2>3 DEF CutShort
<1>3. mode \in {"keep_open", "keepalive"}
  BY SessionAssumption DEF IInv, TypeOK
<1>4. QED
  BY <1>1, <1>2, <1>3 DEF Settles, StartsKeepalive

\* A request whose socket is open is followed by one that can be answered.
LEMMA ContinuesKeeps ==
  ASSUME IInv, NEW p \in Procs, NEW ask \in Awaits \ Silent, Continues(p, ask),
         proc[p].req \in {"sent", "handled"} => ws[proc[p].cl] = "open",
         proc[p].req # "none"
  PROVE  ~CutShort
<1>1. proc[p].cl \in Clients /\ proc[p] \in ProcState
  BY DEF IInv, TypeOK, ProcOK
<1>2. CASE proc[p].req \in {"sent", "handled"}
  <2>1. Asks(p, proc[p].cl, ask).req = "sent"
    BY <1>1, <1>2, AsksFacts DEF connected
  <2>2. QED
    BY <2>1, OneMoves DEF Continues, IInv, TypeOK
<1>3. CASE proc[p].req = "broken"
  BY <1>3 DEF Continues, CutShort, IInv, TypeOK
<1>4. QED
  BY <1>1, <1>2, <1>3 DEF ProcState

\* The probe's verdict starts an operation at most.
LEMMA VerdictKeeps ==
  ASSUME IInv, NEW st, Verdict(Without("probe"), st)
  PROVE  ~CutShort
<1>1. CASE proc' = Without("probe")
  BY <1>1, WithoutKeeps DEF Procs
<1>2. CASE proc' = [Without("probe") EXCEPT
                      !["on"] = [Idle EXCEPT !.at = "lock", !.op = "power_on"]]
  <2>1. \A q \in Procs : proc'[q].req \in {proc[q].req, "none"}
    BY <1>2, IdleOK DEF Without, IInv, TypeOK, Idle
  <2>2. QED
    BY <2>1 DEF CutShort
<1>3. QED
  BY <1>1, <1>2 DEF Verdict

LEMMA ConnectsKeeps ==
  ASSUME IInv, NEW p \in Connecting, Connects(p) \/ PollAgain
  PROVE  ~CutShort
<1>1. p \in Procs /\ "on" \in Procs /\ proc \in [Procs -> ProcState]
  BY DEF Procs, Connecting, IInv, TypeOK
<1>2. CASE PollAgain
  <2>1. proc["on"].req = "none"
    BY <1>1, <1>2 DEF PollAgain, IInv, ProcOK, Silent
  <2>2. QED
    BY <1>1, <1>2, <2>1, OneMoves DEF PollAgain
<1>3. CASE Connects(p)
  <2>1. proc[p].at \in InConnect /\ proc[p].req = "none"
    BY <1>1, <1>3 DEF Connects, Reuses, DialOk, RegisterOk, AttemptFails, KeyRejected,
       FirstAttempt, NextAttempt, MayDial, InConnect, IInv, ProcOK, Silent
  <2>2. \A q \in Procs : q # p => proc'[q] = proc[q]
    BY <1>1, <1>3 DEF Connects, Reuses, DialOk, RegisterOk, AttemptFails, KeyRejected,
       FirstAttempt, NextAttempt, Dials, Without
  <2>3. QED
    BY <2>1, <2>2 DEF CutShort
<1>4. QED
  BY <1>2, <1>3

LEMMA OperationFailsKeeps ==
  ASSUME IInv, NEW p \in Connecting, OperationFails(p), mode # "off"
  PROVE  ~CutShort
<1>1. p \in Procs
  BY DEF Procs, Connecting
<1>2. CASE proc[p].at = "guard"
  <2>1. Darkens(proc[p].op) \in Awaits \ Silent
    BY DEF Darkens, Awaits, Silent, InConnect
  <2>2. proc[p].req \in {"sent", "handled"} => ws[proc[p].cl] = "open"
    BY <1>1 DEF IInv, Asked, OnTheWire
  <2>3. QED
    BY <1>1, <1>2, <2>1, <2>2, ContinuesKeeps DEF OperationFails
<1>3. CASE proc[p].at # "guard"
  BY <1>1, <1>3, SettlesKeeps, WithoutKeeps DEF OperationFails, Raises
<1>4. QED
  BY <1>2, <1>3

LEMMA OnAnsweredKeeps ==
  ASSUME IInv, OnAnswered, mode # "off"
  PROVE  ~CutShort
<1>1. "on" \in Procs /\ proc["on"].req = "handled" /\ ws[proc["on"].cl] = "open"
  BY DEF OnAnswered, Procs, IInv, Asked, OnTheWire
<1>2. CASE \E ask \in {"launch", "toggle", "screenOn", "reread"} : Continues("on", ask)
  BY <1>1, <1>2, ContinuesKeeps DEF Awaits, Silent, InConnect
<1>3. CASE Settles("on")
  BY <1>1, <1>3, SettlesKeeps
<1>4. CASE proc' = [proc EXCEPT !["on"].at = "pollWait", !["on"].req = "none",
                                 !["on"].seen = "none"]
  BY <1>4 DEF CutShort, IInv, TypeOK, ProcState
<1>5. QED
  BY <1>2, <1>3, <1>4 DEF OnAnswered

LEMMA OffAnsweredKeeps ==
  ASSUME IInv, OffAnswered, mode # "off", proc["off"].op # "power_off"
  PROVE  ~CutShort
<1>1. "off" \in Procs /\ proc["off"].req = "handled" /\ ws[proc["off"].cl] = "open"
  BY DEF OffAnswered, Procs, IInv, Asked, OnTheWire
<1>2. CASE \E ask \in {"guard", "screenOff", "turnOff"} : Continues("off", ask)
  BY <1>1, <1>2, ContinuesKeeps DEF Awaits, Silent, InConnect
<1>3. CASE Settles("off")
  BY <1>1, <1>3, SettlesKeeps
<1>4. QED
  BY <1>2, <1>3 DEF OffAnswered, OffEnds, Darkens

LEMMA NextKeeps ==
  ASSUME IInv, [Next]_vars, mode # "off", ~\E c \in Clients : Drop(c),
         ~(proc["off"].op = "power_off" /\ OffAnswered), ~KeepaliveFails, ~ProbeFails
  PROVE  ~CutShort
<1> USE DEF Procs
<1>1. proc \in [Procs -> ProcState]
  BY DEF IInv, TypeOK
<1>2. CASE Request
  BY <1>1, <1>2 DEF Request, Start, CutShort, ProcState
<1>3. CASE ProbeStarts
  BY <1>1, <1>3 DEF ProbeStarts, CutShort, ProcState
<1>4. CASE Environment \/ UNCHANGED vars
  BY <1>4 DEF Environment, MagicArrives, Remote, Reload, vars, CutShort
<1>5. ASSUME NEW p \in Procs, TvHandles(p) PROVE ~CutShort
  BY <1>1, <1>5 DEF TvHandles, CutShort, ProcState
<1>6. CASE OnSteps \/ OffSteps \/ ExecSteps
  <2>1. CASE \E p \in Connecting : Connects(p) \/ PollAgain
    BY <2>1, ConnectsKeeps
  <2>2. CASE \E p \in Connecting : OperationFails(p)
    BY <2>2, OperationFailsKeeps
  <2>3. CASE OnAnswered \/ OffAnswered
    BY <2>3, OnAnsweredKeeps, OffAnsweredKeeps
  <2>4. CASE ExecAnswered
    BY <2>4, SettlesKeeps DEF ExecAnswered
  <2>5. QED
    BY <1>6, <2>1, <2>2, <2>3, <2>4 DEF OnSteps, OffSteps, ExecSteps, Connecting
<1>7. CASE KeepaliveTick \/ KeepaliveAnswered
  <2>1. CASE KeepaliveTick
    <3>1. proc["keepalive"].req = "none"
      BY <2>1 DEF KeepaliveTick, IInv, ProcOK, Silent
    <3>2. QED
      BY <1>1, <2>1, <3>1, OneMoves DEF KeepaliveTick, Without
  <2>2. CASE KeepaliveAnswered
    BY <1>1, <2>2, OneMoves DEF KeepaliveAnswered, Idle
  <2>3. QED
    BY <1>7, <2>1, <2>2
<1>8. CASE ProbeLooks \/ ProbeAnswered \/ ProbeThrowaway
  <2>1. CASE ProbeLooks
    <3>1. proc["probe"].req = "none"
      BY <2>1 DEF ProbeLooks, IInv, ProcOK, Silent
    <3>2. \A q \in Procs : q # "probe" => proc'[q] = proc[q]
      BY <1>1, <2>1 DEF ProbeLooks
    <3>3. QED
      BY <3>1, <3>2 DEF CutShort
  <2>2. CASE ProbeAnswered \/ ProbeThrowaway
    BY <2>2, VerdictKeeps DEF ProbeAnswered, ProbeThrowaway
  <2>3. QED
    BY <1>8, <2>1, <2>2
<1>9. ASSUME NEW p \in {"on", "off"}, Cancelled(p) PROVE ~CutShort
  BY <1>9, WithoutKeeps DEF Cancelled
<1>10. QED
  BY <1>2, <1>3, <1>4, <1>5, <1>6, <1>7, <1>8, <1>9 DEF Next, KeepaliveSteps, ProbeSteps

\* A request in flight is cut short only by the excuses of the property: no other
\* operation that ends, in whatever order, takes the connection away.
THEOREM RequestsKeepConnectionHolds == Spec => RequestsKeepConnection
<1>1. IInv /\ [Next]_vars =>
        [ (\E p \in Procs : proc[p].req \in {"sent", "handled"} /\ proc'[p].req = "broken")
          => \/ mode = "off"
             \/ \E c \in Clients : Drop(c)
             \/ proc["off"].op = "power_off" /\ OffAnswered
             \/ KeepaliveFails \/ ProbeFails ]_vars
  BY NextKeeps DEF CutShort
<1>2. QED
  BY <1>1, InvariantIInv, PTL DEF Spec, RequestsKeepConnection

=============================================================================
