--------------------------- MODULE RateLimiterProofs ---------------------------
(***************************************************************************)
(* Proofs about RateLimiter, for every number of requests, replicas and     *)
(* ticks and every limit, with any number of crashes, failing commands,     *)
(* lost answers and answers without a result.                              *)
(***************************************************************************)
EXTENDS RateLimiter, TLAPS

\* The count a bucket takes next, and what INCR answers.
LEMMA SuccType == ASSUME NEW n \in Nat PROVE Succ(n) \in Nat /\ Succ(n) > 0
BY LimitAssumption DEF Succ

\* An answered request has a place, or an answer of Upstash without one; the
\* present key knows those it counted and the places it let through, so INCR
\* answers a place nobody has.
Counted ==
  /\ \A r \in Requests : step[r] \in {"expire", "ttl"} =>
       place[r] > 0 \/ (backend = "upstash" /\ place[r] = NoResult)
  /\ \A r \in current : step[r] \in {"expire", "ttl"} /\ place[r] # NoResult
  /\ admitted \subseteq 1..count

IInv == TypeOK /\ WindowLimit /\ AdmittedIsAnswered /\ Counted

LEMMA InitInv == Init => IInv
BY LimitAssumption
   DEF Init, IInv, TypeOK, WindowLimit, AdmittedIsAnswered, Counted, NoTtl, Commands, Answers

\* What an answer without Redis does to the request and to its replica's bucket.
LEMMA MemoryStep ==
  ASSUME TypeOK, NEW r \in Requests, MemoryIncrement(ReplicaOf[r])
  PROVE  bucket' \in [Replicas -> [count : Nat, left : 0..Window]]
<1> DEFINE p == ReplicaOf[r]
<1>1. p \in Replicas
  BY LimitAssumption
<1>2. MemoryCount(p) \in Nat /\ bucket[p].left \in 0..Window
  BY <1>1, SuccType DEF TypeOK, MemoryCount
<1>3. [count |-> MemoryCount(p), left |-> IF bucket[p].left = 0 THEN Window ELSE bucket[p].left]
        \in [count : Nat, left : 0..Window]
  BY <1>2, LimitAssumption
<1> QED
  BY <1>1, <1>3 DEF TypeOK, MemoryIncrement

\* The catch: the request has no place, and in production no way through.
LEMMA UnavailableStep ==
  ASSUME TypeOK, NEW r \in Requests, Unavailable(r)
  PROVE  /\ bucket' \in [Replicas -> [count : Nat, left : 0..Window]]
         /\ place' = [place EXCEPT ![r] = 0]
         /\ \E s \in {"admitted", "refused"} :
              Goto(r, s) /\ (production => s = "refused")
<1>1. CASE production
  BY <1>1 DEF Unavailable, TypeOK
<1>2. CASE ~production
  BY <1>2, MemoryStep DEF Unavailable
<1> QED
  BY <1>1, <1>2

\* A request that ends without Redis leaves the key's bookkeeping in order.
LEMMA EndStep ==
  ASSUME IInv, NEW r \in Requests, NEW s \in {"admitted", "refused", "limited"},
         Goto(r, s), UNCHANGED config, production => s = "refused",
         place' = [place EXCEPT ![r] = 0], admitted' = admitted,
         count' \in Nat, count' >= count, current' = current \ {r}
  PROVE  /\ WindowLimit' /\ AdmittedIsAnswered' /\ Counted'
         /\ step' \in [Requests -> {"idle"} \cup Commands \cup Answers]
         /\ place' \in [Requests -> Nat \cup {NoResult}]
<1> USE DEF IInv, TypeOK, Goto, config
<1>1. step' \in [Requests -> {"idle"} \cup Commands \cup Answers] /\ place' \in [Requests -> Nat \cup {NoResult}]
  BY DEF Answers
<1>2. WindowLimit'
  BY LimitAssumption DEF WindowLimit
<1>3. AdmittedIsAnswered'
  BY DEF AdmittedIsAnswered
<1>4. Counted'
  BY DEF Counted
<1> QED
  BY <1>1, <1>2, <1>3, <1>4

LEMMA ArriveStep ==
  ASSUME IInv, NEW r \in Requests, Arrive(r)
  PROVE  IInv'
<1> USE DEF IInv
<1>0. r \notin current /\ UNCHANGED <<config, key, current, admitted>>
  BY DEF Arrive, Busy, Counted, Commands
<1>1. CASE backend # "none" /\ Goto(r, "incr") /\ UNCHANGED bucket
  <2>1. TypeOK'
    BY <1>0, <1>1 DEF Arrive, Goto, TypeOK, Commands, config, key
  <2>2. WindowLimit' /\ AdmittedIsAnswered' /\ Counted'
    BY <1>0, <1>1 DEF Arrive, Goto, TypeOK, WindowLimit, AdmittedIsAnswered, Counted, config, key
  <2> QED
    BY <2>1, <2>2
<1>2. CASE backend = "none" /\ production /\ Goto(r, "refused") /\ UNCHANGED bucket
  <2>1. TypeOK'
    BY <1>0, <1>2 DEF Arrive, Goto, TypeOK, Answers, config, key
  <2>2. WindowLimit' /\ AdmittedIsAnswered' /\ Counted'
    BY <1>0, <1>2 DEF Arrive, Goto, TypeOK, WindowLimit, AdmittedIsAnswered, Counted, config, key
  <2> QED
    BY <2>1, <2>2
<1>3. CASE /\ backend = "none" /\ ~production
           /\ MemoryIncrement(ReplicaOf[r])
           /\ Goto(r, IF Over(MemoryCount(ReplicaOf[r])) THEN "limited" ELSE "admitted")
  <2>1. TypeOK'
    <3>1. bucket' \in [Replicas -> [count : Nat, left : 0..Window]]
      BY <1>3, MemoryStep
    <3> QED
      BY <1>0, <1>3, <3>1 DEF Arrive, Goto, TypeOK, Answers, config, key
  <2>2. PICK s \in {"limited", "admitted"} : Goto(r, s)
    BY <1>3
  <2>3. WindowLimit' /\ AdmittedIsAnswered' /\ Counted'
    BY <1>0, <1>3, <2>2
       DEF Arrive, Goto, TypeOK, WindowLimit, AdmittedIsAnswered, Counted, config, key
  <2> QED
    BY <2>1, <2>3
<1> QED
  BY <1>1, <1>2, <1>3 DEF Arrive

LEMMA IncrStep ==
  ASSUME IInv, NEW r \in Requests, NEW answered \in BOOLEAN, Incr(r, answered)
  PROVE  IInv'
<1> USE DEF IInv
<1>1. Succ(count) \in Nat /\ Succ(count) > 0 /\ Succ(count) >= count
  BY LimitAssumption DEF TypeOK, Succ
<1>2. r \notin current /\ step[r] = "incr" /\ count' = Succ(count)
  BY DEF Incr, Counted
<1>3. UNCHANGED <<config, ttl, admitted>>
  BY DEF Incr
<1>4. CASE answered
  <2>1. /\ place' = [place EXCEPT ![r] = Succ(count)]
        /\ current' = current \cup {r} /\ bucket' = bucket
    BY <1>4 DEF Incr
  <2>2. PICK s \in {"expire", "ttl"} : Goto(r, s)
    BY <1>4 DEF Incr, AfterIncr
  <2>3. TypeOK'
    BY <1>1, <1>2, <1>3, <2>1, <2>2 DEF TypeOK, Goto, Commands, config
  <2>4. WindowLimit'
    <3>1. Succ(count) <= Limit => Succ(count) = count + 1
      BY LimitAssumption DEF TypeOK, Succ
    <3>2. \A q \in current : place'[q] = place[q] /\ place'[r] = Succ(count)
      BY <1>2, <2>1 DEF TypeOK
    <3>3. \A q \in current : Succ(count) <= Limit => place[q] # Succ(count)
      BY <3>1 DEF WindowLimit, TypeOK
    <3>4. Succ(count) <= Limit => Succ(count) \notin admitted
      BY <3>1 DEF Counted, TypeOK
    <3>5. place'[r] = Succ(count)
      BY <2>1 DEF TypeOK
    <3> QED
      BY <1>1, <1>2, <1>3, <2>1, <3>2, <3>3, <3>4, <3>5 DEF WindowLimit, TypeOK
  <2>5. AdmittedIsAnswered'
    BY <1>3, <2>1, <2>2 DEF AdmittedIsAnswered, Goto, TypeOK, config
  <2>6. Counted'
    BY <1>1, <1>2, <1>3, <2>1, <2>2 DEF Counted, Goto, TypeOK, NoResult, config
  <2> QED
    BY <2>3, <2>4, <2>5, <2>6
<1>5. CASE ~answered
  <2>1. Unavailable(r) /\ current' = current
    BY <1>5 DEF Incr
  <2>2. PICK s \in {"admitted", "refused"} : Goto(r, s) /\ (production => s = "refused")
    BY <2>1, UnavailableStep
  <2>3. place' = [place EXCEPT ![r] = 0] /\ bucket' \in [Replicas -> [count : Nat, left : 0..Window]]
    BY <2>1, UnavailableStep
  <2>4. /\ WindowLimit' /\ AdmittedIsAnswered' /\ Counted'
        /\ step' \in [Requests -> {"idle"} \cup Commands \cup Answers]
        /\ place' \in [Requests -> Nat \cup {NoResult}]
    <3>1. current' = current \ {r} /\ UNCHANGED config /\ admitted' = admitted
      BY <1>2, <1>3, <2>1
    <3> QED
      BY <1>1, <1>2, <2>2, <2>3, <3>1, EndStep
  <2> QED
    BY <1>1, <1>2, <1>3, <2>1, <2>3, <2>4 DEF TypeOK, config
<1> QED
  BY <1>4, <1>5

LEMMA ExpireStep ==
  ASSUME IInv, NEW r \in Requests, NEW answered \in BOOLEAN, Expire(r, answered)
  PROVE  IInv'
<1> USE DEF IInv
<1>1. /\ step[r] = "expire" /\ UNCHANGED <<config, count, admitted>>
      /\ ttl' = IF count > 0 THEN Window ELSE ttl
  BY DEF Expire
<1>2. ttl' \in {NoTtl} \cup 1..Window /\ (count' = 0 => ttl' = NoTtl)
  BY <1>1, LimitAssumption DEF TypeOK
<1>3. CASE answered
  <2>1. Goto(r, "ttl") /\ UNCHANGED <<bucket, place, current>>
    BY <1>3 DEF Expire
  <2>2. TypeOK'
    BY <1>1, <1>2, <2>1 DEF TypeOK, Goto, Commands, config
  <2>3. WindowLimit' /\ AdmittedIsAnswered' /\ Counted'
    BY <1>1, <2>1 DEF WindowLimit, AdmittedIsAnswered, Counted, Goto, TypeOK, config
  <2> QED
    BY <2>2, <2>3
<1>4. CASE ~answered
  <2>1. Unavailable(r) /\ current' = current \ {r}
    BY <1>4 DEF Expire
  <2>2. PICK s \in {"admitted", "refused"} : Goto(r, s) /\ (production => s = "refused")
    BY <2>1, UnavailableStep
  <2>3. place' = [place EXCEPT ![r] = 0] /\ bucket' \in [Replicas -> [count : Nat, left : 0..Window]]
    BY <2>1, UnavailableStep
  <2>4. /\ WindowLimit' /\ AdmittedIsAnswered' /\ Counted'
        /\ step' \in [Requests -> {"idle"} \cup Commands \cup Answers]
        /\ place' \in [Requests -> Nat \cup {NoResult}]
    <3>1. UNCHANGED config /\ admitted' = admitted /\ count' \in Nat /\ count' >= count
      BY <1>1 DEF config, TypeOK
    <3> QED
      BY <2>1, <2>2, <2>3, <3>1, EndStep
  <2> QED
    BY <1>1, <1>2, <2>1, <2>3, <2>4 DEF TypeOK, config
<1> QED
  BY <1>3, <1>4

\* An answer without result counts the request under no place.
LEMMA BlankIncrStep ==
  ASSUME IInv, NEW r \in Requests, NEW executed \in BOOLEAN, BlankIncr(r, executed)
  PROVE  IInv'
<1> USE DEF IInv
<1>1. Succ(count) \in Nat /\ Succ(count) > 0 /\ Succ(count) >= count
  BY LimitAssumption DEF TypeOK, Succ
<1>2. /\ r \notin current /\ step[r] = "incr" /\ backend = "upstash"
      /\ UNCHANGED <<config, ttl, bucket, current, admitted>>
      /\ place' = [place EXCEPT ![r] = NoResult] /\ Goto(r, "ttl")
  BY DEF BlankIncr, Counted
<1>3. count' \in Nat /\ count' >= count
  BY <1>1 DEF BlankIncr, TypeOK
<1>4. TypeOK'
  BY <1>2, <1>3 DEF TypeOK, Goto, Commands, config
<1>5. WindowLimit'
  BY <1>2, <1>3 DEF WindowLimit, TypeOK
<1>6. AdmittedIsAnswered'
  BY <1>2 DEF AdmittedIsAnswered, Goto, TypeOK, config
<1>7. Counted'
  BY <1>2, <1>3 DEF Counted, Goto, TypeOK, config
<1> QED
  BY <1>4, <1>5, <1>6, <1>7

LEMMA BlankExpireStep ==
  ASSUME IInv, NEW r \in Requests, BlankExpire(r)
  PROVE  IInv'
<1> USE DEF IInv
<1>1. step[r] = "expire" /\ Goto(r, "ttl") /\ UNCHANGED <<config, key, bucket, place, current, admitted>>
  BY DEF BlankExpire
<1>2. TypeOK'
  BY <1>1 DEF TypeOK, Goto, Commands, config, key
<1>3. WindowLimit' /\ AdmittedIsAnswered' /\ Counted'
  BY <1>1 DEF WindowLimit, AdmittedIsAnswered, Counted, Goto, TypeOK, config, key
<1> QED
  BY <1>2, <1>3

\* The decision of an answered request.
LEMMA DecideStep ==
  ASSUME IInv, NEW r \in Requests, step[r] = "ttl", Decide(r),
         current' = current \ {r}, UNCHANGED <<config, key, bucket, place>>
  PROVE  IInv'
<1> USE DEF IInv
<1>1. \/ place[r] \in Nat /\ place[r] > 0 /\ PlaceOf(r) = place[r]
      \/ place[r] = NoResult /\ PlaceOf(r) = 1 /\ r \notin current /\ backend = "upstash"
  BY DEF Counted, TypeOK, PlaceOf, NoResult
<1>2. CASE Over(PlaceOf(r))
  <2>1. Goto(r, "limited") /\ UNCHANGED admitted
    BY <1>2 DEF Decide
  <2>2. TypeOK'
    BY <2>1 DEF TypeOK, Goto, Answers, config, key
  <2>3. WindowLimit' /\ AdmittedIsAnswered' /\ Counted'
    BY <2>1 DEF WindowLimit, AdmittedIsAnswered, Counted, Goto, TypeOK, config, key
  <2> QED
    BY <2>2, <2>3
<1>3. CASE ~Over(PlaceOf(r))
  <2>1. /\ Goto(r, "admitted")
        /\ admitted' = IF r \in current THEN admitted \cup {place[r]} ELSE admitted
    BY <1>3 DEF Decide
  <2>2. \/ place[r] \in 1..Limit
        \/ place[r] = NoResult /\ r \notin current /\ backend = "upstash"
    BY <1>1, <1>3, LimitAssumption DEF Over
  <2>3. TypeOK'
    <3>1. r \in current => place[r] \in Nat
      BY <2>2, LimitAssumption
    <3>2. admitted' \subseteq Nat
      BY <2>1, <3>1 DEF TypeOK
    <3> QED
      BY <2>1, <3>2 DEF TypeOK, Goto, Answers, config, key
  <2>4. WindowLimit'
    <3>1. admitted' \subseteq 1..Limit
      BY <2>1, <2>2 DEF WindowLimit
    <3>2. ASSUME NEW q \in current', place[q] <= Limit
          PROVE  place[q] \in 1..count /\ place[q] \notin admitted'
                 /\ \A s \in current' : place[s] = place[q] => s = q
      <4>1. q \in current /\ q # r
        BY <3>2
      <4>2. r \in current => place[r] # place[q]
        BY <2>2, <3>2, <4>1 DEF WindowLimit
      <4> QED
        BY <2>1, <3>2, <4>1, <4>2 DEF WindowLimit
    <3> QED
      BY <3>1, <3>2 DEF WindowLimit, key
  <2>5. AdmittedIsAnswered'
    BY <2>1, <2>2 DEF AdmittedIsAnswered, Goto, TypeOK, config
  <2>6. Counted'
    <3>1. r \in current => place[r] \in 1..count
      BY <2>2 DEF WindowLimit
    <3> QED
      BY <2>1, <3>1 DEF Counted, Goto, TypeOK, config, key
  <2> QED
    BY <2>3, <2>4, <2>5, <2>6
<1> QED
  BY <1>2, <1>3

LEMMA FailStep ==
  ASSUME IInv, NEW r \in Requests, Fail(r)
  PROVE  IInv'
<1> USE DEF IInv
<1>1. CASE step[r] = "ttl" /\ backend = "direct"
  BY <1>1, DecideStep DEF Fail
<1>2. CASE ~(step[r] = "ttl" /\ backend = "direct")
  <2>1. Unavailable(r) /\ current' = current \ {r} /\ UNCHANGED <<config, key, admitted>>
    BY <1>2 DEF Fail
  <2>2. PICK s \in {"admitted", "refused"} : Goto(r, s) /\ (production => s = "refused")
    BY <2>1, UnavailableStep
  <2>3. place' = [place EXCEPT ![r] = 0] /\ bucket' \in [Replicas -> [count : Nat, left : 0..Window]]
    BY <2>1, UnavailableStep
  <2>4. /\ WindowLimit' /\ AdmittedIsAnswered' /\ Counted'
        /\ step' \in [Requests -> {"idle"} \cup Commands \cup Answers]
        /\ place' \in [Requests -> Nat \cup {NoResult}]
    <3>1. UNCHANGED config /\ admitted' = admitted /\ count' \in Nat /\ count' >= count
      BY <2>1 DEF config, key, TypeOK
    <3> QED
      BY <2>1, <2>2, <2>3, <3>1, EndStep
  <2> QED
    BY <2>1, <2>3, <2>4 DEF TypeOK, config, key
<1> QED
  BY <1>1, <1>2

LEMMA CrashStep ==
  ASSUME IInv, NEW p \in Replicas, Crash(p)
  PROVE  IInv'
<1> USE DEF IInv
<1>1. TypeOK'
  <2>1. [count |-> 0, left |-> 0] \in [count : Nat, left : 0..Window]
    BY LimitAssumption
  <2>2. bucket' \in [Replicas -> [count : Nat, left : 0..Window]]
    BY <2>1 DEF Crash, TypeOK
  <2> QED
    BY <2>2 DEF Crash, TypeOK, config, key
<1>2. WindowLimit'
  BY DEF Crash, WindowLimit, TypeOK, key
<1>3. AdmittedIsAnswered'
  BY DEF Crash, AdmittedIsAnswered, TypeOK, config
<1>4. Counted'
  BY DEF Crash, Counted, TypeOK, config, key
<1> QED
  BY <1>1, <1>2, <1>3, <1>4

LEMMA TickStep ==
  ASSUME IInv, Tick
  PROVE  IInv'
<1> USE DEF IInv
<1>1. bucket' \in [Replicas -> [count : Nat, left : 0..Window]]
  <2>1. ASSUME NEW p \in Replicas
        PROVE  [bucket[p] EXCEPT !.left = IF @ = 0 THEN 0 ELSE @ - 1]
                 \in [count : Nat, left : 0..Window]
    <3>1. bucket[p] \in [count : Nat, left : 0..Window]
      BY DEF TypeOK
    <3>2. (IF bucket[p].left = 0 THEN 0 ELSE bucket[p].left - 1) \in 0..Window
      BY <3>1, LimitAssumption
    <3> QED
      BY <3>1, <3>2
  <2> QED
    BY <2>1 DEF Tick
<1>2. UNCHANGED <<config, step, place>>
  BY DEF Tick
<1>3. CASE ttl = 1
  <2>1. count' = 0 /\ ttl' = NoTtl /\ current' = {} /\ admitted' = {}
    BY <1>3 DEF Tick
  <2> QED
    BY <1>1, <1>2, <2>1
       DEF TypeOK, WindowLimit, AdmittedIsAnswered, Counted, config
<1>4. CASE ttl # 1
  <2>1. UNCHANGED <<count, current, admitted>> /\ ttl' = IF ttl > 1 THEN ttl - 1 ELSE ttl
    BY <1>4 DEF Tick
  <2>2. TypeOK'
    BY <1>1, <1>2, <1>4, <2>1, LimitAssumption DEF TypeOK, NoTtl, config
  <2> QED
    BY <1>2, <2>1, <2>2 DEF WindowLimit, AdmittedIsAnswered, Counted, config
<1> QED
  BY <1>3, <1>4

\* The invariant is inductive.
LEMMA Step == IInv /\ [Next]_vars => IInv'
<1> SUFFICES ASSUME IInv, [Next]_vars PROVE IInv'
  OBVIOUS
<1>1. ASSUME NEW r \in Requests, Arrive(r) PROVE IInv'
  BY <1>1, ArriveStep
<1>2. ASSUME NEW r \in Requests, NEW answered \in BOOLEAN, Incr(r, answered) PROVE IInv'
  BY <1>2, IncrStep
<1>3. ASSUME NEW r \in Requests, NEW answered \in BOOLEAN, Expire(r, answered) PROVE IInv'
  BY <1>3, ExpireStep
<1>4. ASSUME NEW r \in Requests, Ttl(r) PROVE IInv'
  BY <1>4, DecideStep DEF Ttl
<1>5. ASSUME NEW r \in Requests, Fail(r) PROVE IInv'
  BY <1>5, FailStep
<1>6. ASSUME NEW p \in Replicas, Crash(p) PROVE IInv'
  BY <1>6, CrashStep
<1>9. ASSUME NEW r \in Requests, NEW executed \in BOOLEAN, BlankIncr(r, executed) PROVE IInv'
  BY <1>9, BlankIncrStep
<1>10. ASSUME NEW r \in Requests, BlankExpire(r) PROVE IInv'
  BY <1>10, BlankExpireStep
<1>7. CASE Tick
  BY <1>7, TickStep
<1>8. CASE UNCHANGED vars
  BY <1>8 DEF IInv, TypeOK, WindowLimit, AdmittedIsAnswered, Counted, vars, config, key
<1> QED
  BY <1>1, <1>2, <1>3, <1>4, <1>5, <1>6, <1>7, <1>8, <1>9, <1>10 DEF Next, Proceed

LEMMA Invariance == Spec => []IInv
BY InitInv, Step, PTL DEF Spec

\* The key, the buckets and the requests keep their shape.
THEOREM TypeCorrect == Spec => []TypeOK
<1>1. IInv => TypeOK
  BY DEF IInv
<1> QED
  BY <1>1, Invariance, PTL

\* On the places INCR answered, no window of the key lets more requests through
\* than the limit, for any number of replicas, crashes, failing commands, lost
\* answers and answers without a result (which have no place, and no bound).
THEOREM WindowKept == Spec => []WindowLimit
<1>1. IInv => WindowLimit
  BY DEF IInv
<1> QED
  BY <1>1, Invariance, PTL

\* Production is closed under every failing command and lost answer of Redis, and
\* without Redis; open, below the limit and on answers of Upstash without result.
THEOREM FailsClosed == Spec => []AdmittedIsAnswered
<1>1. IInv => AdmittedIsAnswered
  BY DEF IInv
<1> QED
  BY <1>1, Invariance, PTL
=============================================================================
