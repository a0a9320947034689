------------------------------ MODULE RateLimiter ------------------------------
(***************************************************************************)
(* middleware/rateLimit.ts: the requests of one client, handled by several  *)
(* replicas of the server, count themselves in one key of Redis (INCR, then *)
(* EXPIRE by the request that created the key, then TTL), each command       *)
(* awaited.  Redis may be reached directly or through Upstash, whose answers *)
(* may be OK and carry no result, or not be configured: then, and outside   *)
(* production when it fails, a replica counts in its own memory.  Time passes in ticks; the key of another client is   *)
(* another instance of the module.                                          *)
(***************************************************************************)
EXTENDS Integers

CONSTANTS
  Requests,   \* clients' connections: each sends one request after the other
  Replicas,
  ReplicaOf,  \* the replica that handles a request
  Limit,      \* RATE_LIMIT_PER_MINUTE
  Window,     \* ticks in 60 seconds
  MaxCount    \* bound of the model: larger counts are not told apart

ASSUME LimitAssumption ==
  /\ Limit \in Nat \ {0} /\ Window \in Nat \ {0} /\ MaxCount \in Nat /\ MaxCount > Limit
  /\ ReplicaOf \in [Requests -> Replicas]

VARIABLES
  production, \* requireDistributed()
  backend,    \* how Redis is reached, fixed by the environment
  count, ttl, \* the key in Redis: 0 when it does not exist; -1 when it never expires
  bucket,     \* MEMORY_BUCKETS of a replica
  step,       \* the command a request is about to send, or its answer
  place,      \* what INCR answered to it: 0 nothing yet, -1 an answer without result
  current,    \* history: requests counted by the key that now exists
  admitted    \* history: places of that key that were let through

config == <<production, backend>>
key    == <<count, ttl>>
vars   == <<config, key, bucket, step, place, current, admitted>>

Commands == {"incr", "expire", "ttl"}
Answers  == {"admitted", "limited", "refused"}
Busy(r)  == step[r] \in Commands
NoTtl    == -1
NoResult == -1

Init ==
  /\ production \in BOOLEAN
  /\ backend \in {"direct", "upstash", "none"}
  /\ count = 0 /\ ttl = NoTtl
  /\ bucket = [p \in Replicas |-> [count |-> 0, left |-> 0]]
  /\ step = [r \in Requests |-> "idle"]
  /\ place = [r \in Requests |-> 0]
  /\ current = {} /\ admitted = {}

Goto(r, s) == step' = [step EXCEPT ![r] = s]
Succ(n)    == IF n < MaxCount THEN n + 1 ELSE n

-----------------------------------------------------------------------------
\* memoryIncrement(): a bucket whose time is over starts again.
MemoryCount(p) == IF bucket[p].left = 0 THEN 1 ELSE Succ(bucket[p].count)
\* Mutant: every request moves the end of the window.
MutMemoryIncrement(p) ==
  bucket' = [bucket EXCEPT ![p] = [count |-> MemoryCount(p), left |-> @.left + Window]]
MemoryIncrement(p) ==
  bucket' = [bucket EXCEPT ![p] =
    [count |-> MemoryCount(p), left |-> IF @.left = 0 THEN Window ELSE @.left]]

Over(n) == n > Limit

\* Mutant: the memory of the replica steps in for Redis in production too.
MutUnavailable(r) ==
  /\ place' = [place EXCEPT ![r] = 0]
  /\ MemoryIncrement(ReplicaOf[r]) /\ Goto(r, "admitted")
\* The catch of rateLimit(): closed in production, open elsewhere.  Its answer
\* does not rest on a place in Redis.
Unavailable(r) ==
  /\ place' = [place EXCEPT ![r] = 0]
  /\ IF production THEN Goto(r, "refused") /\ UNCHANGED bucket
     ELSE MemoryIncrement(ReplicaOf[r]) /\ Goto(r, "admitted")

\* A request arrives; without Redis it is answered at once.
Arrive(r) ==
  LET p == ReplicaOf[r] IN
  /\ ~Busy(r)
  /\ place' = [place EXCEPT ![r] = 0]
  /\ \/ backend # "none" /\ Goto(r, "incr") /\ UNCHANGED bucket
     \/ backend = "none" /\ production /\ Goto(r, "refused") /\ UNCHANGED bucket
     \/ /\ backend = "none" /\ ~production
        /\ MemoryIncrement(p)
        /\ Goto(r, IF Over(MemoryCount(p)) THEN "limited" ELSE "admitted")
  /\ UNCHANGED <<config, key, current, admitted>>

-----------------------------------------------------------------------------
\* Redis: each command is one atomic step; answered says whether its answer
\* reaches the replica.

\* Mutant: every request sets the expiry anew.
MutAfterIncr(n) == "expire"
\* The request that created the key sets its expiry.
AfterIncr(n) == IF n = 1 THEN "expire" ELSE "ttl"

Incr(r, answered) ==
  /\ step[r] = "incr"
  /\ count' = Succ(count)
  /\ IF answered
     THEN /\ place' = [place EXCEPT ![r] = Succ(count)]
          /\ current' = current \cup {r}
          /\ Goto(r, AfterIncr(Succ(count))) /\ UNCHANGED bucket
     ELSE Unavailable(r) /\ UNCHANGED current
  /\ UNCHANGED <<config, ttl, admitted>>

\* A key that is gone meanwhile gets no expiry.
Expire(r, answered) ==
  /\ step[r] = "expire"
  /\ ttl' = IF count > 0 THEN Window ELSE ttl
  /\ IF answered THEN Goto(r, "ttl") /\ UNCHANGED <<bucket, place, current>>
     ELSE Unavailable(r) /\ current' = current \ {r}
  /\ UNCHANGED <<config, count, admitted>>

\* Upstash answers OK, but its answer has no result, and INCR was executed or
\* not: no expiry is set.
BlankIncr(r, executed) ==
  /\ step[r] = "incr" /\ backend = "upstash"
  /\ count' = IF executed THEN Succ(count) ELSE count
  /\ place' = [place EXCEPT ![r] = NoResult]
  /\ Goto(r, "ttl")
  /\ UNCHANGED <<config, ttl, bucket, current, admitted>>

\* The result of EXPIRE is not read, so OK is enough for one that did nothing.
BlankExpire(r) ==
  /\ step[r] = "expire" /\ backend = "upstash"
  /\ Goto(r, "ttl")
  /\ UNCHANGED <<config, key, bucket, place, current, admitted>>

\* incr.result ?? 1: an answer without result is taken for the first place.
PlaceOf(r) == IF place[r] = NoResult THEN 1 ELSE place[r]

Decide(r) ==
  IF Over(PlaceOf(r))
  THEN Goto(r, "limited") /\ UNCHANGED admitted
  ELSE /\ Goto(r, "admitted")
       /\ admitted' = IF r \in current THEN admitted \cup {place[r]} ELSE admitted

\* The time it returns is only for the headers.
Ttl(r) ==
  /\ step[r] = "ttl"
  /\ Decide(r)
  /\ current' = current \ {r}
  /\ UNCHANGED <<config, key, bucket, place>>

\* Mutant: a request whose expiry or TTL fails takes its count back.
MutFail(r) ==
  /\ Busy(r)
  /\ count' = IF step[r] # "incr" /\ count > 1 THEN count - 1 ELSE count
  /\ IF step[r] = "ttl" /\ backend = "direct" THEN Decide(r) /\ UNCHANGED <<bucket, place>>
     ELSE Unavailable(r) /\ UNCHANGED admitted
  /\ current' = current \ {r}
  /\ UNCHANGED <<config, ttl>>
\* A command that is not executed.  Only the direct client goes on when TTL
\* fails.
Fail(r) ==
  /\ Busy(r)
  /\ IF step[r] = "ttl" /\ backend = "direct" THEN Decide(r) /\ UNCHANGED <<bucket, place>>
     ELSE Unavailable(r) /\ UNCHANGED admitted
  /\ current' = current \ {r}
  /\ UNCHANGED <<config, key>>

\* A replica dies with its requests and its memory.
Crash(p) ==
  LET dead == {r \in Requests : ReplicaOf[r] = p} IN
  /\ bucket' = [bucket EXCEPT ![p] = [count |-> 0, left |-> 0]]
  /\ step' = [r \in Requests |-> IF r \in dead THEN "idle" ELSE step[r]]
  /\ place' = [r \in Requests |-> IF r \in dead THEN 0 ELSE place[r]]
  /\ current' = current \ dead
  /\ UNCHANGED <<config, key, admitted>>

\* The last tick of a key removes it.
Tick ==
  /\ bucket' = [p \in Replicas |-> [bucket[p] EXCEPT !.left = IF @ = 0 THEN 0 ELSE @ - 1]]
  /\ IF ttl = 1 THEN count' = 0 /\ ttl' = NoTtl /\ current' = {} /\ admitted' = {}
     ELSE /\ ttl' = IF ttl > 1 THEN ttl - 1 ELSE ttl
          /\ UNCHANGED <<count, current, admitted>>
  /\ UNCHANGED <<config, step, place>>

Proceed(r) ==
  \/ \E answered \in BOOLEAN : Incr(r, answered) \/ Expire(r, answered)
  \/ \E executed \in BOOLEAN : BlankIncr(r, executed)
  \/ BlankExpire(r) \/ Ttl(r) \/ Fail(r)

Next ==
  \/ \E r \in Requests : Arrive(r) \/ Proceed(r)
  \/ \E p \in Replicas : Crash(p)
  \/ Tick

Spec == Init /\ [][Next]_vars
\* Time passes, and a command that was sent is executed, answered or fails.
FairSpec == Spec /\ WF_vars(Tick) /\ \A r \in Requests : WF_vars(Proceed(r))

-----------------------------------------------------------------------------
\* The key, the buckets and the requests keep their shape: a key that does not
\* exist has no expiry, and none is longer than a window.
TypeOK ==
  /\ production \in BOOLEAN /\ backend \in {"direct", "upstash", "none"}
  /\ count \in Nat /\ ttl \in {NoTtl} \cup 1..Window /\ (count = 0 => ttl = NoTtl)
  /\ bucket \in [Replicas -> [count : Nat, left : 0..Window]]
  /\ step \in [Requests -> {"idle"} \cup Commands \cup Answers]
  /\ place \in [Requests -> Nat \cup {NoResult}]
  /\ current \subseteq Requests /\ admitted \subseteq Nat

\* The requests to which one key answered a place have each a place of their own
\* within the limit, or one above it, and those it let through are among them:
\* with crashes, failing commands and lost answers of several replicas, one
\* window lets at most the limit of requests through on the place INCR answered.
\* It does not bound those let through without a place, by an answer that had no
\* result or, outside production, on the memory of a replica.
WindowLimit ==
  /\ admitted \subseteq 1..Limit
  /\ \A r \in current : place[r] <= Limit =>
       /\ place[r] \in 1..count /\ place[r] \notin admitted
       /\ \A s \in current : place[s] = place[r] => s = r

\* In production a request passes only on an answer to INCR: a place within the
\* limit or, through Upstash, an answer without result, which counts as the
\* first place.  No failing command, lost answer or missing Redis lets it through.
AdmittedIsAnswered ==
  \A r \in Requests : production /\ step[r] = "admitted" =>
    place[r] \in 1..Limit \/ (backend = "upstash" /\ place[r] = NoResult)

\* Once a key has an expiry its window ends, however many requests keep coming.
DatedWindowEnds == ttl # NoTtl ~> count = 0

\* The answer to a request over the limit says to try again in less than a
\* minute; so a key that limits requests is gone some time later.
LimitedForAWhile == \A r \in Requests : step[r] = "limited" ~> count = 0
=============================================================================
