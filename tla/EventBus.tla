------------------------------- MODULE EventBus -------------------------------
(***************************************************************************)
(* The in-process event bus of lib/eventbus.server.ts: publish, subscribe, *)
(* deliver, drainOutbox and replay over the arrays outbox, processed and   *)
(* dlq, which lib/durable-json.server.ts mirrors to three JSON files.      *)
(*                                                                         *)
(* Every publish() runs a drain of its own, so the asynchronous tasks are  *)
(* the events (the publish call of event e is task e) and the replay()     *)
(* calls.  Node runs a task until its next await: turn is the task holding *)
(* the thread, NoTask while every task is suspended at an await.           *)
(***************************************************************************)
EXTENDS Naturals, Sequences, FiniteSets

CONSTANTS
  Events,        \* event ids, each published once (newEventId is unique)
  Replayers,     \* replay() calls
  Handlers,      \* handler functions passed to subscribe()
  Services,      \* values of handler.name || "anonymous"
  Topics,        \* event types
  TopicOf,       \* envelope.event_type of an event
  NameOf,        \* service name of a handler
  SubTopic,      \* the type a handler is subscribed to
  NoTask,        \* turn when the event loop is idle
  ParkAfter,     \* attempts before a row is parked (5 in the code)
  MaxOutbox,     \* MAX_OUTBOX (5000 in the code)
  MaxDlq,        \* MAX_DLQ (1000 in the code)
  MaxProcessed,  \* MAX_PROCESSED (10000 in the code)
  MaxRestarts    \* bound of the model: process restarts per behaviour

Tasks == Events \cup Replayers

ASSUME TaskAssumption == /\ Events # {} /\ IsFiniteSet(Events)
                         /\ Events \cap Replayers = {}
                         /\ NoTask \notin Tasks
ASSUME MapAssumption == /\ TopicOf \in [Events -> Topics]
                        /\ NameOf \in [Handlers -> Services]
                        /\ SubTopic \in [Handlers -> Topics]
ASSUME BoundAssumption == /\ ParkAfter \in Nat \ {0}
                          /\ MaxOutbox \in Nat \ {0}
                          /\ MaxDlq \in Nat \ {0}
                          /\ MaxProcessed \in Nat \ {0}
                          /\ MaxRestarts \in Nat

VARIABLES
  outbox,      \* the array outbox, by event, oldest first
  rows,        \* the row objects, those already trimmed from outbox included
  processed,   \* the array processed; stamp is the position of a push
  pushes,      \* number of pushes on processed
  dlq,         \* the array dlq, by event
  handlers,    \* the Map handlers: subscribers of a topic in call order
  turn,        \* the task running between two awaits
  pc,          \* where a task is
  pos,         \* loop index of drainOutbox
  cur,         \* row passed to deliver
  hnd,         \* loop index of deliver
  slice,       \* rows replay() has still to deliver
  clock,       \* Date.now(): publishes so far
  disk,        \* the three files
  audited,     \* events with an "event.<type>" record in the audit chain
  invoked,     \* history: calls by drains of this process, per event, handler
  restarts     \* history: restarts so far

arrays == <<outbox, rows, processed, pushes, dlq, disk>>
task   == <<pc, pos, cur, hnd, slice>>
vars   == <<outbox, rows, processed, pushes, dlq, handlers, turn, pc, pos, cur,
            hnd, slice, clock, disk, audited, invoked, restarts>>

Row == [status : {"absent", "pending", "published", "dlq"}, attempts : Nat,
        at : Nat]
NoRow == [status |-> "absent", attempts |-> 0, at |-> 0]
\* Mutant: the row literal forgets attempts.
MutNewRow(now) == [status |-> "pending", at |-> now]
NewRow(now) == [status |-> "pending", attempts |-> 0, at |-> now]
ProcessedRow == [event : Events, service : Services, status : {"ok", "error"},
                 stamp : Nat]
Points   == {"idle", "scan", "deliver", "await", "delivered", "failed",
             "drained", "replay", "done", "dead"}

Ids(seq) == {seq[i] : i \in DOMAIN seq}

\* array.splice(0, array.length - max): only the newest max entries stay.
Trim(seq, max) ==
  IF Len(seq) > max THEN SubSeq(seq, Len(seq) - max + 1, Len(seq)) ELSE seq

TrimProcessed(S) ==
  {p \in S : Cardinality({q \in S : q.stamp > p.stamp}) < MaxProcessed}

Init ==
  /\ outbox = <<>>
  /\ rows = [e \in Events |-> NoRow]
  /\ processed = {}
  /\ pushes = 0
  /\ dlq = <<>>
  /\ handlers = [t \in Topics |-> <<>>]
  /\ turn = NoTask
  /\ pc = [t \in Tasks |-> "idle"]
  /\ pos = [t \in Tasks |-> 0]
  /\ cur = [t \in Tasks |-> CHOOSE e \in Events : TRUE]
  /\ hnd = [t \in Tasks |-> 0]
  /\ slice = [t \in Tasks |-> {}]
  /\ clock = 0
  /\ disk = [order |-> <<>>, rows |-> [e \in Events |-> NoRow],
             processed |-> {}, dlq |-> <<>>]
  /\ audited = {}
  /\ invoked = [e \in Events |-> [h \in Handlers |-> 0]]
  /\ restarts = 0

\* saveJsonArray("eventbus-outbox", outbox).
\* Mutant: the snapshot keeps the old row objects.
MutSavedOutbox(order, rs) == [disk EXCEPT !.order = order]
SavedOutbox(order, rs) == [disk EXCEPT !.order = order, !.rows = rs]

-----------------------------------------------------------------------------
\* publish(): the row is pushed, the array trimmed and saved, and the drain
\* entered without giving the thread away.
Publish(e) ==
  /\ turn = NoTask /\ pc[e] = "idle" /\ rows[e].status = "absent"
  /\ outbox' = Trim(Append(outbox, e), MaxOutbox)
  /\ clock' = clock + 1
  /\ rows' = [rows EXCEPT ![e] = NewRow(clock')]
  /\ disk' = SavedOutbox(outbox', rows')
  /\ turn' = e
  /\ pc' = [pc EXCEPT ![e] = "scan"]
  /\ pos' = [pos EXCEPT ![e] = 0]
  /\ UNCHANGED <<processed, pushes, dlq, handlers, cur, hnd, slice, audited,
                 invoked, restarts>>

\* subscribe(): a push on the list of the type; each function is subscribed
\* once.
Subscribe(h) ==
  /\ turn = NoTask
  /\ h \notin Ids(handlers[SubTopic[h]])
  /\ handlers' = [handlers EXCEPT ![SubTopic[h]] = Append(@, h)]
  /\ UNCHANGED <<arrays, turn, task, audited, invoked, clock, restarts>>

-----------------------------------------------------------------------------
\* for (const row of outbox): an array iterator is an index, so rows trimmed
\* from the head shift the array under a suspended drain.  The loop stops at
\* the first pending row after index i, if there is one.
Pending(j) == j \in DOMAIN outbox /\ rows[outbox[j]].status = "pending"
\* Mutant: the loop skips the row after the one it last delivered.
MutNextPending(i, j) == j > i + 1 /\ Pending(j) /\ \A k \in i + 2 .. j - 1 : ~Pending(k)
NextPending(i, j) == j > i /\ Pending(j) /\ \A k \in i + 1 .. j - 1 : ~Pending(k)
\* Mutant: the drain only ends when the array holds no pending row at all.
MutLoopEnds(i) == \A j \in DOMAIN outbox : ~Pending(j)
LoopEnds(i) == \A j \in DOMAIN outbox : ~NextPending(i, j)

\* Mutant: attempts are not counted.
MutCountAttempt(e) == rows
CountAttempt(e) == [rows EXCEPT ![e].attempts = @ + 1]

DrainRow(d) ==
  /\ turn = d /\ pc[d] = "scan"
  /\ \E j \in DOMAIN outbox :
       /\ NextPending(pos[d], j)
       /\ pos' = [pos EXCEPT ![d] = j]
       /\ cur' = [cur EXCEPT ![d] = outbox[j]]
       /\ rows' = CountAttempt(outbox[j])
  /\ hnd' = [hnd EXCEPT ![d] = 0]
  /\ pc' = [pc EXCEPT ![d] = "deliver"]
  /\ UNCHANGED <<outbox, processed, pushes, dlq, handlers, turn, slice, disk,
                 audited, invoked, clock, restarts>>

\* The loop is over: drainOutbox() returns, publish() is suspended at its await.
DrainEnd(d) ==
  /\ turn = d /\ pc[d] = "scan"
  /\ LoopEnds(pos[d])
  /\ pc' = [pc EXCEPT ![d] = "drained"]
  /\ turn' = NoTask
  /\ UNCHANGED <<arrays, handlers, pos, cur, hnd, slice, audited, invoked,
                 clock, restarts>>

\* publish() resumes, records the audit event and returns.
RecordAudit(d) ==
  /\ turn = NoTask /\ pc[d] = "drained"
  /\ audited' = audited \cup {d}
  /\ pc' = [pc EXCEPT ![d] = "done"]
  /\ UNCHANGED <<arrays, handlers, turn, pos, cur, hnd, slice, invoked,
                 clock, restarts>>

-----------------------------------------------------------------------------
\* deliver(): the handlers of the event's type in order, skipping those whose
\* service name has a processed row, whatever its status.
Subscribers(t) == handlers[TopicOf[cur[t]]]
Owed(t, k) ==
  /\ k \in DOMAIN Subscribers(t)
  /\ ~\E p \in processed : p.event = cur[t] /\ p.service = NameOf[Subscribers(t)[k]]
NextOwed(t, k) == k > hnd[t] /\ Owed(t, k) /\ \A m \in hnd[t] + 1 .. k - 1 : ~Owed(t, m)

\* await h(row.envelope): the handler is called and the task suspended.
Invoke(t) ==
  /\ turn = t /\ pc[t] = "deliver"
  /\ \E k \in DOMAIN Subscribers(t) :
       /\ NextOwed(t, k)
       /\ hnd' = [hnd EXCEPT ![t] = k]
       /\ invoked' = IF t \in Events
                       THEN [invoked EXCEPT ![cur[t]][Subscribers(t)[k]] = @ + 1]
                       ELSE invoked
  /\ pc' = [pc EXCEPT ![t] = "await"]
  /\ turn' = NoTask
  /\ UNCHANGED <<arrays, handlers, pos, cur, slice, audited, clock, restarts>>

\* End of deliver(): processed is trimmed and saved.
DeliverEnd(t) ==
  /\ turn = t /\ pc[t] = "deliver"
  /\ \A k \in DOMAIN Subscribers(t) : ~NextOwed(t, k)
  /\ processed' = TrimProcessed(processed)
  /\ disk' = [disk EXCEPT !.processed = processed']
  /\ pc' = [pc EXCEPT ![t] = "delivered"]
  /\ turn' = NoTask
  /\ UNCHANGED <<outbox, rows, pushes, dlq, handlers, pos, cur, hnd, slice,
                 audited, invoked, clock, restarts>>

PushProcessed(t, status) ==
  /\ pushes' = pushes + 1
  /\ processed' = processed \cup
       {[event |-> cur[t], service |-> NameOf[Subscribers(t)[hnd[t]]],
         status |-> status, stamp |-> pushes']}

\* The handler's promise resolves: deliver() goes on with the next handler.
HandlerOk(t) ==
  /\ turn = NoTask /\ pc[t] = "await"
  /\ PushProcessed(t, "ok")
  /\ pc' = [pc EXCEPT ![t] = "deliver"]
  /\ turn' = t
  /\ UNCHANGED <<outbox, rows, dlq, handlers, pos, cur, hnd, slice, disk,
                 audited, invoked, clock, restarts>>

\* The handler throws: deliver() records the failure and rejects, without
\* trimming or saving processed.
HandlerThrows(t) ==
  /\ turn = NoTask /\ pc[t] = "await"
  /\ PushProcessed(t, "error")
  /\ pc' = [pc EXCEPT ![t] = "failed"]
  /\ UNCHANGED <<outbox, rows, dlq, handlers, turn, pos, cur, hnd, slice, disk,
                 audited, invoked, clock, restarts>>

\* drainOutbox() resumes after deliver(): the row is published, outbox saved.
MarkPublished(d) ==
  /\ d \in Events /\ turn = NoTask /\ pc[d] = "delivered"
  /\ rows' = [rows EXCEPT ![cur[d]].status = "published"]
  /\ disk' = SavedOutbox(outbox, rows')
  /\ pc' = [pc EXCEPT ![d] = "scan"]
  /\ turn' = d
  /\ UNCHANGED <<outbox, processed, pushes, dlq, handlers, pos, cur, hnd, slice,
                 audited, invoked, clock, restarts>>

\* The catch of drainOutbox(): a row that has used up its attempts is parked
\* and dlq saved (outbox is not); any other row stays as it is.
Exhausted(e) == rows[e].attempts >= ParkAfter

ParkOrKeep(d) ==
  /\ d \in Events /\ turn = NoTask /\ pc[d] = "failed"
  /\ IF Exhausted(cur[d])
       THEN /\ rows' = [rows EXCEPT ![cur[d]].status = "dlq"]
            /\ dlq' = Trim(Append(dlq, cur[d]), MaxDlq)
            /\ disk' = [disk EXCEPT !.dlq = dlq']
       ELSE UNCHANGED <<rows, dlq, disk>>
  /\ pc' = [pc EXCEPT ![d] = "scan"]
  /\ turn' = d
  /\ UNCHANGED <<outbox, processed, pushes, handlers, pos, cur, hnd, slice,
                 audited, invoked, clock, restarts>>

-----------------------------------------------------------------------------
\* replay(): the published rows inserted at or after since (limit, too, keeps
\* the newest ones), of one type or of all.
Replayable(since, topics) ==
  {e \in Ids(outbox) : /\ rows[e].status = "published"
                       /\ rows[e].at >= since
                       /\ TopicOf[e] \in topics}

Replay(r, since, topics) ==
  /\ turn = NoTask /\ pc[r] = "idle"
  /\ slice' = [slice EXCEPT ![r] = Replayable(since, topics)]
  /\ pc' = [pc EXCEPT ![r] = "replay"]
  /\ turn' = r
  /\ UNCHANGED <<arrays, handlers, pos, cur, hnd, audited, invoked, clock, restarts>>

\* The oldest row left: its processed rows are cleared and deliver() entered.
ReplayRow(r) ==
  /\ turn = r /\ pc[r] = "replay"
  /\ \E e \in slice[r] :
       /\ \A f \in slice[r] : rows[e].at <= rows[f].at
       /\ cur' = [cur EXCEPT ![r] = e]
       /\ slice' = [slice EXCEPT ![r] = @ \ {e}]
       /\ processed' = {p \in processed : p.event # e}
  /\ hnd' = [hnd EXCEPT ![r] = 0]
  /\ pc' = [pc EXCEPT ![r] = "deliver"]
  /\ UNCHANGED <<outbox, rows, pushes, dlq, handlers, turn, pos, disk, audited,
                 invoked, clock, restarts>>

\* deliver() settled either way: the catch of replay() drops the error.
ReplayResume(r) ==
  /\ r \in Replayers /\ turn = NoTask /\ pc[r] \in {"delivered", "failed"}
  /\ pc' = [pc EXCEPT ![r] = "replay"]
  /\ turn' = r
  /\ UNCHANGED <<arrays, handlers, pos, cur, hnd, slice, audited, invoked,
                 clock, restarts>>

ReplayEnd(r) ==
  /\ turn = r /\ pc[r] = "replay" /\ slice[r] = {}
  /\ pc' = [pc EXCEPT ![r] = "done"]
  /\ turn' = NoTask
  /\ UNCHANGED <<arrays, handlers, pos, cur, hnd, slice, audited, invoked,
                 clock, restarts>>

-----------------------------------------------------------------------------
\* The process dies and is started again: the module's initialisers read the
\* files, the tasks and the audit chain are gone, subscribers register anew.
Restart ==
  /\ restarts < MaxRestarts
  /\ restarts' = restarts + 1
  /\ outbox' = disk.order
  /\ rows' = [e \in Events |-> IF e \in Ids(disk.order) THEN disk.rows[e] ELSE NoRow]
  /\ processed' = disk.processed
  /\ dlq' = disk.dlq
  /\ handlers' = [t \in Topics |-> <<>>]
  /\ turn' = NoTask
  /\ pc' = [t \in Tasks |-> IF pc[t] \in {"idle", "done"} THEN pc[t] ELSE "dead"]
  /\ audited' = {}
  /\ invoked' = [e \in Events |-> [h \in Handlers |-> 0]]
  /\ UNCHANGED <<pushes, pos, cur, hnd, slice, clock, disk>>

DrainStep(d) ==
  \/ DrainRow(d) \/ DrainEnd(d) \/ RecordAudit(d)
  \/ MarkPublished(d) \/ ParkOrKeep(d)
DeliverStep(t) == Invoke(t) \/ DeliverEnd(t) \/ HandlerOk(t) \/ HandlerThrows(t)
ReplayStep(r) == ReplayRow(r) \/ ReplayResume(r) \/ ReplayEnd(r)

Next ==
  \/ \E e \in Events : Publish(e)
  \/ \E h \in Handlers : Subscribe(h)
  \/ \E d \in Events : DrainStep(d)
  \/ \E t \in Tasks : DeliverStep(t)
  \/ \E r \in Replayers : ReplayStep(r)
  \/ \E r \in Replayers, since \in 1 .. clock, topics \in SUBSET Topics :
       Replay(r, since, topics)
  \/ Restart

Spec == Init /\ [][Next]_vars

\* Node resumes every suspended task whose promise settles, and handlers settle.
\* Calls of publish, subscribe and replay and restarts are the environment's.
Fairness ==
  /\ \A d \in Events : WF_vars(DrainStep(d))
  /\ \A t \in Tasks : WF_vars(DeliverStep(t))
  /\ \A r \in Replayers : WF_vars(ReplayStep(r))

FairSpec == Spec /\ Fairness

-----------------------------------------------------------------------------
\* Every variable has the shape of the structure it stands for.
TypeOK ==
  /\ outbox \in Seq(Events)
  /\ rows \in [Events -> Row]
  /\ processed \subseteq ProcessedRow
  /\ pushes \in Nat
  /\ dlq \in Seq(Events)
  /\ handlers \in [Topics -> Seq(Handlers)]
  /\ turn \in Tasks \cup {NoTask}
  /\ pc \in [Tasks -> Points]
  /\ pos \in [Tasks -> Nat]
  /\ cur \in [Tasks -> Events]
  /\ hnd \in [Tasks -> Nat]
  /\ slice \in [Tasks -> SUBSET Events]
  /\ clock \in Nat
  /\ disk \in [order : Seq(Events), rows : [Events -> Row],
               processed : SUBSET ProcessedRow, dlq : Seq(Events)]
  /\ audited \subseteq Events
  /\ invoked \in [Events -> [Handlers -> Nat]]
  /\ restarts \in Nat

\* However publishes, drains and restarts interleave, the drains of a process
\* call a handler for an event at most once per attempt counted on its row: the
\* attempts counter of drainOutbox() never under-reports deliveries.
CallsWithinAttempts ==
  \A e \in Events, h \in Handlers : invoked[e][h] <= rows[e].attempts

\* A crash loses no accepted event and revives no delivered one: the outbox
\* file lists exactly the rows of the array, and a row seen as published is
\* published in the file, so the restarted process does not drain it again.
PublishedIsDurable ==
  /\ disk.order = outbox
  /\ \A e \in Ids(outbox) :
       rows[e].status = "published" => disk.rows[e].status = "published"

\* Trimming shifts the array under suspended drains, which then skip rows, yet
\* no row is left behind: once every task of the process has finished, each
\* row of the outbox has been tried by some drain.
NothingLeftUntried ==
  (restarts = 0 /\ \A t \in Tasks : pc[t] \in {"idle", "done"})
    => \A e \in Ids(outbox) : rows[e].attempts > 0

\* Every publish() returns (or dies with the process) when the handlers it
\* waits for settle, whatever other publishes, failures and trims do to the
\* array it iterates over.
PublishReturns ==
  \A e \in Events : pc[e] = "scan" ~> pc[e] \in {"done", "dead"}

\* "Idempotency via processed_events table (event_id + service_name)": no
\* service processes an event successfully twice.
IdempotentDelivery ==
  \A p, q \in processed :
    p.event = q.event /\ p.service = q.service /\ p.status = "ok" /\ q.status = "ok"
      => p = q
=============================================================================
