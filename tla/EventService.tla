----------------------------- MODULE EventService -----------------------------
(***************************************************************************)
(* Event ingestion and shutdown: EventService                              *)
(* (internal/service/event_service.go) over the event store, the HTTP      *)
(* handlers that call it, its batch goroutine, and main's shutdown         *)
(* sequence (cmd/server/main.go).                                          *)
(*                                                                         *)
(* A step is what a goroutine does between two points where another can    *)
(* run: one critical section of the store's mutex or of bufferMu, or one   *)
(* channel operation. The buffer is a set: every CreateEvent call appends  *)
(* its own fresh event once, and no property looks at the order.           *)
(***************************************************************************)
EXTENDS EventStore, FiniteSets

CONSTANTS Handler,         \* goroutines of net/http, one request at a time
          Batcher,         \* the goroutine of startBatchProcessor
          Main,            \* the main goroutine
          FlushThreshold   \* 100 in the code

ASSUME ServiceAssumption ==
  /\ Batcher \notin Handler
  /\ Main \notin Handler
  /\ Batcher # Main
  /\ FlushThreshold \in Nat \ {0}

VARIABLES buffer,      \* es.buffer
          pc,          \* where each goroutine is
          work,        \* the events in the hands of each goroutine
          leaving,     \* the batch goroutine has taken the stopCh branch
          running,     \* the process has not ended
          \* history
          accepted,    \* events whose create has succeeded
          buffered,    \* events that have been appended to the buffer
          deleted,     \* events whose delete has succeeded
          owedAtStop   \* buffered when Stop closed stopCh

goroutineVars == <<pc, work, leaving, running>>
historyVars == <<accepted, buffered, deleted, owedAtStop>>
vars == <<storeVars, buffer, goroutineVars, historyVars>>

Goroutine == Handler \cup {Batcher, Main}

HandlerLabel == {"idle", "store", "storeBatch", "append", "swap", "write", "delete"}
BatcherLabel == {"select", "swap", "write", "exited"}
MainLabel == {"serving", "stopping", "waiting", "swap", "write", "shutdown",
              "draining", "closing", "closed"}

LabelsOK ==
  /\ pc \in [Goroutine -> HandlerLabel \cup BatcherLabel \cup MainLabel]
  /\ \A h \in Handler : pc[h] \in HandlerLabel
  /\ pc[Batcher] \in BatcherLabel
  /\ pc[Main] \in MainLabel

TypeOK ==
  /\ StoreTypeOK
  /\ LabelsOK
  /\ buffer \in SUBSET Event
  /\ work \in [Goroutine -> SUBSET Event]
  /\ leaving \in BOOLEAN
  /\ running \in BOOLEAN
  /\ accepted \in SUBSET Event
  /\ buffered \in SUBSET Event
  /\ deleted \in SUBSET Event
  /\ owedAtStop \in SUBSET Event

Init ==
  /\ NewMemoryStore
  /\ buffer = {}
  /\ pc = [g \in Goroutine |-> IF g = Main THEN "serving"
                               ELSE IF g = Batcher THEN "select" ELSE "idle"]
  /\ work = [g \in Goroutine |-> {}]
  /\ leaving = FALSE
  /\ running = TRUE
  /\ accepted = {}
  /\ buffered = {}
  /\ deleted = {}
  /\ owedAtStop = {}

\* The server takes new requests until main calls server.Shutdown.
Listening == pc[Main] \in {"serving", "stopping", "waiting", "swap", "write", "shutdown"}

StopChClosed == pc[Main] \notin {"serving", "stopping"}

Goto(g, label) == pc' = [pc EXCEPT ![g] = label]
Take(g, E) == work' = [work EXCEPT ![g] = E]

-------------------------------------------------------------------------------
(* flushBuffer, called by handlers, by the batch goroutine and by main. *)

\* Mutant: every caller but main goes on as the batch goroutine does.
AfterFlushAsBatcher(g) ==
  IF g = Main THEN "shutdown" ELSE IF leaving THEN "exited" ELSE "select"

AfterFlush(g) ==
  IF g = Main THEN "shutdown"
  ELSE IF g # Batcher THEN "idle"
  ELSE IF leaving THEN "exited" ELSE "select"

\* Mutant: the buffer is not replaced by an empty one.
SwapBufferKeep(g) ==
  /\ running
  /\ pc[g] = "swap"
  /\ IF buffer = {}
     THEN Goto(g, AfterFlush(g)) /\ UNCHANGED <<buffer, work>>
     ELSE Goto(g, "write") /\ Take(g, buffer) /\ UNCHANGED buffer
  /\ UNCHANGED <<storeVars, leaving, running, historyVars>>

\* Mutant: the batch is everything ever appended, not what is new.
SwapBufferAll(g) ==
  /\ running
  /\ pc[g] = "swap"
  /\ IF buffer = {}
     THEN Goto(g, AfterFlush(g)) /\ UNCHANGED <<buffer, work>>
     ELSE Goto(g, "write") /\ Take(g, buffered) /\ buffer' = {}
  /\ UNCHANGED <<storeVars, leaving, running, historyVars>>

\* Under bufferMu: return if the buffer is empty, else take all of it.
SwapBuffer(g) ==
  /\ running
  /\ pc[g] = "swap"
  /\ IF buffer = {}
     THEN Goto(g, AfterFlush(g)) /\ UNCHANGED <<buffer, work>>
     ELSE Goto(g, "write") /\ Take(g, buffer) /\ buffer' = {}
  /\ UNCHANGED <<storeVars, leaving, running, historyVars>>

\* The buffer is unlocked: store.CreateEvents takes the batch, or it is dropped
\* with a log line when the store is closed.
WriteBatch(g) ==
  /\ running
  /\ pc[g] = "write"
  /\ CreateEvents(work[g])
  /\ Goto(g, AfterFlush(g))
  /\ Take(g, {})
  /\ UNCHANGED <<buffer, leaving, running, historyVars>>

-------------------------------------------------------------------------------
(* POST /api/events *)

InHand == UNION {work[g] : g \in Goroutine}

\* A valid request arrives; ToEvent gives it a fresh ID.
ReceiveEvent(h, e) ==
  /\ running /\ Listening
  /\ pc[h] = "idle"
  /\ e \notin accepted \cup InHand
  /\ Goto(h, "store")
  /\ Take(h, {e})
  /\ UNCHANGED <<storeVars, buffer, leaving, running, historyVars>>

\* Mutant: the single event is only buffered, and reaches the store by a flush.
StoreEventLater(h) ==
  /\ running
  /\ pc[h] = "store"
  /\ IF isOpen
     THEN Goto(h, "append") /\ accepted' = accepted \cup work[h] /\ UNCHANGED work
     ELSE Goto(h, "idle") /\ Take(h, {}) /\ UNCHANGED accepted
  /\ UNCHANGED <<storeVars, buffer, leaving, running, buffered, deleted, owedAtStop>>

\* Mutant: the event of a failed write is buffered for a retry.
StoreEventRetry(h) ==
  /\ running
  /\ pc[h] = "store"
  /\ \E e \in work[h] : CreateEvent(e)
  /\ Goto(h, "append")
  /\ accepted' = IF isOpen THEN accepted \cup work[h] ELSE accepted
  /\ UNCHANGED <<work, buffer, leaving, running, buffered, deleted, owedAtStop>>

\* The direct write. An error goes back to the client and nothing is buffered.
StoreEvent(h) ==
  /\ running
  /\ pc[h] = "store"
  /\ \E e \in work[h] : CreateEvent(e)
  /\ IF isOpen
     THEN Goto(h, "append") /\ accepted' = accepted \cup work[h] /\ UNCHANGED work
     ELSE Goto(h, "idle") /\ Take(h, {}) /\ UNCHANGED accepted
  /\ UNCHANGED <<buffer, leaving, running, buffered, deleted, owedAtStop>>

\* Mutant: the handler that finds the buffer full leaves the flush to the ticker.
AppendEventNoFlush(h) ==
  /\ running
  /\ pc[h] = "append"
  /\ buffer' = buffer \cup work[h]
  /\ buffered' = buffered \cup work[h]
  /\ Goto(h, "idle")
  /\ Take(h, {})
  /\ UNCHANGED <<storeVars, leaving, running, accepted, deleted, owedAtStop>>

\* Under bufferMu: append, and flush when the buffer has reached the threshold.
AppendEvent(h) ==
  /\ running
  /\ pc[h] = "append"
  /\ buffer' = buffer \cup work[h]
  /\ buffered' = buffered \cup work[h]
  /\ Goto(h, IF Cardinality(buffer') >= FlushThreshold THEN "swap" ELSE "idle")
  /\ Take(h, {})
  /\ UNCHANGED <<storeVars, leaving, running, accepted, deleted, owedAtStop>>

-------------------------------------------------------------------------------
(* POST /api/events/batch: E are the events of the valid requests of the body. *)

ReceiveBatch(h, E) ==
  /\ running /\ Listening
  /\ pc[h] = "idle"
  /\ E # {}
  /\ E \cap (accepted \cup InHand) = {}
  /\ Goto(h, "storeBatch")
  /\ Take(h, E)
  /\ UNCHANGED <<storeVars, buffer, leaving, running, historyVars>>

\* One store call for the batch; nothing is buffered.
StoreBatch(h) ==
  /\ running
  /\ pc[h] = "storeBatch"
  /\ CreateEvents(work[h])
  /\ accepted' = IF isOpen THEN accepted \cup work[h] ELSE accepted
  /\ Goto(h, "idle")
  /\ Take(h, {})
  /\ UNCHANGED <<buffer, leaving, running, buffered, deleted, owedAtStop>>

-------------------------------------------------------------------------------
(* DELETE /api/events/{id}: a client knows the ID of an event once the store
   has it. *)

ReceiveDelete(h, e) ==
  /\ running /\ Listening
  /\ pc[h] = "idle"
  /\ e \in accepted
  /\ Goto(h, "delete")
  /\ Take(h, {e})
  /\ UNCHANGED <<storeVars, buffer, leaving, running, historyVars>>

\* Mutant: no answer for an event that is no longer there.
ApplyDeletePresent(h) ==
  /\ running
  /\ pc[h] = "delete"
  /\ work[h] \subseteq events
  /\ \E e \in work[h] : DeleteEvent(e)
  /\ deleted' = deleted \cup work[h]
  /\ Goto(h, "idle")
  /\ Take(h, {})
  /\ UNCHANGED <<buffer, leaving, running, accepted, buffered, owedAtStop>>

\* The event, if it is still there, goes; the buffer is not looked at.
ApplyDelete(h) ==
  /\ running
  /\ pc[h] = "delete"
  /\ \E e \in work[h] : DeleteEvent(e)
  /\ deleted' = deleted \cup (work[h] \cap events)
  /\ Goto(h, "idle")
  /\ Take(h, {})
  /\ UNCHANGED <<buffer, leaving, running, accepted, buffered, owedAtStop>>

-------------------------------------------------------------------------------
(* The select loop of startBatchProcessor. With both channels ready select may
   take either. *)

Tick ==
  /\ running
  /\ pc[Batcher] = "select"
  /\ Goto(Batcher, "swap")
  /\ UNCHANGED <<storeVars, buffer, work, leaving, running, historyVars>>

\* Mutant: the stopCh branch flushes and does not return.
TakeStopStay ==
  /\ running
  /\ pc[Batcher] = "select"
  /\ StopChClosed
  /\ Goto(Batcher, "swap")
  /\ UNCHANGED <<storeVars, buffer, work, leaving, running, historyVars>>

TakeStop ==
  /\ running
  /\ pc[Batcher] = "select"
  /\ StopChClosed
  /\ leaving' = TRUE
  /\ Goto(Batcher, "swap")
  /\ UNCHANGED <<storeVars, buffer, work, running, historyVars>>

-------------------------------------------------------------------------------
(* main: serve, then stop the services, then the server, then the store. *)

MainStep(from, to) ==
  /\ running
  /\ pc[Main] = from
  /\ Goto(Main, to)

\* SIGINT or SIGTERM; scheduler.Stop returns (it touches nothing modelled here).
Signal ==
  /\ MainStep("serving", "stopping")
  /\ UNCHANGED <<storeVars, buffer, work, leaving, running, historyVars>>

\* eventSvc.Stop: close(es.stopCh)
CloseStopCh ==
  /\ MainStep("stopping", "waiting")
  /\ owedAtStop' = buffered
  /\ UNCHANGED <<storeVars, buffer, work, leaving, running, accepted, buffered, deleted>>

\* Mutant: Stop does not wait for the batch goroutine.
AwaitNobody ==
  /\ MainStep("waiting", "swap")
  /\ UNCHANGED <<storeVars, buffer, work, leaving, running, historyVars>>

\* eventSvc.Stop: es.wg.Wait(), then its own flush.
AwaitBatcher ==
  /\ MainStep("waiting", "swap")
  /\ pc[Batcher] = "exited"
  /\ UNCHANGED <<storeVars, buffer, work, leaving, running, historyVars>>

\* server.Shutdown closes the listeners, then waits for the handlers.
Shutdown ==
  /\ MainStep("shutdown", "draining")
  /\ UNCHANGED <<storeVars, buffer, work, leaving, running, historyVars>>

Drained ==
  /\ MainStep("draining", "closing")
  /\ \A h \in Handler : pc[h] = "idle"
  /\ UNCHANGED <<storeVars, buffer, work, leaving, running, historyVars>>

\* shutdownCtx expires first: handlers may still run.
DrainTimeout ==
  /\ MainStep("draining", "closing")
  /\ UNCHANGED <<storeVars, buffer, work, leaving, running, historyVars>>

\* The deferred memStore.Close().
CloseStore ==
  /\ MainStep("closing", "closed")
  /\ Close
  /\ UNCHANGED <<buffer, work, leaving, running, historyVars>>

Return ==
  /\ running
  /\ pc[Main] = "closed"
  /\ running' = FALSE
  /\ UNCHANGED <<storeVars, buffer, pc, work, leaving, historyVars>>

\* ListenAndServe fails: log.Fatalf ends the process, no deferred call runs.
ServeFails ==
  /\ running /\ Listening
  /\ running' = FALSE
  /\ UNCHANGED <<storeVars, buffer, pc, work, leaving, historyVars>>

-------------------------------------------------------------------------------
HandlerNext(h) ==
  \/ StoreEvent(h) \/ AppendEvent(h) \/ SwapBuffer(h) \/ WriteBatch(h)
  \/ StoreBatch(h) \/ ApplyDelete(h)

BatcherNext == Tick \/ TakeStop \/ SwapBuffer(Batcher) \/ WriteBatch(Batcher)

MainStops ==
  \/ CloseStopCh \/ AwaitBatcher \/ SwapBuffer(Main) \/ WriteBatch(Main)
  \/ Shutdown \/ Drained \/ DrainTimeout \/ CloseStore \/ Return

Request(h) ==
  \/ \E e \in Event : ReceiveEvent(h, e) \/ ReceiveDelete(h, e)
  \/ \E E \in SUBSET Event : ReceiveBatch(h, E)

\* The process has ended and stays ended.
Exited == ~running /\ UNCHANGED vars

Next ==
  \/ \E h \in Handler : Request(h) \/ HandlerNext(h)
  \/ BatcherNext
  \/ Signal \/ MainStops \/ ServeFails
  \/ Exited

Spec == Init /\ [][Next]_vars

\* Go runs every runnable goroutine: main and the batch goroutine go on, and so
\* does a handler that has a request. Requests and signals need not come, and a
\* ticker that ticks for ever does not keep select from a ready stopCh.
Fairness ==
  /\ WF_vars(MainStops)
  /\ WF_vars(BatcherNext) /\ SF_vars(TakeStop)
  /\ \A h \in Handler : WF_vars(HandlerNext(h))

FairSpec == Spec /\ Fairness

-------------------------------------------------------------------------------
(* Properties *)

\* Events that a goroutine is about to write or to append.
Holding(g) ==
  IF pc[g] \in {"store", "storeBatch", "append", "write"} THEN work[g] ELSE {}

\* Accepted events whose second write is still to come.
Owed ==
  buffer \cup UNION {work[g] : g \in {f \in Goroutine : pc[f] \in {"append", "write"}}}

\* An event whose create was answered with success stays in the store, through
\* every interleaving of flushes, deletes of other events and shutdown, until a
\* delete of it succeeds (CreateEvent: "store directly to ensure immediate
\* availability").
NoAcceptedEventLost == accepted \subseteq events \cup deleted

\* A pending event is in one place: the buffer, or the hands of one goroutine.
\* The swap in flushBuffer hands every buffered event to one flusher only,
\* although handlers, the ticker and Stop flush concurrently.
OneHolder ==
  \A f \in Goroutine :
    /\ buffer \cap Holding(f) = {}
    /\ \A g \in Goroutine \ {f} : Holding(f) \cap Holding(g) = {}

\* Where an event can be on its way through the service: a request that is not
\* stored yet holds fresh events; a stored single event is appended next; what
\* is in the buffer or in a batch has been appended; a delete names an accepted
\* event. With OneHolder this is inductive.
Routing ==
  /\ buffer \subseteq buffered
  /\ buffered \cup events \cup deleted \subseteq accepted
  /\ \A g \in Goroutine :
       /\ pc[g] \notin {"store", "storeBatch", "append", "write", "delete"} => work[g] = {}
       /\ pc[g] \in {"store", "append", "delete"} => \E e \in Event : work[g] = {e}
       /\ pc[g] \in {"store", "storeBatch"} => work[g] \cap accepted = {}
       /\ pc[g] = "append" => work[g] \subseteq accepted \ buffered
       /\ pc[g] = "write" => work[g] \subseteq buffered
       /\ pc[g] = "delete" => work[g] \subseteq accepted

Count(b) == IF b THEN 1 ELSE 0

\* How far the indexes can be from the map. A batch-created event is indexed
\* exactly while it is stored. A single-created one is indexed at least once
\* while it is stored; its index entries, the write it is still owed and its
\* absence from the map never add up to more than 2, so the flush writes it at
\* most once more. The two indexes agree.
IndexBound ==
  \A e \in Event :
    /\ sessionIndex[e] = IF e \in SessionEvent THEN userIndex[e] ELSE 0
    /\ IF e \in buffered \cup Owed
       THEN /\ e \in events => userIndex[e] > 0
            /\ userIndex[e] + Count(e \in Owed) + Count(e \notin events) <= 2
       ELSE userIndex[e] = Count(e \in events)

\* The buffer has no capacity limit, but every append that finds it full enough
\* flushes before its handler takes another request: it exceeds the threshold
\* by at most the number of handlers on their way to the flush.
BufferBound ==
  Cardinality(buffer) < FlushThreshold + Cardinality({h \in Handler : pc[h] = "swap"})

\* Once Stop has returned, no event buffered before it is left in the buffer or
\* with the batch goroutine: each is written, or with a handler that is writing.
StopSettles ==
  pc[Main] \in {"shutdown", "draining", "closing", "closed"} =>
    /\ pc[Batcher] = "exited"
    /\ owedAtStop \cap (buffer \cup work[Batcher] \cup work[Main]) = {}

\* A deleted event can come back only by the one write it was owed when it was
\* deleted: once no copy is pending it is gone for good.
GoneForGood ==
  [][\A e \in deleted \ (events \cup Owed) : e \notin (events \cup Owed)']_vars

\* The service implements the ledger: who flushes, when, and how many batches
\* are in flight at once, is invisible there.
Ledger == INSTANCE EventLedger WITH
  account <- [e \in Event |-> IF e \notin accepted THEN "new"
                              ELSE IF e \in Owed THEN "owed" ELSE "settled"],
  stored <- events,
  open <- isOpen

LedgerSpec == Ledger!Spec

\* A signal ends the process: neither the batch goroutine nor a handler that
\* outlives the shutdown timeout holds main up.
ShutdownTerminates == pc[Main] = "stopping" ~> ~running

\* A buffered event leaves the buffer if the server is serving: the ticker
\* flushes, or Stop does.
BufferedIsFlushed ==
  \A e \in Event : pc[Main] = "serving" /\ e \in buffer ~> e \notin buffer \/ ~running

\* A request is answered, or the process ends.
RequestsAnswered == \A h \in Handler : pc[h] # "idle" ~> pc[h] = "idle" \/ ~running

\* What DeleteEvent's documentation says ("DeleteEvent deletes an event by ID"):
\* an event whose delete succeeded is not in the store.
DeletedStaysDeleted == deleted \cap events = {}
===============================================================================
