-------------------------- MODULE EventServiceProofs --------------------------
(* Proofs about EventService, for any handlers, events and threshold. *)
EXTENDS EventService, FiniteSetTheorems, TLAPS

\* Type correctness: the store, the buffer and the goroutines' local state stay
\* of their types, in particular no index count goes below zero.
LEMMA InitType == Init => TypeOK
<1> SUFFICES ASSUME Init PROVE TypeOK
  OBVIOUS
<1>1. StoreTypeOK
  BY DEF Init, NewMemoryStore, StoreTypeOK
<1>2. LabelsOK
  BY ServiceAssumption
  DEF Init, LabelsOK, Goroutine, HandlerLabel, BatcherLabel, MainLabel
<1>3. /\ work \in [Goroutine -> SUBSET Event]
      /\ buffer \in SUBSET Event
      /\ leaving \in BOOLEAN /\ running \in BOOLEAN
      /\ accepted \in SUBSET Event /\ buffered \in SUBSET Event
      /\ deleted \in SUBSET Event /\ owedAtStop \in SUBSET Event
  BY DEF Init
<1> QED
  BY <1>1, <1>2, <1>3 DEF TypeOK

\* The store's operations keep its type.
LEMMA CreateEventsType ==
  ASSUME StoreTypeOK, NEW E \in SUBSET Event, CreateEvents(E)
  PROVE  StoreTypeOK'
BY DEF StoreTypeOK, CreateEvents, AppendEach, storeVars

LEMMA DeleteEventType ==
  ASSUME StoreTypeOK, NEW e \in Event, DeleteEvent(e)
  PROVE  StoreTypeOK'
BY DEF StoreTypeOK, DeleteEvent, DropFirst, storeVars

\* A goroutine that moves to a label of its own leaves the others where they are.
LEMMA HandlerMoves ==
  ASSUME LabelsOK, NEW h \in Handler, NEW label \in HandlerLabel, Goto(h, label)
  PROVE  LabelsOK'
BY ServiceAssumption DEF LabelsOK, Goto, Goroutine

LEMMA BatcherMoves ==
  ASSUME LabelsOK, NEW label \in BatcherLabel, Goto(Batcher, label)
  PROVE  LabelsOK'
BY ServiceAssumption DEF LabelsOK, Goto, Goroutine

LEMMA MainMoves ==
  ASSUME LabelsOK, NEW label \in MainLabel, Goto(Main, label)
  PROVE  LabelsOK'
BY ServiceAssumption DEF LabelsOK, Goto, Goroutine

LEMMA AfterFlushLabel ==
  /\ \A h \in Handler : AfterFlush(h) = "idle"
  /\ AfterFlush(Batcher) \in BatcherLabel
  /\ AfterFlush(Main) = "shutdown"
BY ServiceAssumption DEF AfterFlush, BatcherLabel

\* The two steps of flushBuffer, whoever calls it.
LEMMA FlushMoves ==
  ASSUME LabelsOK, NEW g \in Goroutine, Goto(g, AfterFlush(g)) \/ Goto(g, "write")
  PROVE  LabelsOK'
<1>1. CASE g \in Handler
  BY <1>1, AfterFlushLabel, HandlerMoves, Zenon DEF HandlerLabel
<1>2. CASE g = Batcher
  BY <1>2, AfterFlushLabel, BatcherMoves, Zenon DEF BatcherLabel
<1>3. CASE g = Main
  BY <1>3, AfterFlushLabel, MainMoves, Zenon DEF MainLabel
<1> QED
  BY <1>1, <1>2, <1>3 DEF Goroutine

LEMMA TakeType ==
  ASSUME TypeOK, NEW g \in Goroutine, NEW E \in SUBSET Event, Take(g, E)
  PROVE  work' \in [Goroutine -> SUBSET Event]
BY DEF TypeOK, Take

LEMMA SwapBufferType ==
  ASSUME TypeOK, NEW g \in Goroutine, SwapBuffer(g)
  PROVE  TypeOK'
<1>1. LabelsOK'
  BY FlushMoves DEF SwapBuffer, TypeOK
<1>2. work' \in [Goroutine -> SUBSET Event]
  BY TakeType DEF SwapBuffer, TypeOK
<1> QED
  BY <1>1, <1>2 DEF SwapBuffer, TypeOK, StoreTypeOK, storeVars, historyVars

LEMMA WriteBatchType ==
  ASSUME TypeOK, NEW g \in Goroutine, WriteBatch(g)
  PROVE  TypeOK'
<1>1. LabelsOK'
  BY FlushMoves DEF WriteBatch, TypeOK
<1>2. work' \in [Goroutine -> SUBSET Event]
  BY TakeType DEF WriteBatch, TypeOK
<1>3. StoreTypeOK'
  BY CreateEventsType DEF WriteBatch, TypeOK
<1> QED
  BY <1>1, <1>2, <1>3 DEF WriteBatch, TypeOK, historyVars

LEMMA HandlerType ==
  ASSUME TypeOK, NEW h \in Handler, Request(h) \/ HandlerNext(h)
  PROVE  TypeOK'
<1>0. h \in Goroutine
  BY DEF Goroutine
<1>1. ASSUME NEW e \in Event, ReceiveEvent(h, e) \/ ReceiveDelete(h, e)
      PROVE  TypeOK'
  <2>1. LabelsOK'
    BY <1>1, HandlerMoves DEF ReceiveEvent, ReceiveDelete, TypeOK, HandlerLabel
  <2>2. work' \in [Goroutine -> SUBSET Event]
    BY <1>0, <1>1, TakeType DEF ReceiveEvent, ReceiveDelete
  <2> QED
    BY <1>1, <2>1, <2>2
    DEF ReceiveEvent, ReceiveDelete, TypeOK, StoreTypeOK, storeVars, historyVars
<1>2. ASSUME NEW E \in SUBSET Event, ReceiveBatch(h, E)
      PROVE  TypeOK'
  <2>1. LabelsOK'
    BY <1>2, HandlerMoves DEF ReceiveBatch, TypeOK, HandlerLabel
  <2>2. work' \in [Goroutine -> SUBSET Event]
    BY <1>0, <1>2, TakeType DEF ReceiveBatch
  <2> QED
    BY <1>2, <2>1, <2>2 DEF ReceiveBatch, TypeOK, StoreTypeOK, storeVars, historyVars
<1>3. ASSUME StoreEvent(h)
      PROVE  TypeOK'
  <2>1. LabelsOK'
    BY <1>3, HandlerMoves DEF StoreEvent, TypeOK, HandlerLabel
  <2>2. /\ work' \in [Goroutine -> SUBSET Event]
        /\ accepted' \in SUBSET Event
    BY <1>0, <1>3, TakeType DEF StoreEvent, TypeOK
  <2>3. StoreTypeOK'
    <3>1. PICK e \in work[h] : CreateEvent(e)
      BY <1>3 DEF StoreEvent
    <3> QED
      BY <1>0, <3>1, CreateEventsType DEF CreateEvent, TypeOK
  <2> QED
    BY <1>3, <2>1, <2>2, <2>3 DEF StoreEvent, TypeOK
<1>4. ASSUME AppendEvent(h)
      PROVE  TypeOK'
  <2>1. LabelsOK'
    BY <1>4, HandlerMoves DEF AppendEvent, TypeOK, HandlerLabel
  <2>2. work' \in [Goroutine -> SUBSET Event]
    BY <1>0, <1>4, TakeType DEF AppendEvent
  <2> QED
    BY <1>0, <1>4, <2>1, <2>2 DEF AppendEvent, TypeOK, StoreTypeOK, storeVars
<1>5. ASSUME StoreBatch(h)
      PROVE  TypeOK'
  <2>1. LabelsOK'
    BY <1>5, HandlerMoves DEF StoreBatch, TypeOK, HandlerLabel
  <2>2. work' \in [Goroutine -> SUBSET Event]
    BY <1>0, <1>5, TakeType DEF StoreBatch
  <2>3. StoreTypeOK'
    BY <1>0, <1>5, CreateEventsType DEF StoreBatch, TypeOK
  <2> QED
    BY <1>0, <1>5, <2>1, <2>2, <2>3 DEF StoreBatch, TypeOK
<1>6. ASSUME ApplyDelete(h)
      PROVE  TypeOK'
  <2>1. LabelsOK'
    BY <1>6, HandlerMoves DEF ApplyDelete, TypeOK, HandlerLabel
  <2>2. work' \in [Goroutine -> SUBSET Event]
    BY <1>0, <1>6, TakeType DEF ApplyDelete
  <2>3. StoreTypeOK'
    <3>1. PICK e \in work[h] : DeleteEvent(e)
      BY <1>6 DEF ApplyDelete
    <3> QED
      BY <1>0, <3>1, DeleteEventType DEF TypeOK
  <2> QED
    BY <1>0, <1>6, <2>1, <2>2, <2>3 DEF ApplyDelete, TypeOK
<1> QED
  BY <1>0, <1>1, <1>2, <1>3, <1>4, <1>5, <1>6, SwapBufferType, WriteBatchType
  DEF Request, HandlerNext

LEMMA BatcherType ==
  ASSUME TypeOK, BatcherNext
  PROVE  TypeOK'
<1>1. ASSUME Tick \/ TakeStop
      PROVE  TypeOK'
  <2>1. LabelsOK'
    BY <1>1, BatcherMoves DEF Tick, TakeStop, TypeOK, BatcherLabel
  <2> QED
    BY <1>1, <2>1 DEF Tick, TakeStop, TypeOK, StoreTypeOK, storeVars, historyVars
<1> QED
  BY <1>1, SwapBufferType, WriteBatchType DEF BatcherNext, Goroutine

LEMMA MainType ==
  ASSUME TypeOK, Signal \/ MainStops \/ ServeFails
  PROVE  TypeOK'
<1> USE DEF TypeOK, StoreTypeOK, storeVars, historyVars
<1>1. ASSUME NEW from, NEW to \in MainLabel, MainStep(from, to)
      PROVE  LabelsOK'
  BY <1>1, MainMoves DEF MainStep
<1>2. CASE Signal \/ CloseStopCh \/ AwaitBatcher
  BY <1>1, <1>2 DEF Signal, CloseStopCh, AwaitBatcher, MainLabel
<1>3. CASE Shutdown \/ Drained \/ DrainTimeout
  BY <1>1, <1>3 DEF Shutdown, Drained, DrainTimeout, MainLabel
<1>4. CASE CloseStore
  BY <1>1, <1>4 DEF CloseStore, Close, MainLabel
<1>5. CASE Return \/ ServeFails
  BY <1>5 DEF Return, ServeFails, LabelsOK
<1>6. CASE SwapBuffer(Main) \/ WriteBatch(Main)
  BY <1>6, SwapBufferType, WriteBatchType DEF Goroutine
<1> QED
  BY <1>2, <1>3, <1>4, <1>5, <1>6 DEF MainStops

LEMMA NextType == TypeOK /\ [Next]_vars => TypeOK'
<1>1. ASSUME TypeOK, UNCHANGED vars
      PROVE  TypeOK'
  BY <1>1 DEF TypeOK, StoreTypeOK, LabelsOK, vars, storeVars, goroutineVars, historyVars
<1> QED
  BY <1>1, HandlerType, BatcherType, MainType DEF Next, Exited

\* Event ingestion is well typed in every reachable state, each goroutine at a
\* label of its own code.
THEOREM TypeCorrect == Spec => []TypeOK
BY InitType, NextType, PTL DEF Spec

-------------------------------------------------------------------------------
(* Routing and OneHolder are inductive together. *)

RInv == TypeOK /\ Routing /\ OneHolder

LEMMA InitRouting == Init => Routing /\ OneHolder
BY ServiceAssumption DEF Init, NewMemoryStore, Routing, OneHolder, Holding, Goroutine

\* What a step of g leaves of the others.
LEMMA OthersStay ==
  ASSUME TypeOK, NEW g \in Goroutine, NEW label, Goto(g, label),
         \/ UNCHANGED work
         \/ \E E \in SUBSET Event : Take(g, E)
  PROVE  /\ pc'[g] = label
         /\ \A f \in Goroutine \ {g} : pc'[f] = pc[f] /\ work'[f] = work[f]
         /\ \A f \in Goroutine \ {g} : Holding(f)' = Holding(f)
         /\ UNCHANGED work => work'[g] = work[g]
         /\ \A E : Take(g, E) => work'[g] = E
BY DEF TypeOK, LabelsOK, Goto, Take, Holding

LEMMA ReceiveRouting ==
  ASSUME RInv, NEW h \in Handler, NEW E \in SUBSET Event,
         \/ \E e \in Event : E = {e} /\ ReceiveEvent(h, e)
         \/ ReceiveBatch(h, E)
  PROVE  Routing' /\ OneHolder'
<1> USE DEF RInv, vars, storeVars, historyVars
<1>0. h \in Goroutine
  BY DEF Goroutine
<1>1. /\ pc[h] = "idle"
      /\ Take(h, E)
      /\ \/ Goto(h, "store") /\ \E e \in Event : E = {e}
         \/ Goto(h, "storeBatch")
      /\ E \cap accepted = {}
      /\ E \cap InHand = {}
      /\ UNCHANGED <<events, buffer, accepted, buffered, deleted>>
  BY DEF ReceiveEvent, ReceiveBatch
<1>2. \A f \in Goroutine : E \cap work[f] = {}
  BY <1>1 DEF InHand
<1>3. /\ pc'[h] \in {"store", "storeBatch"}
      /\ work'[h] = E
      /\ \A f \in Goroutine \ {h} :
            pc'[f] = pc[f] /\ work'[f] = work[f] /\ Holding(f)' = Holding(f)
  BY <1>0, <1>1, OthersStay
<1>4. Routing'
  BY <1>0, <1>1, <1>3 DEF Routing, Goto, TypeOK, LabelsOK
<1>5. OneHolder'
  <2>1. Holding(h)' = E
    BY <1>3 DEF Holding
  <2>2. \A f \in Goroutine : E \cap Holding(f) = {}
    BY <1>2 DEF Holding
  <2>3. E \cap buffer = {}
    BY <1>1 DEF Routing
  <2> QED
    BY <1>0, <1>1, <1>3, <2>1, <2>2, <2>3 DEF OneHolder
<1> QED
  BY <1>4, <1>5

LEMMA StoreRouting ==
  ASSUME RInv, NEW h \in Handler, StoreEvent(h) \/ StoreBatch(h)
  PROVE  Routing' /\ OneHolder'
<1> USE DEF RInv
<1>0. h \in Goroutine /\ work[h] \in SUBSET Event
  BY DEF Goroutine, TypeOK
<1>1. /\ pc[h] \in {"store", "storeBatch"}
      /\ \/ Goto(h, "append") /\ UNCHANGED work /\ accepted' = accepted \cup work[h]
            /\ pc[h] = "store"
         \/ Goto(h, "idle") /\ Take(h, {})
      /\ accepted \subseteq accepted' /\ accepted' \subseteq accepted \cup work[h]
      /\ events' \subseteq events \cup (accepted' \cap work[h])
      /\ UNCHANGED <<buffer, buffered, deleted>>
  <2>1. CASE StoreEvent(h)
    <3>1. PICK e \in work[h] : CreateEvent(e)
      BY <2>1 DEF StoreEvent
    <3> QED
      BY <2>1, <3>1 DEF StoreEvent, CreateEvent, CreateEvents, storeVars
  <2>2. CASE StoreBatch(h)
    BY <2>2 DEF StoreBatch, CreateEvents, storeVars
  <2> QED
    BY <2>1, <2>2
<1>2. /\ \/ /\ pc[h] = "store" /\ pc'[h] = "append"
            /\ work'[h] = work[h] /\ work[h] \subseteq accepted'
         \/ pc'[h] = "idle" /\ work'[h] = {}
      /\ \A f \in Goroutine \ {h} :
            pc'[f] = pc[f] /\ work'[f] = work[f] /\ Holding(f)' = Holding(f)
  BY <1>0, <1>1, OthersStay
<1>3. work[h] \cap accepted = {} /\ Holding(h) = work[h] /\ Holding(h)' \subseteq work[h]
  BY <1>0, <1>1, <1>2 DEF Routing, Holding
<1>4. Routing'
  <2>1. \A f \in Goroutine \ {h} :
          pc[f] \in {"store", "storeBatch"} => work[f] \cap accepted' = {}
    BY <1>0, <1>1, <1>3 DEF Routing, OneHolder, Holding
  <2> QED
    BY <1>0, <1>1, <1>2, <1>3, <2>1 DEF Routing
<1>5. OneHolder'
  BY <1>0, <1>1, <1>2, <1>3 DEF OneHolder
<1> QED
  BY <1>4, <1>5

LEMMA AppendRouting ==
  ASSUME RInv, NEW h \in Handler, AppendEvent(h)
  PROVE  Routing' /\ OneHolder'
<1> USE DEF RInv
<1>0. h \in Goroutine
  BY DEF Goroutine
<1>1. /\ pc[h] = "append"
      /\ Goto(h, "swap") \/ Goto(h, "idle")
      /\ Take(h, {})
      /\ buffer' = buffer \cup work[h]
      /\ buffered' = buffered \cup work[h]
      /\ UNCHANGED <<events, accepted, deleted>>
  BY DEF AppendEvent, storeVars
<1>2. /\ pc'[h] \in {"swap", "idle"}
      /\ work'[h] = {}
      /\ \A f \in Goroutine \ {h} :
            pc'[f] = pc[f] /\ work'[f] = work[f] /\ Holding(f)' = Holding(f)
  BY <1>0, <1>1, OthersStay
<1>3. Holding(h) = work[h] /\ Holding(h)' = {}
  BY <1>1, <1>2 DEF Holding
<1>4. Routing'
  <2>1. \A f \in Goroutine \ {h} : pc[f] = "append" => work[f] \cap work[h] = {}
    BY <1>0, <1>3 DEF OneHolder, Holding
  <2>2. work[h] \subseteq accepted
    BY <1>0, <1>1 DEF Routing
  <2> QED
    BY <1>1, <1>2, <2>1, <2>2 DEF Routing
<1>5. OneHolder'
  BY <1>0, <1>1, <1>2, <1>3 DEF OneHolder
<1> QED
  BY <1>4, <1>5

LEMMA DeleteRouting ==
  ASSUME RInv, NEW h \in Handler,
         ApplyDelete(h) \/ \E e \in Event : ReceiveDelete(h, e)
  PROVE  Routing' /\ OneHolder'
<1> USE DEF RInv
<1>0. h \in Goroutine /\ work[h] \in SUBSET Event
  BY DEF Goroutine, TypeOK
<1>1. /\ pc[h] \in {"delete", "idle"}
      /\ \/ Goto(h, "idle") /\ Take(h, {})
         \/ Goto(h, "delete") /\ \E e \in accepted : e \in Event /\ Take(h, {e})
      /\ events' \subseteq events
      /\ deleted' \subseteq deleted \cup events
      /\ UNCHANGED <<buffer, buffered, accepted>>
  <2>1. CASE ApplyDelete(h)
    <3>1. PICK e \in work[h] : DeleteEvent(e)
      BY <2>1 DEF ApplyDelete
    <3> QED
      BY <2>1, <3>1 DEF ApplyDelete, DeleteEvent, storeVars
  <2>2. CASE \E e \in Event : ReceiveDelete(h, e)
    BY <2>2 DEF ReceiveDelete, storeVars, historyVars
  <2> QED
    BY <2>1, <2>2
<1>2. /\ \/ pc'[h] = "idle" /\ work'[h] = {}
         \/ pc'[h] = "delete" /\ \E e \in accepted : e \in Event /\ work'[h] = {e}
      /\ \A f \in Goroutine \ {h} :
            pc'[f] = pc[f] /\ work'[f] = work[f] /\ Holding(f)' = Holding(f)
  BY <1>0, <1>1, OthersStay
<1>3. Holding(h)' = {}
  BY <1>2 DEF Holding
<1>4. Routing'
  BY <1>0, <1>1, <1>2 DEF Routing
<1>5. OneHolder'
  BY <1>0, <1>1, <1>2, <1>3 DEF OneHolder
<1> QED
  BY <1>4, <1>5

LEMMA FlushRouting ==
  ASSUME RInv, NEW g \in Goroutine, SwapBuffer(g) \/ WriteBatch(g)
  PROVE  Routing' /\ OneHolder'
<1> USE DEF RInv
<1>0. /\ AfterFlush(g) \notin {"store", "storeBatch", "append", "write", "delete"}
      /\ work[g] \in SUBSET Event /\ buffer \in SUBSET Event
  BY DEF AfterFlush, TypeOK
<1>1. CASE SwapBuffer(g)
  <2>1. /\ pc[g] = "swap"
        /\ \/ Goto(g, AfterFlush(g)) /\ UNCHANGED work /\ UNCHANGED buffer
           \/ Goto(g, "write") /\ Take(g, buffer) /\ buffer' = {}
        /\ UNCHANGED <<events, accepted, buffered, deleted>>
    BY <1>1 DEF SwapBuffer, storeVars, historyVars
  <2>2. /\ \/ pc'[g] = AfterFlush(g) /\ work'[g] = work[g] /\ buffer' = buffer
           \/ pc'[g] = "write" /\ work'[g] = buffer /\ buffer' = {}
        /\ \A f \in Goroutine \ {g} :
              pc'[f] = pc[f] /\ work'[f] = work[f] /\ Holding(f)' = Holding(f)
    BY <1>0, <2>1, OthersStay
  <2>3. work[g] = {} /\ (Holding(g)' = {} \/ (Holding(g)' = buffer /\ buffer' = {}))
    BY <1>0, <2>1, <2>2 DEF Routing, Holding
  <2>4. Routing'
    BY <1>0, <2>1, <2>2, <2>3 DEF Routing
  <2>5. OneHolder'
    BY <2>2, <2>3 DEF OneHolder
  <2> QED
    BY <2>4, <2>5
<1>2. CASE WriteBatch(g)
  <2>1. /\ pc[g] = "write"
        /\ Goto(g, AfterFlush(g)) /\ Take(g, {})
        /\ events' \subseteq events \cup work[g]
        /\ UNCHANGED <<buffer, accepted, buffered, deleted>>
    BY <1>2 DEF WriteBatch, CreateEvents, storeVars, historyVars
  <2>2. /\ pc'[g] = AfterFlush(g) /\ work'[g] = {}
        /\ \A f \in Goroutine \ {g} :
              pc'[f] = pc[f] /\ work'[f] = work[f] /\ Holding(f)' = Holding(f)
    BY <2>1, OthersStay
  <2>3. Holding(g)' = {}
    BY <2>2 DEF Holding
  <2>4. Routing'
    BY <1>0, <2>1, <2>2 DEF Routing
  <2>5. OneHolder'
    BY <2>1, <2>2, <2>3 DEF OneHolder
  <2> QED
    BY <2>4, <2>5
<1> QED
  BY <1>1, <1>2

\* Ticks, the stop signal and main's own moves change no event.
ControlStep ==
  \/ Tick \/ TakeStop
  \/ Signal \/ CloseStopCh \/ AwaitBatcher \/ Shutdown \/ Drained \/ DrainTimeout
  \/ CloseStore \/ Return \/ ServeFails \/ UNCHANGED vars

LEMMA ControlFrame ==
  ASSUME TypeOK, ControlStep
  PROVE  /\ UNCHANGED <<events, userIndex, sessionIndex, buffer, work,
                        accepted, buffered, deleted>>
         /\ \A h \in Handler : pc'[h] = pc[h]
         /\ \A g \in Goroutine :
              \/ pc'[g] = pc[g]
              \/ {pc[g], pc'[g]} \cap {"store", "storeBatch", "append", "write", "delete"} = {}
<1> USE ServiceAssumption DEF TypeOK, LabelsOK, Goroutine, Goto, storeVars, historyVars
<1>1. CASE Tick \/ TakeStop
  BY <1>1 DEF Tick, TakeStop
<1>2. CASE Signal \/ CloseStopCh \/ AwaitBatcher
  BY <1>2 DEF Signal, CloseStopCh, AwaitBatcher, MainStep
<1>3. CASE Shutdown \/ Drained \/ DrainTimeout \/ CloseStore
  BY <1>3 DEF Shutdown, Drained, DrainTimeout, CloseStore, Close, MainStep
<1>4. CASE Return \/ ServeFails \/ UNCHANGED vars
  BY <1>4 DEF Return, ServeFails, vars, goroutineVars
<1> QED
  BY <1>1, <1>2, <1>3, <1>4 DEF ControlStep

LEMMA ControlRouting ==
  ASSUME RInv, ControlStep
  PROVE  Routing' /\ OneHolder'
<1>1. /\ Routing /\ OneHolder
      /\ UNCHANGED <<events, buffer, work, accepted, buffered, deleted>>
      /\ \A g \in Goroutine :
           \/ pc'[g] = pc[g]
           \/ {pc[g], pc'[g]} \cap {"store", "storeBatch", "append", "write", "delete"} = {}
  BY ControlFrame DEF RInv
<1>2. \A g \in Goroutine : Holding(g)' = Holding(g)
  BY <1>1 DEF Holding
<1> QED
  BY <1>1, <1>2 DEF Routing, OneHolder

\* The steps of the service, by what they do with events.
LEMMA StepKinds ==
  ASSUME [Next]_vars
  PROVE  \/ \E h \in Handler :
              \/ \E E \in SUBSET Event : \/ \E e \in Event : E = {e} /\ ReceiveEvent(h, e)
                                         \/ ReceiveBatch(h, E)
              \/ StoreEvent(h) \/ StoreBatch(h)
              \/ AppendEvent(h)
              \/ ApplyDelete(h) \/ \E e \in Event : ReceiveDelete(h, e)
         \/ \E g \in Goroutine : SwapBuffer(g) \/ WriteBatch(g)
         \/ ControlStep
<1>1. CASE \E h \in Handler : Request(h)
  <2>1. \A e \in Event : {e} \in SUBSET Event
    OBVIOUS
  <2> QED
    BY <1>1, <2>1 DEF Request
<1>2. CASE \E h \in Handler : HandlerNext(h)
  BY <1>2 DEF HandlerNext, Goroutine
<1>3. CASE BatcherNext \/ Signal \/ MainStops \/ ServeFails \/ Exited \/ UNCHANGED vars
  BY <1>3 DEF BatcherNext, MainStops, Exited, ControlStep, Goroutine
<1> QED
  BY <1>1, <1>2, <1>3 DEF Next

LEMMA NextRouting == RInv /\ [Next]_vars => Routing' /\ OneHolder'
BY StepKinds, ReceiveRouting, StoreRouting, AppendRouting, DeleteRouting, FlushRouting,
   ControlRouting

LEMMA RInvCorrect == Spec => []RInv
<1>1. Init => RInv
  BY InitType, InitRouting DEF RInv
<1>2. RInv /\ [Next]_vars => RInv'
  BY NextType, NextRouting DEF RInv
<1> QED
  BY <1>1, <1>2, PTL DEF Spec

\* Where an event can be on its way through ingestion: what each goroutine holds
\* follows from its place in the code, in every reachable state.
THEOREM RoutingCorrect == Spec => []Routing
<1>1. RInv => Routing
  BY DEF RInv
<1> QED
  BY <1>1, RInvCorrect, PTL

\* Every pending event is in the buffer or in the hands of one goroutine: the
\* swap in flushBuffer never gives two flushers the same event.
THEOREM OneHolderCorrect == Spec => []OneHolder
<1>1. RInv => OneHolder
  BY DEF RInv
<1> QED
  BY <1>1, RInvCorrect, PTL

-------------------------------------------------------------------------------
(* What a step does to events, seen from outside the goroutines. *)

Single == buffered \cup Owed

SameEvents == UNCHANGED <<events, userIndex, sessionIndex>>

PutEvents(E) ==
  /\ events' = events \cup E
  /\ userIndex' = AppendEach(userIndex, E)
  /\ sessionIndex' = AppendEach(sessionIndex, E \cap SessionEvent)

Nothing ==
  /\ SameEvents
  /\ UNCHANGED <<accepted, deleted>>
  /\ isOpen' \in {isOpen, FALSE}
  /\ Owed' = Owed /\ Single' = Single

Accepts(E, owed) ==
  /\ isOpen /\ E \cap accepted = {}
  /\ PutEvents(E)
  /\ accepted' = accepted \cup E
  /\ UNCHANGED <<isOpen, deleted>>
  /\ Owed' = Owed \cup owed /\ Single' = Single \cup owed

Settles(E) ==
  /\ E \subseteq Owed
  /\ IF isOpen THEN PutEvents(E) ELSE SameEvents
  /\ UNCHANGED <<isOpen, accepted, deleted>>
  /\ Owed' = Owed \ E /\ Single' = Single

Removes(e) ==
  /\ e \in events
  /\ DeleteEvent(e)
  /\ deleted' = deleted \cup {e}
  /\ UNCHANGED accepted
  /\ Owed' = Owed /\ Single' = Single

Effect ==
  \/ Nothing
  \/ \E E \in SUBSET Event : Accepts(E, {}) \/ Settles(E)
  \/ \E e \in Event : Accepts({e}, {e}) \/ Removes(e)

\* What goroutine g is still to write a second time.
Pending(g) == IF pc[g] \in {"append", "write"} THEN work[g] ELSE {}

LEMMA OwedMembers ==
  /\ \A e : e \in Owed <=> e \in buffer \/ \E g \in Goroutine : e \in Pending(g)
  /\ \A e : e \in Owed' <=> e \in buffer' \/ \E g \in Goroutine : e \in Pending(g)'
BY DEF Owed, Pending

\* A step of g changes what is owed by what it does to the buffer and to g's hands.
LEMMA OwedChange ==
  ASSUME NEW g \in Goroutine, \A f \in Goroutine \ {g} : Pending(f)' = Pending(f)
  PROVE  \A e : e \in Owed' <=>
           \/ e \in buffer' \cup Pending(g)'
           \/ \E f \in Goroutine \ {g} : e \in Pending(f)
BY OwedMembers

LEMMA OthersPending ==
  ASSUME TypeOK, NEW g \in Goroutine, NEW label, Goto(g, label),
         \/ UNCHANGED work
         \/ \E E \in SUBSET Event : Take(g, E)
  PROVE  \A f \in Goroutine \ {g} : Pending(f)' = Pending(f)
BY OthersStay DEF Pending

LEMMA ControlEffect ==
  ASSUME RInv, ControlStep
  PROVE  Nothing
<1>1. /\ SameEvents
      /\ UNCHANGED <<buffer, work, accepted, buffered, deleted>>
      /\ \A g \in Goroutine :
           \/ pc'[g] = pc[g]
           \/ {pc[g], pc'[g]} \cap {"store", "storeBatch", "append", "write", "delete"} = {}
  BY ControlFrame DEF RInv, SameEvents
<1>2. \A g \in Goroutine : Pending(g)' = Pending(g)
  BY <1>1 DEF Pending
<1>3. Owed' = Owed
  BY <1>1, <1>2, OwedMembers
<1>4. isOpen' \in {isOpen, FALSE}
  BY DEF ControlStep, Tick, TakeStop, Signal, CloseStopCh, AwaitBatcher, Shutdown, Drained,
     DrainTimeout, CloseStore, Close, Return, ServeFails, vars, storeVars
<1> QED
  BY <1>1, <1>3, <1>4 DEF Nothing, Single

LEMMA ReceiveEffect ==
  ASSUME RInv, NEW h \in Handler, NEW E \in SUBSET Event,
         \/ \E e \in Event : E = {e} /\ (ReceiveEvent(h, e) \/ ReceiveDelete(h, e))
         \/ ReceiveBatch(h, E)
  PROVE  Nothing
<1>0. h \in Goroutine /\ TypeOK
  BY DEF Goroutine, RInv
<1>1. /\ pc[h] = "idle"
      /\ Take(h, E)
      /\ \E label \in {"store", "storeBatch", "delete"} : Goto(h, label)
      /\ UNCHANGED <<storeVars, buffer, accepted, buffered, deleted>>
  BY DEF ReceiveEvent, ReceiveDelete, ReceiveBatch, historyVars
<1>2. pc'[h] \in {"store", "storeBatch", "delete"}
  BY <1>0, <1>1, OthersStay
<1>3. \A f \in Goroutine : Pending(f)' = Pending(f)
  <2>1. Pending(h)' = {} /\ Pending(h) = {}
    BY <1>1, <1>2 DEF Pending
  <2> QED
    BY <1>0, <1>1, <2>1, OthersPending
<1>4. Owed' = Owed
  BY <1>1, <1>3, OwedMembers
<1> QED
  BY <1>1, <1>4 DEF Nothing, Single, SameEvents, storeVars

LEMMA StoreEventEffect ==
  ASSUME RInv, NEW h \in Handler, StoreEvent(h)
  PROVE  Effect
<1>0. h \in Goroutine /\ TypeOK
  BY DEF Goroutine, RInv
<1>1. PICK e \in Event : work[h] = {e} /\ e \notin accepted
  BY <1>0 DEF RInv, Routing, StoreEvent
<1>2. /\ CreateEvents({e})
      /\ UNCHANGED <<buffer, buffered, deleted>>
      /\ Pending(h) = {}
  BY <1>1 DEF StoreEvent, CreateEvent, Pending
<1>3. CASE isOpen
  <2>1. Goto(h, "append") /\ UNCHANGED work /\ accepted' = accepted \cup {e}
    BY <1>1, <1>3 DEF StoreEvent
  <2>2. Pending(h)' = {e} /\ \A f \in Goroutine \ {h} : Pending(f)' = Pending(f)
    BY <1>0, <1>1, <2>1, OthersStay, OthersPending DEF Pending
  <2>3. Owed' = Owed \cup {e}
    BY <1>0, <1>2, <2>2, OwedMembers
  <2>4. Accepts({e}, {e})
    BY <1>1, <1>2, <1>3, <2>1, <2>3 DEF Accepts, CreateEvents, PutEvents, Single
  <2> QED
    BY <2>4 DEF Effect
<1>4. CASE ~isOpen
  <2>1. Goto(h, "idle") /\ Take(h, {}) /\ UNCHANGED accepted
    BY <1>4 DEF StoreEvent
  <2>2. Pending(h)' = {} /\ \A f \in Goroutine \ {h} : Pending(f)' = Pending(f)
    BY <1>0, <2>1, OthersStay, OthersPending DEF Pending
  <2>3. Owed' = Owed
    BY <1>0, <1>2, <2>2, OwedMembers
  <2>4. Nothing
    BY <1>2, <1>4, <2>1, <2>3 DEF Nothing, CreateEvents, SameEvents, storeVars, Single
  <2> QED
    BY <2>4 DEF Effect
<1> QED
  BY <1>3, <1>4

LEMMA StoreBatchEffect ==
  ASSUME RInv, NEW h \in Handler, StoreBatch(h)
  PROVE  Effect
<1>0. h \in Goroutine /\ TypeOK /\ work[h] \in SUBSET Event
  BY DEF Goroutine, RInv, TypeOK
<1>1. /\ pc[h] = "storeBatch" /\ Goto(h, "idle") /\ Take(h, {})
      /\ CreateEvents(work[h])
      /\ UNCHANGED <<buffer, buffered, deleted>>
      /\ work[h] \cap accepted = {}
  BY <1>0 DEF StoreBatch, RInv, Routing
<1>2. \A f \in Goroutine : Pending(f)' = Pending(f)
  <2>1. Pending(h)' = {} /\ Pending(h) = {}
    BY <1>0, <1>1, OthersStay DEF Pending
  <2> QED
    BY <1>0, <1>1, <2>1, OthersPending
<1>3. Owed' = Owed
  BY <1>1, <1>2, OwedMembers
<1>4. CASE isOpen
  <2>1. Accepts(work[h], {})
    BY <1>1, <1>3, <1>4 DEF StoreBatch, Accepts, CreateEvents, PutEvents, Single
  <2> QED
    BY <1>0, <2>1 DEF Effect
<1>5. CASE ~isOpen
  BY <1>1, <1>3, <1>5
  DEF StoreBatch, CreateEvents, storeVars, Effect, Nothing, SameEvents, Single
<1> QED
  BY <1>4, <1>5

LEMMA AppendEffect ==
  ASSUME RInv, NEW h \in Handler, AppendEvent(h)
  PROVE  Nothing
<1>0. h \in Goroutine /\ TypeOK
  BY DEF Goroutine, RInv
<1>1. /\ pc[h] = "append" /\ Take(h, {})
      /\ \E label \in {"swap", "idle"} : Goto(h, label)
      /\ buffer' = buffer \cup work[h]
      /\ buffered' = buffered \cup work[h]
      /\ UNCHANGED <<storeVars, accepted, deleted>>
  BY DEF AppendEvent
<1>2. /\ Pending(h) = work[h] /\ Pending(h)' = {}
      /\ \A f \in Goroutine \ {h} : Pending(f)' = Pending(f)
  BY <1>0, <1>1, OthersStay, OthersPending DEF Pending
<1>3. Owed' = Owed /\ work[h] \subseteq Owed
  <2>1. \A e : e \in Owed <=> \/ e \in buffer \cup work[h]
                             \/ \E f \in Goroutine \ {h} : e \in Pending(f)
    BY <1>0, <1>2, OwedMembers
  <2>2. \A e : e \in Owed' <=> \/ e \in buffer \cup work[h]
                              \/ \E f \in Goroutine \ {h} : e \in Pending(f)
    BY <1>0, <1>1, <1>2, OwedChange
  <2> QED
    BY <2>1, <2>2
<1>4. Single' = Single
  BY <1>1, <1>3 DEF Single
<1> QED
  BY <1>1, <1>3, <1>4 DEF Nothing, SameEvents, storeVars

LEMMA ApplyDeleteEffect ==
  ASSUME RInv, NEW h \in Handler, ApplyDelete(h)
  PROVE  Effect
<1>0. h \in Goroutine /\ TypeOK
  BY DEF Goroutine, RInv
<1>1. PICK e \in Event : work[h] = {e}
  BY <1>0 DEF RInv, Routing, ApplyDelete
<1>2. /\ pc[h] = "delete" /\ Goto(h, "idle") /\ Take(h, {})
      /\ DeleteEvent(e) /\ deleted' = deleted \cup ({e} \cap events)
      /\ UNCHANGED <<buffer, buffered, accepted>>
  BY <1>1 DEF ApplyDelete
<1>3. \A f \in Goroutine : Pending(f)' = Pending(f)
  <2>1. Pending(h)' = {} /\ Pending(h) = {}
    BY <1>0, <1>2, OthersStay DEF Pending
  <2> QED
    BY <1>0, <1>2, <2>1, OthersPending
<1>4. Owed' = Owed
  BY <1>2, <1>3, OwedMembers
<1>5. CASE e \in events
  BY <1>2, <1>4, <1>5 DEF Effect, Removes, Single
<1>6. CASE e \notin events
  BY <1>2, <1>4, <1>6 DEF Effect, Nothing, DeleteEvent, SameEvents, storeVars, Single
<1> QED
  BY <1>5, <1>6

LEMMA SwapBufferEffect ==
  ASSUME RInv, NEW g \in Goroutine, SwapBuffer(g)
  PROVE  Nothing
<1>0. TypeOK /\ AfterFlush(g) \notin {"append", "write"} /\ buffer \in SUBSET Event
  BY DEF RInv, AfterFlush, TypeOK
<1>1. /\ pc[g] = "swap"
      /\ UNCHANGED <<storeVars, accepted, buffered, deleted>>
      /\ \/ Goto(g, AfterFlush(g)) /\ UNCHANGED work /\ UNCHANGED buffer
         \/ Goto(g, "write") /\ Take(g, buffer) /\ buffer' = {}
  BY DEF SwapBuffer, historyVars
<1>2. /\ Pending(g) = {}
      /\ \/ Pending(g)' = {} /\ buffer' = buffer
         \/ Pending(g)' = buffer /\ buffer' = {}
      /\ \A f \in Goroutine \ {g} : Pending(f)' = Pending(f)
  BY <1>0, <1>1, OthersStay, OthersPending DEF Pending
<1>3. Owed' = Owed
  <2>1. \A e : e \in Owed <=> e \in buffer \/ \E f \in Goroutine \ {g} : e \in Pending(f)
    BY <1>2, OwedMembers
  <2>2. \A e : e \in Owed' <=> e \in buffer \/ \E f \in Goroutine \ {g} : e \in Pending(f)
    BY <1>2, OwedChange
  <2> QED
    BY <2>1, <2>2
<1> QED
  BY <1>1, <1>3 DEF Nothing, Single, SameEvents, storeVars

LEMMA WriteBatchEffect ==
  ASSUME RInv, NEW g \in Goroutine, WriteBatch(g)
  PROVE  Effect
<1>0. TypeOK /\ work[g] \in SUBSET Event /\ AfterFlush(g) \notin {"append", "write"}
  BY DEF RInv, AfterFlush, TypeOK
<1>1. /\ pc[g] = "write" /\ Goto(g, AfterFlush(g)) /\ Take(g, {})
      /\ CreateEvents(work[g])
      /\ UNCHANGED <<buffer, accepted, buffered, deleted>>
      /\ work[g] \subseteq buffered
  BY DEF WriteBatch, historyVars, RInv, Routing
<1>2. /\ Pending(g) = work[g] /\ Pending(g)' = {}
      /\ \A f \in Goroutine \ {g} : Pending(f)' = Pending(f)
  BY <1>0, <1>1, OthersStay, OthersPending DEF Pending
<1>3. /\ work[g] \cap buffer = {}
      /\ \A f \in Goroutine \ {g} : work[g] \cap Pending(f) = {}
  <2>1. Holding(g) = work[g] /\ \A f \in Goroutine : Pending(f) \subseteq Holding(f)
    BY <1>1 DEF Holding, Pending
  <2> QED
    BY <2>1 DEF RInv, OneHolder
<1>4. Owed' = Owed \ work[g] /\ work[g] \subseteq Owed
  <2>1. \A e : e \in Owed <=> \/ e \in buffer \cup work[g]
                             \/ \E f \in Goroutine \ {g} : e \in Pending(f)
    BY <1>2, OwedMembers
  <2>2. \A e : e \in Owed' <=> e \in buffer \/ \E f \in Goroutine \ {g} : e \in Pending(f)
    BY <1>1, <1>2, OwedChange
  <2> QED
    BY <1>3, <2>1, <2>2
<1>5. Single' = Single
  BY <1>1, <1>4 DEF Single
<1>6. Settles(work[g])
  BY <1>1, <1>4, <1>5 DEF Settles, CreateEvents, PutEvents, SameEvents, storeVars
<1> QED
  BY <1>0, <1>6 DEF Effect

\* Every step of the service is one of the effects.
LEMMA StepEffect ==
  ASSUME RInv, [Next]_vars
  PROVE  Effect
<1>1. CASE \E h \in Handler : \E E \in SUBSET Event :
             \/ \E e \in Event : E = {e} /\ (ReceiveEvent(h, e) \/ ReceiveDelete(h, e))
             \/ ReceiveBatch(h, E)
  BY <1>1, ReceiveEffect DEF Effect
<1>2. CASE \E h \in Handler : StoreEvent(h) \/ StoreBatch(h) \/ AppendEvent(h) \/ ApplyDelete(h)
  BY <1>2, StoreEventEffect, StoreBatchEffect, AppendEffect, ApplyDeleteEffect DEF Effect
<1>3. CASE \E g \in Goroutine : SwapBuffer(g) \/ WriteBatch(g)
  BY <1>3, SwapBufferEffect, WriteBatchEffect DEF Effect
<1>4. CASE ControlStep
  BY <1>4, ControlEffect DEF Effect
<1>5. ASSUME NEW h \in Handler, NEW e \in Event, ReceiveDelete(h, e)
      PROVE  Effect
  <2>1. {e} \in SUBSET Event
    OBVIOUS
  <2> QED
    BY <1>5, <2>1, ReceiveEffect DEF Effect
<1> QED
  BY <1>1, <1>2, <1>3, <1>4, <1>5, StepKinds

-------------------------------------------------------------------------------
(* No accepted event is lost. *)

LEMMA InitNoLoss == Init => NoAcceptedEventLost
BY DEF Init, NoAcceptedEventLost

LEMMA EffectNoLoss ==
  ASSUME NoAcceptedEventLost, Effect
  PROVE  NoAcceptedEventLost'
<1> USE DEF NoAcceptedEventLost
<1>1. CASE Nothing
  BY <1>1 DEF Nothing, SameEvents
<1>2. ASSUME NEW E, NEW owed, Accepts(E, owed)
      PROVE  NoAcceptedEventLost'
  BY <1>2 DEF Accepts, PutEvents
<1>3. ASSUME NEW E, Settles(E)
      PROVE  NoAcceptedEventLost'
  BY <1>3 DEF Settles, PutEvents, SameEvents
<1>4. ASSUME NEW e, Removes(e)
      PROVE  NoAcceptedEventLost'
  BY <1>4 DEF Removes, DeleteEvent
<1> QED
  BY <1>1, <1>2, <1>3, <1>4 DEF Effect

\* An event whose create was answered with success stays stored until a delete
\* of it succeeds.
THEOREM NoAcceptedEventLostCorrect == Spec => []NoAcceptedEventLost
<1>1. RInv /\ NoAcceptedEventLost /\ [Next]_vars => NoAcceptedEventLost'
  BY StepEffect, EffectNoLoss
<1> QED
  BY <1>1, InitNoLoss, RInvCorrect, PTL DEF Spec

-------------------------------------------------------------------------------
(* The indexes. *)

LEMMA OwedAccepted ==
  ASSUME RInv
  PROVE  /\ Owed \subseteq accepted
         /\ Single \subseteq accepted /\ events \subseteq accepted /\ deleted \subseteq accepted
<1>1. \A g \in Goroutine : Pending(g) \subseteq accepted
  BY DEF RInv, Routing, Pending
<1>2. Owed \subseteq accepted
  BY <1>1, OwedMembers DEF RInv, Routing
<1> QED
  BY <1>2 DEF RInv, Routing, Single

IndexOf(e) ==
  /\ sessionIndex[e] = IF e \in SessionEvent THEN userIndex[e] ELSE 0
  /\ IF e \in Single
     THEN /\ e \in events => userIndex[e] > 0
          /\ userIndex[e] + Count(e \in Owed) + Count(e \notin events) <= 2
     ELSE userIndex[e] = Count(e \in events)

LEMMA IndexPointwise ==
  /\ IndexBound <=> \A e \in Event : IndexOf(e)
  /\ IndexBound' <=> \A e \in Event : IndexOf(e)'
BY DEF IndexBound, IndexOf, Single

LEMMA InitIndex == Init => IndexBound
<1> SUFFICES ASSUME Init, NEW e \in Event PROVE IndexOf(e)
  BY IndexPointwise
<1>1. /\ userIndex[e] = 0 /\ sessionIndex[e] = 0 /\ events = {} /\ buffered = {}
      /\ buffer = {} /\ \A g \in Goroutine : Pending(g) = {}
  BY DEF Init, NewMemoryStore, Pending
<1>2. Single = {}
  BY <1>1, OwedMembers DEF Single
<1> QED
  BY <1>1, <1>2 DEF IndexOf, Count

\* One event's index count after a write of E, and after its removal.
LEMMA PutCount ==
  ASSUME StoreTypeOK, NEW E \in SUBSET Event, PutEvents(E), NEW e \in Event
  PROVE  /\ userIndex[e] \in Nat /\ sessionIndex[e] \in Nat
         /\ userIndex'[e] = userIndex[e] + Count(e \in E)
         /\ sessionIndex'[e] = sessionIndex[e] + Count(e \in E \cap SessionEvent)
         /\ e \in events' <=> e \in events \/ e \in E
BY DEF StoreTypeOK, PutEvents, AppendEach, Count

LEMMA EffectIndex ==
  ASSUME RInv, IndexBound, Effect
  PROVE  IndexBound'
<1> SUFFICES ASSUME NEW e \in Event PROVE IndexOf(e)'
  BY IndexPointwise
<1>0. IndexOf(e) /\ StoreTypeOK
  BY IndexPointwise DEF RInv, TypeOK
<1>1. CASE Nothing
  BY <1>0, <1>1 DEF Nothing, SameEvents, IndexOf
<1>2. ASSUME NEW E \in SUBSET Event, NEW owed \in {{}, E}, Accepts(E, owed)
      PROVE  IndexOf(e)'
  <2>1. e \in E => e \notin Single /\ e \notin events /\ e \notin Owed
    BY <1>2, OwedAccepted DEF Accepts
  <2>2. /\ userIndex'[e] = userIndex[e] + Count(e \in E)
        /\ sessionIndex'[e] = sessionIndex[e] + Count(e \in E \cap SessionEvent)
        /\ e \in events' <=> e \in events \/ e \in E
        /\ userIndex[e] \in Nat /\ sessionIndex[e] \in Nat
    BY <1>0, <1>2, PutCount DEF Accepts
  <2>3. Owed' = Owed \cup owed /\ Single' = Single \cup owed
    BY <1>2 DEF Accepts
  <2>4. CASE e \in E
    BY <1>0, <2>1, <2>2, <2>3, <2>4 DEF IndexOf, Count
  <2>5. CASE e \notin E
    BY <1>0, <2>2, <2>3, <2>5 DEF IndexOf, Count
  <2> QED
    BY <2>4, <2>5
<1>3. ASSUME NEW E \in SUBSET Event, Settles(E)
      PROVE  IndexOf(e)'
  <2>1. Owed' = Owed \ E /\ Single' = Single /\ E \subseteq Owed
    BY <1>3 DEF Settles
  <2>2. e \in E => e \in Single
    BY <2>1 DEF Single
  <2>3. CASE isOpen
    <3>1. /\ userIndex'[e] = userIndex[e] + Count(e \in E)
          /\ sessionIndex'[e] = sessionIndex[e] + Count(e \in E \cap SessionEvent)
          /\ e \in events' <=> e \in events \/ e \in E
          /\ userIndex[e] \in Nat /\ sessionIndex[e] \in Nat
      BY <1>0, <1>3, <2>3, PutCount DEF Settles
    <3>2. CASE e \in E
      BY <1>0, <2>1, <2>2, <3>1, <3>2 DEF IndexOf, Count
    <3>3. CASE e \notin E
      BY <1>0, <2>1, <3>1, <3>3 DEF IndexOf, Count
    <3> QED
      BY <3>2, <3>3
  <2>4. CASE ~isOpen
    <3>1. SameEvents /\ userIndex[e] \in Nat
      BY <1>0, <1>3, <2>4 DEF Settles, StoreTypeOK
    <3> QED
      BY <1>0, <2>1, <2>2, <3>1 DEF IndexOf, Count, SameEvents
  <2> QED
    BY <2>3, <2>4
<1>4. ASSUME NEW d \in Event, Removes(d)
      PROVE  IndexOf(e)'
  <2>1. /\ d \in events /\ events' = events \ {d}
        /\ userIndex' = DropFirst(userIndex, d)
        /\ sessionIndex' = IF d \in SessionEvent THEN DropFirst(sessionIndex, d) ELSE sessionIndex
        /\ Owed' = Owed /\ Single' = Single
        /\ userIndex[e] \in Nat /\ sessionIndex[e] \in Nat
    BY <1>0, <1>4 DEF Removes, DeleteEvent, StoreTypeOK
  <2>2. CASE e = d
    <3>1. /\ userIndex'[e] = IF userIndex[e] = 0 THEN 0 ELSE userIndex[e] - 1
          /\ sessionIndex'[e] = IF e \notin SessionEvent THEN sessionIndex[e]
                                ELSE IF sessionIndex[e] = 0 THEN 0 ELSE sessionIndex[e] - 1
      BY <1>0, <2>1, <2>2 DEF DropFirst, StoreTypeOK
    <3> QED
      BY <1>0, <2>1, <2>2, <3>1 DEF IndexOf, Count
  <2>3. CASE e # d
    <3>1. userIndex'[e] = userIndex[e] /\ sessionIndex'[e] = sessionIndex[e]
      BY <1>0, <2>1, <2>3 DEF DropFirst, StoreTypeOK
    <3> QED
      BY <1>0, <2>1, <2>3, <3>1 DEF IndexOf, Count
  <2> QED
    BY <2>2, <2>3
<1>5. \A d \in Event : {d} \in SUBSET Event
  OBVIOUS
<1> QED
  BY <1>1, <1>2, <1>3, <1>4, <1>5 DEF Effect

\* The indexes stay as close to the map as IndexBound says: exact for
\* batch-created events, and for the others at most two entries, at most one
\* once the event is gone.
THEOREM IndexBoundCorrect == Spec => []IndexBound
<1>1. RInv /\ IndexBound /\ [Next]_vars => IndexBound'
  BY StepEffect, EffectIndex
<1> QED
  BY <1>1, InitIndex, RInvCorrect, PTL DEF Spec
-------------------------------------------------------------------------------
(* Deletes. *)

LEMMA EffectGone ==
  ASSUME RInv, Effect, NEW e, e \in deleted, e \notin events \cup Owed
  PROVE  e \notin events' \cup Owed'
<1>0. e \in accepted
  BY OwedAccepted
<1>1. CASE Nothing
  BY <1>1 DEF Nothing, SameEvents
<1>2. ASSUME NEW E \in SUBSET Event, NEW owed \in {{}, E}, Accepts(E, owed)
      PROVE  e \notin events' \cup Owed'
  BY <1>0, <1>2 DEF Accepts, PutEvents
<1>3. ASSUME NEW E \in SUBSET Event, Settles(E)
      PROVE  e \notin events' \cup Owed'
  BY <1>3 DEF Settles, PutEvents, SameEvents
<1>4. ASSUME NEW d \in Event, Removes(d)
      PROVE  e \notin events' \cup Owed'
  BY <1>4 DEF Removes, DeleteEvent
<1>5. \A d \in Event : {d} \in SUBSET Event
  OBVIOUS
<1> QED
  BY <1>1, <1>2, <1>3, <1>4, <1>5 DEF Effect

\* A deleted event of which no write is pending never comes back.
THEOREM GoneForGoodCorrect == Spec => GoneForGood
<1>1. RInv /\ [Next]_vars => \A e \in deleted \ (events \cup Owed) : e \notin (events \cup Owed)'
  BY StepEffect, EffectGone
<1> QED
  BY <1>1, RInvCorrect, PTL DEF Spec, GoneForGood

-------------------------------------------------------------------------------
(* The service implements the ledger: effects map to its actions. *)

LEMMA LedgerInit == Init => Ledger!Init
<1> SUFFICES ASSUME Init PROVE Ledger!Init
  OBVIOUS
<1>1. accepted = {} /\ events = {} /\ isOpen = TRUE
  BY DEF Init, NewMemoryStore
<1> QED
  BY <1>1 DEF Ledger!Init

LEMMA AcceptsLedger ==
  ASSUME RInv, NEW E \in SUBSET Event, NEW owed \in {{}, E}, Accepts(E, owed)
  PROVE  Ledger!Accept(E, IF owed = {} THEN "settled" ELSE "owed")
<1> DEFINE standing == IF owed = {} THEN "settled" ELSE "owed"
<1>1. E \cap Owed = {}
  BY OwedAccepted DEF Accepts
<1>2. Ledger!All(E, "new")
  BY DEF Ledger!All, Accepts
<1>3. Ledger!Mark(E, standing)
  <2>1. \A e \in E : e \in Owed' <=> standing = "owed"
    BY <1>1 DEF Accepts
  <2>2. \A e \in Event \ E : (e \in Owed' <=> e \in Owed) /\ (e \in accepted' <=> e \in accepted)
    BY DEF Accepts
  <2>3. \A e \in E : e \in accepted'
    BY DEF Accepts
  <2> QED
    BY <2>1, <2>2, <2>3 DEF Ledger!Mark
<1> QED
  BY <1>2, <1>3 DEF Ledger!Accept, Accepts, PutEvents

LEMMA SettlesLedger ==
  ASSUME RInv, NEW E \in SUBSET Event, Settles(E)
  PROVE  Ledger!Settle(E)
<1>1. /\ E \subseteq accepted /\ E \subseteq Owed
      /\ Owed' = Owed \ E /\ accepted' = accepted
  BY OwedAccepted DEF Settles
<1>2. Ledger!All(E, "owed") /\ Ledger!Mark(E, "settled")
  BY <1>1 DEF Ledger!All, Ledger!Mark
<1> QED
  BY <1>2 DEF Ledger!Settle, Settles, PutEvents, SameEvents

LEMMA EffectLedger ==
  ASSUME RInv, Effect
  PROVE  [Ledger!Next]_(Ledger!ledgerVars)
<1>1. CASE Nothing
  <2>1. accepted' = accepted /\ Owed' = Owed /\ events' = events /\ isOpen' \in {isOpen, FALSE}
    BY <1>1 DEF Nothing, SameEvents
  <2>2. CASE isOpen' = isOpen
    BY <2>1, <2>2 DEF Ledger!ledgerVars
  <2>3. CASE isOpen' = FALSE
    BY <2>1, <2>3 DEF Ledger!Close, Ledger!Next
  <2> QED
    BY <2>1, <2>2, <2>3
<1>2. ASSUME NEW E \in SUBSET Event, Accepts(E, {}) \/ Settles(E)
      PROVE  Ledger!Next
  <2>1. Ledger!Accept(E, "settled") \/ Ledger!Settle(E)
    BY <1>2, AcceptsLedger, SettlesLedger
  <2> QED
    BY <2>1 DEF Ledger!Next
<1>3. ASSUME NEW e \in Event, Accepts({e}, {e})
      PROVE  Ledger!Next
  <2>1. {e} \in SUBSET Event /\ {e} # {}
    OBVIOUS
  <2>2. Ledger!Accept({e}, "owed")
    BY <1>3, <2>1, AcceptsLedger
  <2> QED
    BY <2>2 DEF Ledger!Next
<1>4. ASSUME NEW e \in Event, Removes(e)
      PROVE  Ledger!Next
  <2>1. Ledger!Remove(e)
    BY <1>4 DEF Removes, DeleteEvent, Ledger!Remove
  <2> QED
    BY <2>1 DEF Ledger!Next
<1> QED
  BY <1>1, <1>2, <1>3, <1>4 DEF Effect

\* The buffer, the flushers and the shutdown sequence implement the ledger:
\* every event is accepted once, owed at most one more write, and settled.
THEOREM LedgerImplemented == Spec => LedgerSpec
<1>1. RInv /\ [Next]_vars => [Ledger!Next]_(Ledger!ledgerVars)
  BY StepEffect, EffectLedger
<1> QED
  BY <1>1, LedgerInit, RInvCorrect, PTL DEF Spec, LedgerSpec, Ledger!Spec

-------------------------------------------------------------------------------
(* What Stop leaves behind.                                                  *)
(*                                                                           *)
(* StopSettles by itself is not inductive: it says nothing of the time before *)
(* Stop's own flush. The events that Stop owes are all in the buffered ones,  *)
(* so no later append brings one back; the batch goroutine has exited before  *)
(* Stop flushes; and after Stop's swap none of them is in the buffer.         *)

Flushing == pc[Main] \in {"swap", "write", "shutdown", "draining", "closing", "closed"}
Swapped == pc[Main] \in {"write", "shutdown", "draining", "closing", "closed"}

StopInv ==
  /\ owedAtStop \subseteq buffered
  /\ Flushing => pc[Batcher] = "exited"
  /\ Swapped => owedAtStop \cap buffer = {}

LEMMA InitStop == Init => StopInv
BY ServiceAssumption DEF Init, StopInv, Flushing, Swapped, Goroutine

\* A step that moves neither main nor the batch goroutine, and puts into the
\* buffer only what was not buffered before.
LEMMA HandlerStop ==
  ASSUME StopInv, UNCHANGED owedAtStop, buffered \subseteq buffered',
         pc'[Main] = pc[Main], pc'[Batcher] = pc[Batcher],
         (buffer' \ buffer) \cap buffered = {}
  PROVE  StopInv'
BY DEF StopInv, Flushing, Swapped

LEMMA HandlerStepStop ==
  ASSUME RInv, StopInv, NEW h \in Handler,
         \/ \E E \in SUBSET Event : \/ \E e \in Event : E = {e} /\ ReceiveEvent(h, e)
                                    \/ ReceiveBatch(h, E)
         \/ StoreEvent(h) \/ StoreBatch(h)
         \/ AppendEvent(h)
         \/ ApplyDelete(h) \/ \E e \in Event : ReceiveDelete(h, e)
         \/ SwapBuffer(h) \/ WriteBatch(h)
  PROVE  StopInv'
<1>1. /\ h # Main /\ h # Batcher /\ h \in Goroutine
      /\ pc \in [Goroutine -> HandlerLabel \cup BatcherLabel \cup MainLabel]
  BY ServiceAssumption DEF RInv, TypeOK, LabelsOK, Goroutine
<1>2. ASSUME NEW label, Goto(h, label)
      PROVE  pc'[Main] = pc[Main] /\ pc'[Batcher] = pc[Batcher]
  BY <1>1, <1>2 DEF Goto
<1>3. CASE \/ \E E \in SUBSET Event : \/ \E e \in Event : E = {e} /\ ReceiveEvent(h, e)
                                      \/ ReceiveBatch(h, E)
           \/ \E e \in Event : ReceiveDelete(h, e)
  <2>1. /\ UNCHANGED <<buffer, buffered, owedAtStop>>
        /\ \E label : Goto(h, label)
    BY <1>3 DEF ReceiveEvent, ReceiveBatch, ReceiveDelete, historyVars
  <2> QED
    BY <1>2, <2>1, HandlerStop
<1>4. CASE StoreEvent(h) \/ StoreBatch(h) \/ ApplyDelete(h) \/ WriteBatch(h)
  <2>1. /\ UNCHANGED <<buffer, buffered, owedAtStop>>
        /\ \E label : Goto(h, label)
    BY <1>4 DEF StoreEvent, StoreBatch, ApplyDelete, WriteBatch, historyVars
  <2> QED
    BY <1>2, <2>1, HandlerStop
<1>5. CASE AppendEvent(h)
  <2>1. work[h] \cap buffered = {}
    BY <1>1, <1>5 DEF AppendEvent, RInv, Routing
  <2>2. /\ buffer' = buffer \cup work[h] /\ buffered \subseteq buffered'
        /\ UNCHANGED owedAtStop
        /\ \E label : Goto(h, label)
    BY <1>5 DEF AppendEvent
  <2> QED
    BY <1>2, <2>1, <2>2, HandlerStop
<1>6. CASE SwapBuffer(h)
  <2>1. /\ buffer' \subseteq buffer /\ UNCHANGED <<buffered, owedAtStop>>
        /\ \E label : Goto(h, label)
    BY <1>6 DEF SwapBuffer, historyVars
  <2> QED
    BY <1>2, <2>1, HandlerStop
<1> QED
  BY <1>3, <1>4, <1>5, <1>6

\* The batch goroutine stays where it is once it has exited, and main is then
\* the one that moves.
LEMMA BatcherStop ==
  ASSUME RInv, StopInv, Tick \/ TakeStop \/ SwapBuffer(Batcher) \/ WriteBatch(Batcher)
  PROVE  StopInv'
<1>1. /\ Batcher # Main /\ Batcher \in Goroutine /\ Main \in Goroutine
      /\ pc \in [Goroutine -> HandlerLabel \cup BatcherLabel \cup MainLabel]
  BY ServiceAssumption DEF RInv, TypeOK, LabelsOK, Goroutine
<1>2. /\ pc[Batcher] # "exited"
      /\ \E label : Goto(Batcher, label)
      /\ UNCHANGED <<buffered, owedAtStop>>
  BY DEF Tick, TakeStop, SwapBuffer, WriteBatch, historyVars
<1>3. pc'[Main] = pc[Main]
  BY <1>1, <1>2 DEF Goto
<1> QED
  BY <1>2, <1>3 DEF StopInv, Flushing, Swapped

LEMMA MainStop ==
  ASSUME RInv, StopInv,
         \/ SwapBuffer(Main) \/ WriteBatch(Main)
         \/ Signal \/ CloseStopCh \/ AwaitBatcher \/ Shutdown \/ Drained \/ DrainTimeout
         \/ CloseStore \/ Return \/ ServeFails \/ UNCHANGED vars
  PROVE  StopInv'
<1> USE DEF StopInv, Flushing, Swapped
<1>1. /\ Batcher # Main /\ Batcher \in Goroutine /\ Main \in Goroutine
      /\ pc \in [Goroutine -> HandlerLabel \cup BatcherLabel \cup MainLabel]
  BY ServiceAssumption DEF RInv, TypeOK, LabelsOK, Goroutine
<1>2. ASSUME NEW label, Goto(Main, label)
      PROVE  pc'[Main] = label /\ pc'[Batcher] = pc[Batcher]
  BY <1>1, <1>2 DEF Goto
<1>3. CASE SwapBuffer(Main)
  <2>1. /\ pc[Main] = "swap" /\ buffer' = {} /\ UNCHANGED <<buffered, owedAtStop>>
        /\ Goto(Main, "shutdown") \/ Goto(Main, "write")
    BY <1>3, AfterFlushLabel DEF SwapBuffer, historyVars
  <2> QED
    BY <1>2, <2>1
<1>4. CASE WriteBatch(Main)
  <2>1. /\ pc[Main] = "write" /\ UNCHANGED <<buffer, buffered, owedAtStop>>
        /\ Goto(Main, "shutdown")
    BY <1>4, AfterFlushLabel DEF WriteBatch, historyVars
  <2> QED
    BY <1>2, <2>1
<1>5. CASE Signal \/ CloseStopCh
  BY <1>2, <1>5 DEF Signal, CloseStopCh, MainStep, historyVars
<1>6. CASE AwaitBatcher
  BY <1>2, <1>6 DEF AwaitBatcher, MainStep, historyVars
<1>7. CASE Shutdown \/ Drained \/ DrainTimeout \/ CloseStore
  BY <1>2, <1>7 DEF Shutdown, Drained, DrainTimeout, CloseStore, MainStep, historyVars
<1>8. CASE Return \/ ServeFails \/ UNCHANGED vars
  BY <1>8 DEF Return, ServeFails, vars, goroutineVars, historyVars
<1> QED
  BY <1>3, <1>4, <1>5, <1>6, <1>7, <1>8

LEMMA NextStop == RInv /\ StopInv /\ [Next]_vars => StopInv'
<1> SUFFICES ASSUME RInv, StopInv, [Next]_vars PROVE StopInv'
  OBVIOUS
<1>1. CASE \E g \in Goroutine : SwapBuffer(g) \/ WriteBatch(g)
  BY <1>1, HandlerStepStop, BatcherStop, MainStop DEF Goroutine
<1>2. CASE ControlStep
  BY <1>2, BatcherStop, MainStop DEF ControlStep
<1> QED
  BY <1>1, <1>2, StepKinds, HandlerStepStop

\* Once Stop has returned, no event buffered before it is in the buffer or with
\* the batch goroutine or main: its own flush comes after the last one of the
\* batch goroutine, and what is appended meanwhile is new.
THEOREM StopSettlesCorrect == Spec => []StopSettles
<1>1. RInv /\ StopInv => StopSettles
  <2> SUFFICES ASSUME RInv, StopInv,
                      pc[Main] \in {"shutdown", "draining", "closing", "closed"}
               PROVE  /\ pc[Batcher] = "exited"
                      /\ owedAtStop \cap (buffer \cup work[Batcher] \cup work[Main]) = {}
    BY DEF StopSettles
  <2>1. pc[Batcher] = "exited" /\ owedAtStop \cap buffer = {}
    BY DEF StopInv, Flushing, Swapped
  <2>2. work[Batcher] = {} /\ work[Main] = {}
    BY <2>1 DEF RInv, Routing, Goroutine
  <2> QED
    BY <2>1, <2>2
<1> QED
  BY <1>1, InitStop, NextStop, RInvCorrect, PTL DEF Spec

-------------------------------------------------------------------------------
(* How far the buffer fills.                                                 *)
(*                                                                           *)
(* BufferBound compares cardinalities, which say something of finite sets    *)
(* only: that the buffer and the handlers on their way to a flush are finite *)
(* is part of the invariant, so that Handler and Event need not be.          *)

Flushers == {h \in Handler : pc[h] = "swap"}

BufferInv ==
  /\ IsFiniteSet(buffer) /\ IsFiniteSet(Flushers)
  /\ Cardinality(buffer) < FlushThreshold + Cardinality(Flushers)

\* An empty buffer is below the threshold, whoever is on the way to a flush.
LEMMA EmptyBuffer ==
  ASSUME buffer = {}, IsFiniteSet(Flushers)
  PROVE  BufferInv
<1>1. Cardinality(Flushers) \in Nat
  BY FS_CardinalityType
<1>2. IsFiniteSet(buffer) /\ Cardinality(buffer) = 0
  BY FS_EmptySet
<1> QED
  BY <1>1, <1>2, ServiceAssumption DEF BufferInv

LEMMA InitBuffer == Init => BufferInv
<1> SUFFICES ASSUME Init PROVE BufferInv
  OBVIOUS
<1>1. Flushers = {}
  BY ServiceAssumption DEF Init, Flushers, Goroutine
<1> QED
  BY <1>1, EmptyBuffer, FS_EmptySet DEF Init

\* A step that leaves the buffer and the flushers alone.
LEMMA SameBuffer ==
  ASSUME BufferInv, UNCHANGED buffer, Flushers' = Flushers
  PROVE  BufferInv'
BY DEF BufferInv

LEMMA AppendBuffer ==
  ASSUME RInv, BufferInv, NEW h \in Handler, AppendEvent(h)
  PROVE  BufferInv'
<1>1. /\ h \in Goroutine /\ pc[h] = "append"
      /\ pc \in [Goroutine -> HandlerLabel \cup BatcherLabel \cup MainLabel]
  BY DEF AppendEvent, RInv, TypeOK, LabelsOK, Goroutine
<1>2. PICK e \in Event : work[h] = {e}
  BY <1>1 DEF RInv, Routing
<1>3. buffer' = buffer \cup {e}
  BY <1>2 DEF AppendEvent
<1>4. /\ IsFiniteSet(buffer')
      /\ Cardinality(buffer) \in Nat /\ Cardinality(buffer') \in Nat
      /\ Cardinality(buffer') <= Cardinality(buffer) + 1
  <2>1. IsFiniteSet(buffer) /\ Cardinality(buffer) \in Nat
    BY FS_CardinalityType DEF BufferInv
  <2>2. /\ IsFiniteSet(buffer \cup {e})
        /\ Cardinality(buffer \cup {e}) \in {Cardinality(buffer), Cardinality(buffer) + 1}
    BY <2>1, FS_AddElement
  <2> QED
    BY <1>3, <2>1, <2>2
<1>5. \A f \in Handler \ {h} : pc'[f] = pc[f]
  BY <1>1 DEF AppendEvent, Goto, Goroutine
<1>6. CASE Cardinality(buffer') >= FlushThreshold
  <2>1. pc'[h] = "swap"
    BY <1>1, <1>6 DEF AppendEvent, Goto
  <2>2. h \notin Flushers /\ Flushers' = Flushers \cup {h}
    BY <1>1, <1>5, <2>1 DEF Flushers
  <2>3. /\ IsFiniteSet(Flushers') /\ Cardinality(Flushers) \in Nat
        /\ Cardinality(Flushers') = Cardinality(Flushers) + 1
    BY <2>2, FS_AddElement, FS_CardinalityType DEF BufferInv
  <2> QED
    BY <1>4, <2>3, ServiceAssumption DEF BufferInv
<1>7. CASE ~(Cardinality(buffer') >= FlushThreshold)
  <2>1. pc'[h] = "idle"
    BY <1>1, <1>7 DEF AppendEvent, Goto
  <2>2. Flushers' = Flushers
    BY <1>1, <1>5, <2>1 DEF Flushers
  <2>3. Cardinality(Flushers') \in Nat
    BY <2>2, FS_CardinalityType DEF BufferInv
  <2> QED
    BY <1>4, <1>7, <2>2, <2>3, ServiceAssumption DEF BufferInv
<1> QED
  BY <1>6, <1>7

\* A flush leaves the buffer empty.
LEMMA SwapBufferBound ==
  ASSUME RInv, BufferInv, NEW g \in Goroutine, SwapBuffer(g)
  PROVE  BufferInv'
<1>1. /\ buffer' = {}
      /\ \E label : Goto(g, label) /\ label # "swap"
  BY ServiceAssumption DEF SwapBuffer, AfterFlush
<1>2. Flushers' \subseteq Flushers
  BY <1>1 DEF Flushers, Goto, RInv, TypeOK, LabelsOK, Goroutine
<1>3. IsFiniteSet(Flushers')
  BY <1>2, FS_Subset DEF BufferInv
<1>4. Cardinality(Flushers') \in Nat /\ IsFiniteSet(buffer') /\ Cardinality(buffer') = 0
  BY <1>1, <1>3, FS_CardinalityType, FS_EmptySet
<1> QED
  BY <1>3, <1>4, ServiceAssumption DEF BufferInv

LEMMA NextBuffer == RInv /\ BufferInv /\ [Next]_vars => BufferInv'
<1> SUFFICES ASSUME RInv, BufferInv, [Next]_vars PROVE BufferInv'
  OBVIOUS
<1> USE DEF Flushers
<1>1. pc \in [Goroutine -> HandlerLabel \cup BatcherLabel \cup MainLabel]
  BY DEF RInv, TypeOK, LabelsOK
<1>2. ASSUME NEW h \in Handler, NEW label, label # "swap", pc[h] # "swap", Goto(h, label)
      PROVE  Flushers' = Flushers
  BY <1>1, <1>2 DEF Goto, Goroutine
<1>3. ASSUME NEW h \in Handler,
             \/ \E E \in SUBSET Event : \/ \E e \in Event : E = {e} /\ ReceiveEvent(h, e)
                                        \/ ReceiveBatch(h, E)
             \/ \E e \in Event : ReceiveDelete(h, e)
      PROVE  BufferInv'
  <2>1. UNCHANGED buffer /\ pc[h] # "swap" /\ \E label : label # "swap" /\ Goto(h, label)
    BY <1>3 DEF ReceiveEvent, ReceiveBatch, ReceiveDelete
  <2> QED
    BY <1>2, <2>1, SameBuffer
<1>4. ASSUME NEW h \in Handler, StoreEvent(h) \/ StoreBatch(h) \/ ApplyDelete(h)
      PROVE  BufferInv'
  <2>1. UNCHANGED buffer /\ pc[h] # "swap" /\ \E label : label # "swap" /\ Goto(h, label)
    BY <1>4 DEF StoreEvent, StoreBatch, ApplyDelete
  <2> QED
    BY <1>2, <2>1, SameBuffer
<1>5. ASSUME NEW g \in Goroutine, WriteBatch(g)
      PROVE  BufferInv'
  <2>1. /\ UNCHANGED buffer /\ pc[g] = "write"
        /\ \E label : label # "swap" /\ Goto(g, label)
    BY <1>5, ServiceAssumption DEF WriteBatch, AfterFlush
  <2>2. Flushers' = Flushers
    BY <1>1, <2>1 DEF Goto, Goroutine
  <2> QED
    BY <2>1, <2>2, SameBuffer
<1>6. CASE ControlStep
  <2>1. UNCHANGED buffer /\ \A h \in Handler : pc'[h] = pc[h]
    BY <1>6, ControlFrame DEF RInv
  <2> QED
    BY <2>1, SameBuffer
<1> QED
  BY <1>3, <1>4, <1>5, <1>6, StepKinds, AppendBuffer, SwapBufferBound

\* The buffer, which has no limit of its own, exceeds the flush threshold by less
\* than the number of handlers that are on their way to a flush.
THEOREM BufferBoundCorrect == Spec => []BufferBound
<1>1. BufferInv => BufferBound
  BY DEF BufferInv, BufferBound, Flushers
<1> QED
  BY <1>1, InitBuffer, NextBuffer, RInvCorrect, PTL DEF Spec
===============================================================================
