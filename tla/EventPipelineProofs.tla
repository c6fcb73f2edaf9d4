------------------------ MODULE EventPipelineProofs ------------------------
(***************************************************************************)
(* Proofs about EventPipeline, for every set of deliveries and every       *)
(* number of retries.                                                      *)
(***************************************************************************)
EXTENDS EventPipeline, TLAPS

\* The invariant holds before the first delivery.
LEMMA IInvInit == Init => IInv
<1> SUFFICES ASSUME Init PROVE IInv
  OBVIOUS
<1>1. TypeOK
  <2>1. /\ attempts \in [Delivery -> 0..MaxRetries + 1]
        /\ calls \in [Delivery -> Nat]
        /\ pc \in [Delivery -> Pc]
    BY MaxRetriesAssumption DEF Init, Pc
  <2>2. /\ aborted \in [Delivery -> BOOLEAN] /\ settled \in [Delivery -> BOOLEAN]
        /\ deadLetter \in [Delivery -> BOOLEAN] /\ late \in [Delivery -> BOOLEAN]
        /\ waits \in SUBSET Delivery
        /\ gone \in BOOLEAN /\ succeeded \in BOOLEAN /\ discarded \in BOOLEAN
        /\ config \in Config
    BY DEF Init
  <2> QED BY <2>1, <2>2 DEF TypeOK
<1>2. PipelineMeaning /\ SettledOnce
  BY DEF Init, PipelineMeaning, SettledOnce
<1>3. NotLost
  BY DEF Init, NotLost
<1> QED BY <1>1, <1>2, <1>3 DEF IInv

\* What the broker does with a settlement, or without one.
LEMMA BrokerEffect ==
  ASSUME TypeOK, NEW d \in Delivery, NEW what, BrokerTakes(d, what) \/ UNCHANGED broker
  PROVE  waits' \in SUBSET Delivery /\ gone' \in BOOLEAN /\ (gone => gone')
  BY DEF BrokerTakes, broker, TypeOK

\* A settlement through the context keeps to one call of the adapter, and the
\* broker forgets the event only for an ack or a drop.
LEMMA SettleEffect ==
  ASSUME IInv, NEW d \in Delivery, NEW what \in {"ack", "requeue", "drop"}, Settle(d, what)
  PROVE  /\ settled' \in [Delivery -> BOOLEAN]
         /\ calls' \in [Delivery -> Nat]
         /\ waits' \in SUBSET Delivery
         /\ gone' \in BOOLEAN
         /\ gone => gone'
         /\ settled'[d]
         /\ settled[d] => calls'[d] = calls[d]
         /\ ~ settled[d] => calls'[d] = calls[d] + 1
         /\ \A e \in Delivery \ {d} : settled'[e] = settled[e] /\ calls'[e] = calls[e]
<1>1. TypeOK /\ (BrokerTakes(d, what) \/ UNCHANGED broker)
  BY DEF Settle, AskAdapter, IInv, broker
<1>2. waits' \in SUBSET Delivery /\ gone' \in BOOLEAN /\ (gone => gone')
  BY <1>1, BrokerEffect
<1>3. CASE settled[d]
  BY <1>1, <1>2, <1>3 DEF Settle, TypeOK
<1>4. CASE ~ settled[d]
  <2>1. /\ settled' = [settled EXCEPT ![d] = TRUE]
        /\ calls' = [calls EXCEPT ![d] = @ + 1]
    BY <1>4 DEF Settle, AskAdapter
  <2>2. /\ settled' \in [Delivery -> BOOLEAN] /\ settled'[d]
        /\ \A e \in Delivery \ {d} : settled'[e] = settled[e]
    BY <1>1, <2>1 DEF TypeOK
  <2>3. /\ calls' \in [Delivery -> Nat] /\ calls'[d] = calls[d] + 1
        /\ \A e \in Delivery \ {d} : calls'[e] = calls[e]
    BY <1>1, <2>1 DEF TypeOK
  <2> QED BY <1>2, <1>4, <2>2, <2>3
<1> QED BY <1>3, <1>4

\* Leaving the composed handler asks the adapter for at most one ack, and only
\* when the handler has completed.
LEMMA EndEffect ==
  ASSUME IInv, NEW d \in Delivery, NEW label \in {"ended", "failed"}, End(d, label)
  PROVE  /\ pc' = [pc EXCEPT ![d] = label]
         /\ settled' = settled
         /\ calls' \in [Delivery -> Nat]
         /\ waits' \in SUBSET Delivery
         /\ gone' \in BOOLEAN
         /\ gone => gone'
         /\ label = "failed" \/ settled[d] => calls' = calls /\ gone' = gone
         /\ calls'[d] \in {calls[d], calls[d] + 1}
         /\ \A e \in Delivery \ {d} : calls'[e] = calls[e]
<1>1. TypeOK /\ (BrokerTakes(d, "ack") \/ UNCHANGED broker)
  BY DEF End, AskAdapter, IInv, broker
<1>2. waits' \in SUBSET Delivery /\ gone' \in BOOLEAN /\ (gone => gone')
  BY <1>1, BrokerEffect
<1>3. CASE label = "ended" /\ ~ settled[d]
  BY <1>1, <1>2, <1>3 DEF End, Goto, AskAdapter, TypeOK
<1>4. CASE ~ (label = "ended" /\ ~ settled[d])
  BY <1>1, <1>2, <1>4 DEF End, Goto, broker, TypeOK
<1> QED BY <1>3, <1>4

\* An error that leaves the retry middleware settles nothing by itself.
LEMMA EscapeEffect ==
  ASSUME IInv, NEW d \in Delivery, Escapes(d)
  PROVE  /\ \E label \in {"publishing", "failed"} : pc' = [pc EXCEPT ![d] = label]
         /\ UNCHANGED <<settled, calls, gone, waits>>
  BY DEF Escapes, End, Goto, AskAdapter, broker, IInv, TypeOK

LEMMA DeliverStep == ASSUME IInv, NEW d \in Delivery, Deliver(d) PROVE IInv'
  BY MaxRetriesAssumption
  DEF Deliver, Goto, history, IInv, TypeOK, PipelineMeaning, NotLost, SettledOnce, Pc

LEMMA HandlerSettlesStep ==
  ASSUME IInv, NEW d \in Delivery, NEW what \in {"ack", "requeue", "drop"}, HandlerSettles(d, what)
  PROVE  IInv'
<1> USE DEF IInv
<1>1. Settle(d, what)
  BY DEF HandlerSettles
<1>2. TypeOK'
  BY <1>1, SettleEffect DEF HandlerSettles, TypeOK, Pc
<1>3. PipelineMeaning'
  BY <1>1, SettleEffect DEF HandlerSettles, TypeOK, PipelineMeaning, Pc
<1>4. NotLost'
  BY <1>1, SettleEffect DEF HandlerSettles, TypeOK, NotLost
<1>5. SettledOnce'
  BY <1>1, SettleEffect DEF HandlerSettles, TypeOK, PipelineMeaning, SettledOnce, Pc
<1> QED BY <1>2, <1>3, <1>4, <1>5

LEMMA HandlerReturnsStep == ASSUME IInv, NEW d \in Delivery, HandlerReturns(d) PROVE IInv'
<1> USE DEF IInv
<1>1. End(d, "ended")
  BY DEF HandlerReturns
<1>2. TypeOK'
  BY <1>1, EndEffect DEF HandlerReturns, TypeOK, Pc
<1>3. PipelineMeaning'
  BY <1>1, EndEffect DEF HandlerReturns, TypeOK, PipelineMeaning, Pc
<1>4. NotLost'
  BY <1>1, EndEffect DEF HandlerReturns, TypeOK, NotLost
<1>5. SettledOnce'
  BY <1>1, EndEffect DEF HandlerReturns, TypeOK, PipelineMeaning, SettledOnce, Pc
<1> QED BY <1>2, <1>3, <1>4, <1>5

LEMMA HandlerFailsStep ==
  ASSUME IInv, NEW d \in Delivery, NEW retried \in BOOLEAN, HandlerFails(d, retried)
  PROVE  IInv'
<1> USE DEF IInv
<1>1. /\ \E label \in {"sleeping", "publishing", "failed"} :
           /\ pc' = [pc EXCEPT ![d] = label]
           /\ label = "sleeping" => attempts[d] <= MaxRetries
      /\ UNCHANGED <<settled, calls, gone, waits>>
  BY EscapeEffect DEF HandlerFails, Goto, broker
<1>2. TypeOK'
  BY <1>1 DEF HandlerFails, TypeOK, Pc
<1>3. PipelineMeaning'
  BY <1>1 DEF HandlerFails, TypeOK, PipelineMeaning, Pc
<1>4. NotLost' /\ SettledOnce'
  BY <1>1 DEF HandlerFails, NotLost, SettledOnce
<1> QED BY <1>2, <1>3, <1>4

LEMMA RetryStep == ASSUME IInv, NEW d \in Delivery, Retry(d) PROVE IInv'
  BY MaxRetriesAssumption
  DEF Retry, Goto, broker, history, IInv, TypeOK, PipelineMeaning, NotLost, SettledOnce, Pc

LEMMA AbortStep == ASSUME IInv, NEW d \in Delivery, Abort(d) PROVE IInv'
<1> USE DEF IInv
<1>1. /\ pc' = pc \/ \E label \in {"publishing", "failed"} : pc' = [pc EXCEPT ![d] = label]
      /\ pc[d] # "idle"
      /\ UNCHANGED <<settled, calls, gone, waits>>
  BY EscapeEffect DEF Abort, InPipeline, broker
<1>2. TypeOK'
  BY <1>1 DEF Abort, history, TypeOK, Pc
<1>3. PipelineMeaning'
  BY <1>1 DEF Abort, InPipeline, TypeOK, PipelineMeaning, Pc
<1>4. NotLost' /\ SettledOnce'
  BY <1>1 DEF Abort, history, NotLost, SettledOnce
<1> QED BY <1>2, <1>3, <1>4

LEMMA DlqPublishedStep == ASSUME IInv, NEW d \in Delivery, DlqPublished(d) PROVE IInv'
  BY DEF DlqPublished, Goto, broker, history, IInv, TypeOK, PipelineMeaning, NotLost, SettledOnce, Pc

LEMMA DlqAcksStep == ASSUME IInv, NEW d \in Delivery, DlqAcks(d) PROVE IInv'
<1> USE DEF IInv
<1>1. Settle(d, "ack")
  BY DEF DlqAcks
<1>2. TypeOK'
  BY <1>1, SettleEffect DEF DlqAcks, Goto, history, TypeOK, Pc
<1>3. PipelineMeaning'
  BY <1>1, SettleEffect DEF DlqAcks, Goto, TypeOK, PipelineMeaning, Pc
<1>4. NotLost'
  BY DEF DlqAcks, history, TypeOK, PipelineMeaning, NotLost
<1>5. SettledOnce'
  BY <1>1, SettleEffect DEF DlqAcks, history, TypeOK, PipelineMeaning, SettledOnce, Pc
<1> QED BY <1>2, <1>3, <1>4, <1>5

LEMMA DlqPublishFailsStep == ASSUME IInv, NEW d \in Delivery, DlqPublishFails(d) PROVE IInv'
<1> USE DEF IInv
<1>1. /\ \E label \in {"ended", "failed"} : pc' = [pc EXCEPT ![d] = label]
      /\ settled' \in [Delivery -> BOOLEAN]
      /\ calls' \in [Delivery -> Nat]
      /\ waits' \in SUBSET Delivery
      /\ gone' \in BOOLEAN
      /\ gone => gone'
      /\ settled'[d]
      /\ settled[d] => calls'[d] = calls[d]
      /\ ~ settled[d] => calls'[d] = calls[d] + 1
      /\ \A e \in Delivery \ {d} : settled'[e] = settled[e] /\ calls'[e] = calls[e]
  <2>1. CASE Settle(d, "drop") /\ Goto(d, "ended")
    BY <2>1, SettleEffect DEF Goto
  <2>2. CASE /\ ~ settled[d]
             /\ settled' = [settled EXCEPT ![d] = TRUE]
             /\ calls' = [calls EXCEPT ![d] = @ + 1]
             /\ UNCHANGED broker
             /\ Goto(d, "failed")
    BY <2>2 DEF Goto, broker, TypeOK
  <2> QED BY <2>1, <2>2 DEF DlqPublishFails
<1>2. TypeOK'
  <2>1. /\ discarded' = (discarded \/ gone' # gone)
        /\ UNCHANGED <<config, attempts, aborted, deadLetter, late, succeeded>>
    BY DEF DlqPublishFails
  <2> QED BY <1>1, <2>1 DEF TypeOK, Pc
<1>3. PipelineMeaning'
  BY <1>1 DEF DlqPublishFails, TypeOK, PipelineMeaning, Pc
<1>4. NotLost'
  BY <1>1 DEF DlqPublishFails, TypeOK, NotLost
<1>5. SettledOnce'
  BY <1>1 DEF DlqPublishFails, TypeOK, PipelineMeaning, SettledOnce, Pc
<1> QED BY <1>2, <1>3, <1>4, <1>5

LEMMA BrokerStep == ASSUME IInv, SettlementTimesOut \/ Crash PROVE IInv'
  BY DEF SettlementTimesOut, Crash, InPipeline, history, IInv, TypeOK, PipelineMeaning,
         NotLost, SettledOnce, Pc

LEMMA IInvStep == IInv /\ [Next]_vars => IInv'
<1> SUFFICES ASSUME IInv, [Next]_vars PROVE IInv'
  OBVIOUS
<1>1. ASSUME NEW d \in Delivery, Deliver(d) PROVE IInv'
  BY <1>1, DeliverStep
<1>2. ASSUME NEW d \in Delivery, HandlerEnds(d) PROVE IInv'
  BY <1>2, HandlerReturnsStep, HandlerFailsStep DEF HandlerEnds
<1>3. ASSUME NEW d \in Delivery, Retry(d) \/ Abort(d) PROVE IInv'
  BY <1>3, RetryStep, AbortStep
<1>4. ASSUME NEW d \in Delivery, DlqStep(d) PROVE IInv'
  BY <1>4, DlqPublishedStep, DlqAcksStep, DlqPublishFailsStep DEF DlqStep
<1>5. ASSUME NEW d \in Delivery, NEW what \in {"ack", "requeue", "drop"}, HandlerSettles(d, what)
      PROVE IInv'
  BY <1>5, HandlerSettlesStep
<1>6. CASE SettlementTimesOut \/ Crash
  BY <1>6, BrokerStep
<1>7. CASE UNCHANGED vars
  BY <1>7 DEF vars, broker, history, IInv, TypeOK, PipelineMeaning, NotLost, SettledOnce
<1> QED BY <1>1, <1>2, <1>3, <1>4, <1>5, <1>6, <1>7 DEF Next

LEMMA IInvAlways == Spec => []IInv
  BY IInvInit, IInvStep, PTL DEF Spec

\* The pipeline's state is well typed; in particular the handler is called at
\* most maxRetries + 1 times in a delivery.
THEOREM PipelineTyped == Spec => []TypeOK
  BY IInvAlways, PTL DEF IInv

\* At-least-once delivery: the broker forgets an event only after an attempt
\* completed, it was dead-lettered, or it was given up on purpose.
THEOREM NothingLost == Spec => []NotLost
  BY IInvAlways, PTL DEF IInv

\* The context's flag, the callback's flag and the automatic ack together settle
\* a delivery at most once.
THEOREM OneSettlement == Spec => []SettledOnce
  BY IInvAlways, PTL DEF IInv
=============================================================================
