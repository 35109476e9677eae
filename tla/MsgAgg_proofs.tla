---------------------------- MODULE MsgAgg_proofs ----------------------------
(***************************************************************************)
(* Proofs about MsgAgg, for any set of pads and any number of frames, runs *)
(* and seeks.                                                              *)
(***************************************************************************)
EXTENDS MsgAgg, SequenceFacts, SequenceTheorems, TLAPS

-----------------------------------------------------------------------------
(* The state change in progress, the worker and the pads' activation agree;*)
(* an element in READY has forgotten its last run. *)
RunAgrees ==
  /\ worker = "stopped" <=> app \in {"ready", "starting"}
  /\ app \in {"starting", "playing"} => ~ flushed
  /\ app = "ready" =>
       flushed /\ \A p \in Pads : queue[p] = <<>> /\ sent[p] = 0 /\ delivered[p] = <<>>

(* The worker holds a batch only on its way to gst_pad_push. *)
BatchAgrees == worker # "push" => batch = NoBatch

(* dpad->eos differs from GStreamer's flag only after a seek, when the     *)
(* worker is paused for good; the worker decides to push end of stream     *)
(* only when all pads have ended and are empty, and they stay so.          *)
EosAgrees ==
  /\ worker # "paused" => eos = padEos
  /\ eosPushed => worker = "paused"
  /\ worker = "eos" \/ eosPushed => \A p \in Pads : padEos[p] /\ queue[p] = <<>>

IInv ==
  /\ MsgAggTypeOK
  /\ StreamsIntact
  /\ EosComesLast
  /\ RunAgrees
  /\ BatchAgrees
  /\ EosAgrees

-----------------------------------------------------------------------------
(* A channel's stream: what was delivered, the entry in the batch, and the *)
(* queue, one after the other. *)

Whole(d, b, q, n) == d \o b \o q = [k \in 1 .. n |-> k]

(* A frame joins the queue. *)
LEMMA WholeAppend ==
  ASSUME NEW d \in Seq(Frame), NEW b \in Seq(Frame), NEW q \in Seq(Frame), NEW n \in Nat,
         n + 1 \in Frame, Whole(d, b, q, n)
  PROVE  Whole(d, b, Append(q, n + 1), n + 1)
<1> DEFINE s == [k \in 1 .. n |-> k]
           t == [k \in 1 .. n + 1 |-> k]
<1>1. d \o b \in Seq(Frame) /\ d \o b \o q \in Seq(Frame)
  BY ConcatProperties
<1>2. d \o b \o Append(q, n + 1) = (d \o b) \o (q \o <<n + 1>>)
  BY AppendIsConcat
<1>3. (d \o b) \o (q \o <<n + 1>>) = (d \o b \o q) \o <<n + 1>>
  <2>1. <<n + 1>> \in Seq(Frame)
    OBVIOUS
  <2> QED  BY <1>1, <2>1, ConcatAssociative
<1>4. (d \o b \o q) \o <<n + 1>> = Append(d \o b \o q, n + 1)
  BY <1>1, AppendIsConcat
<1>5. s \in Seq(Frame) /\ Len(s) = n
  BY <1>1 DEF Whole
<1>6. Append(s, n + 1) = t
  BY <1>5
<1> QED  BY <1>2, <1>3, <1>4, <1>6 DEF Whole

(* The head of the queue becomes the entry in the batch. *)
LEMMA WholePop ==
  ASSUME NEW d \in Seq(Frame), NEW q \in Seq(Frame), q # <<>>, NEW n \in Nat,
         Whole(d, <<>>, q, n)
  PROVE  Whole(d, <<Head(q)>>, Tail(q), n)
<1>1. Head(q) \in Frame /\ Tail(q) \in Seq(Frame) /\ <<Head(q)>> \in Seq(Frame)
  BY TailElements
<1>2. <<Head(q)>> \o Tail(q) = q
  BY HeadTailProperties, SMT
<1>3. d \o <<Head(q)>> \o Tail(q) = d \o (<<Head(q)>> \o Tail(q))
  BY <1>1, ConcatAssociative
<1>4. d \o <<>> = d
  BY ConcatEmptySeq
<1> QED  BY <1>2, <1>3, <1>4 DEF Whole

(* The entry in the batch is delivered. *)
LEMMA WholePush ==
  ASSUME NEW d \in Seq(Frame), NEW x \in Frame, NEW q \in Seq(Frame), NEW n \in Nat,
         Whole(d, <<x>>, q, n)
  PROVE  Whole(Append(d, x), <<>>, q, n)
<1>1. Append(d, x) = d \o <<x>> /\ Append(d, x) \in Seq(Frame)
  BY AppendIsConcat, AppendElements
<1>2. Append(d, x) \o <<>> = Append(d, x)
  BY <1>1, ConcatEmptySeq
<1> QED  BY <1>1, <1>2 DEF Whole

(* When nothing is queued or on its way, all was delivered. *)
LEMMA WholeDelivered ==
  ASSUME NEW d \in Seq(Frame), NEW n \in Nat, Whole(d, <<>>, <<>>, n)
  PROVE  Len(d) = n
<1>1. d \o <<>> \o <<>> = d
  BY ConcatEmptySeq
<1>2. d = [k \in 1 .. n |-> k]
  BY <1>1 DEF Whole
<1> QED  BY <1>2

(* Nothing sent, nothing anywhere. *)
LEMMA WholeEmpty == Whole(<<>>, <<>>, <<>>, 0)
  BY ConcatEmptySeq DEF Whole

-----------------------------------------------------------------------------
(* The streams of all the pads, and what else changes with them. *)

Streams == \A p \in Pads : Whole(delivered[p], InBatch(p), queue[p], sent[p])

LEMMA StreamsAreIntact == StreamsIntact <=> (~ flushed => Streams)
  BY DEF StreamsIntact, Streams, Whole

LEMMA BatchType ==
  ASSUME MsgAggTypeOK, NEW p \in Pads
  PROVE  /\ InBatch(p) \in Seq(Frame)
         /\ batch = NoBatch => InBatch(p) = <<>>
  BY DEF MsgAggTypeOK, InBatch, NoBatch

(* Steps that move no frame. *)
LEMMA QuietStreams ==
  ASSUME IInv, UNCHANGED <<queue, batch, delivered, sent>>, ~ flushed' => ~ flushed \/ app = "ready"
  PROVE  StreamsIntact'
<1>1. CASE flushed'
  BY <1>1 DEF StreamsIntact
<1>2. CASE ~ flushed' /\ ~ flushed
  <2>1. Streams
    BY <1>2, StreamsAreIntact DEF IInv
  <2> QED  BY <2>1 DEF StreamsIntact, Streams, Whole, InBatch
<1>3. CASE app = "ready"
  <2>1. worker = "stopped"
    BY <1>3 DEF IInv, RunAgrees
  <2>2. batch = NoBatch
    BY <2>1 DEF IInv, BatchAgrees
  <2>3. \A p \in Pads : queue[p] = <<>> /\ sent[p] = 0 /\ delivered[p] = <<>> /\ InBatch(p) = <<>>
    BY <1>3, <2>2, BatchType DEF IInv, RunAgrees
  <2>4. Streams
    BY <2>3, WholeEmpty DEF Streams
  <2> QED  BY <2>4 DEF StreamsIntact, Streams, Whole, InBatch
<1> QED  BY <1>1, <1>2, <1>3

(* The chain function: one more frame is sent, at the end of its queue. *)
LEMMA DataChainInv ==
  ASSUME IInv, NEW p \in Pads, DataChain(p)
  PROVE  IInv'
<1> USE DEF IInv, DataChain, outVars, appVars
<1>1. sent[p] \in Nat /\ sent[p] + 1 \in Frame /\ sent[p] + 1 \in 0 .. MaxFrames
  BY MsgAggAssumption DEF MsgAggTypeOK, Frame
<1>2. /\ sent' = [sent EXCEPT ![p] = sent[p] + 1]
      /\ queue' = [queue EXCEPT ![p] = Append(queue[p], sent[p] + 1)]
      /\ UNCHANGED <<eos, active, worker, batch, padEos, delivered, eosPushed, app, flushed, runs, loops>>
      /\ awake' = TRUE /\ ~ flushed /\ ~ padEos[p]
  BY DEF MsgAggTypeOK
<1>3. queue[p] \in Seq(Frame) /\ Append(queue[p], sent[p] + 1) \in Seq(Frame)
  BY <1>1, AppendElements DEF MsgAggTypeOK
<1>4. MsgAggTypeOK'
  BY <1>1, <1>2, <1>3 DEF MsgAggTypeOK
<1>5. StreamsIntact'
  <2>1. ASSUME NEW q \in Pads PROVE Whole(delivered[q], InBatch(q), queue'[q], sent'[q])
    <3>1. Whole(delivered[q], InBatch(q), queue[q], sent[q])
      BY <1>2, StreamsAreIntact DEF Streams
    <3>2. delivered[q] \in Seq(Frame) /\ InBatch(q) \in Seq(Frame)
      BY BatchType DEF MsgAggTypeOK
    <3>3. CASE q = p
      <4>1. queue'[q] = Append(queue[q], sent[q] + 1) /\ sent'[q] = sent[q] + 1
        BY <3>3, <1>2 DEF MsgAggTypeOK
      <4> QED  BY <4>1, <3>1, <3>2, <3>3, <1>1, <1>3, WholeAppend
    <3>4. CASE q # p
      <4>1. queue'[q] = queue[q] /\ sent'[q] = sent[q]
        BY <3>4, <1>2 DEF MsgAggTypeOK
      <4> QED  BY <4>1, <3>1
    <3> QED  BY <3>3, <3>4
  <2> QED  BY <1>2, <2>1 DEF StreamsIntact, Whole, InBatch
<1>6. ~ eosPushed /\ worker # "eos"
  BY <1>2 DEF EosAgrees
<1>7. app # "ready"
  BY <1>2 DEF RunAgrees
<1>8. EosComesLast' /\ RunAgrees' /\ BatchAgrees' /\ EosAgrees'
  BY <1>2, <1>6, <1>7 DEF EosComesLast, RunAgrees, BatchAgrees, EosAgrees
<1> QED  BY <1>4, <1>5, <1>8

(* The event function: a pad ends. *)
LEMMA DataEosInv ==
  ASSUME IInv, NEW p \in Pads, DataEos(p)
  PROVE  IInv'
<1> USE DEF IInv, DataEos, outVars, appVars
<1>1. StreamsIntact'
  BY QuietStreams
<1>2. MsgAggTypeOK' /\ EosComesLast' /\ RunAgrees' /\ BatchAgrees'
  BY DEF MsgAggTypeOK, EosComesLast, RunAgrees, BatchAgrees
<1>3. EosAgrees'
  BY DEF EosAgrees
<1> QED  BY <1>1, <1>2, <1>3

(* The worker goes from one wait to the next, returns, or sees the end. *)
LEMMA WorkerMovesInv ==
  ASSUME IInv, worker \in {"top", "wait1", "wait2"},
         worker' \in {"top", "wait1", "wait2", "paused", "eos"},
         worker' = "eos" => all_pads_eos /\ ~ any_pad_has_data,
         awake' \in BOOLEAN,
         UNCHANGED <<queue, batch, eos, active, dataVars, outVars, appVars>>
  PROVE  IInv'
<1> USE DEF IInv, dataVars, outVars, appVars
<1>1. StreamsIntact'
  BY QuietStreams
<1>2. MsgAggTypeOK' /\ EosComesLast' /\ RunAgrees' /\ BatchAgrees'
  BY DEF MsgAggTypeOK, EosComesLast, RunAgrees, BatchAgrees
<1>3. EosAgrees'
  BY DEF EosAgrees, all_pads_eos, any_pad_has_data
<1> QED  BY <1>1, <1>2, <1>3

(* Phase 3: the heads of the queues become the batch. *)
LEMMA MergeInv ==
  ASSUME IInv, worker \in {"top", "wait1", "wait2"}, BuildSceneMerge, awake' \in BOOLEAN,
         UNCHANGED <<eos, active, dataVars, outVars, appVars>>
  PROVE  IInv'
<1> USE DEF IInv, dataVars, outVars, appVars
<1>1. batch = NoBatch
  BY DEF BatchAgrees
<1>2. ASSUME NEW p \in Pads
      PROVE  /\ batch'[p] = IF queue[p] = <<>> THEN NoFrame ELSE Head(queue[p])
             /\ queue'[p] = IF queue[p] = <<>> THEN <<>> ELSE Tail(queue[p])
             /\ queue[p] \in Seq(Frame) /\ delivered[p] \in Seq(Frame) /\ sent[p] \in Nat
             /\ queue[p] # <<>> => Head(queue[p]) \in Frame /\ Tail(queue[p]) \in Seq(Frame)
  <2>1. queue[p] \in Seq(Frame) /\ delivered[p] \in Seq(Frame) /\ sent[p] \in Nat
    BY MsgAggAssumption DEF MsgAggTypeOK
  <2>2. queue[p] # <<>> => Head(queue[p]) \in Frame /\ Tail(queue[p]) \in Seq(Frame)
    BY <2>1, TailElements
  <2> QED  BY <2>1, <2>2 DEF BuildSceneMerge
<1>3. MsgAggTypeOK'
  <2>1. batch' \in [Pads -> Frame \cup {NoFrame}]
    BY <1>2 DEF BuildSceneMerge
  <2>2. queue' \in [Pads -> Seq(Frame)]
    BY <1>2 DEF BuildSceneMerge
  <2> QED  BY <2>1, <2>2 DEF MsgAggTypeOK, BuildSceneMerge
<1>4. StreamsIntact'
  <2> SUFFICES ASSUME ~ flushed, NEW p \in Pads
               PROVE  Whole(delivered[p], InBatch(p)', queue'[p], sent[p])
    BY DEF StreamsIntact, Whole
  <2>1. Whole(delivered[p], <<>>, queue[p], sent[p])
    BY <1>1, StreamsAreIntact, BatchType DEF Streams
  <2>2. CASE queue[p] = <<>>
    <3>1. queue'[p] = <<>> /\ InBatch(p)' = <<>>
      BY <2>2, <1>2 DEF InBatch
    <3> QED  BY <3>1, <2>1, <2>2
  <2>3. CASE queue[p] # <<>>
    <3>1. Head(queue[p]) # NoFrame
      BY <2>3, <1>2 DEF Frame, NoFrame
    <3>2. queue'[p] = Tail(queue[p]) /\ InBatch(p)' = <<Head(queue[p])>>
      BY <2>3, <3>1, <1>2 DEF InBatch
    <3> QED  BY <3>2, <2>1, <2>3, <1>2, WholePop
  <2> QED  BY <2>2, <2>3
<1>5. ~ eosPushed /\ worker' = "push"
  BY DEF EosAgrees, BuildSceneMerge
<1>6. app # "ready"
  BY DEF RunAgrees
<1>7. EosComesLast' /\ RunAgrees' /\ BatchAgrees' /\ EosAgrees'
  BY <1>5, <1>6 DEF EosComesLast, RunAgrees, BatchAgrees, EosAgrees
<1> QED  BY <1>3, <1>4, <1>7

(* The worker's function up to its last wait. *)
LEMMA WorkerWaitsInv ==
  ASSUME IInv, WorkerEnters \/ WorkerWoken \/ WorkerRechecks \/ WorkerTimesOut
  PROVE  IInv'
<1>1. /\ worker \in {"top", "wait1", "wait2"} /\ awake' \in BOOLEAN
      /\ UNCHANGED <<eos, active, dataVars, outVars, appVars>>
      /\ FirstWait \/ (worker = "wait2" /\ (SecondWaitOver(FALSE) \/ SecondWaitOver(TRUE)))
  BY DEF WorkerEnters, WorkerWoken, WorkerRechecks, WorkerTimesOut, FirstWait, IInv, MsgAggTypeOK
<1>2. \/ BuildSceneMerge
      \/ /\ UNCHANGED <<queue, batch>>
         /\ worker' \in {"top", "wait1", "wait2", "paused", "eos"}
         /\ worker' = "eos" => all_pads_eos /\ ~ any_pad_has_data
  BY <1>1 DEF FirstWait, SecondWaitOver, WorkerGoes, WorkerReturns
<1> QED  BY <1>1, <1>2, MergeInv, WorkerMovesInv

(* gst_pad_push: the batch is delivered, or lost to the flush. *)
LEMMA WorkerPushesInv ==
  ASSUME IInv, WorkerPushes
  PROVE  IInv'
<1> USE DEF IInv, WorkerPushes, dataVars, appVars
<1>1. ASSUME NEW p \in Pads
      PROVE  /\ delivered[p] \in Seq(Frame) /\ queue[p] \in Seq(Frame) /\ sent[p] \in Nat
             /\ batch[p] \in Frame \cup {NoFrame}
             /\ batch[p] # NoFrame => Append(delivered[p], batch[p]) \in Seq(Frame)
  BY MsgAggAssumption, AppendElements DEF MsgAggTypeOK
<1>2. NoFrame \notin Frame
  BY DEF Frame, NoFrame
<1>3. worker' \in {"paused", "top"}
  BY DEF WorkerReturns
<1>4. MsgAggTypeOK'
  <2>1. delivered' \in [Pads -> Seq(Frame)]
    <3>1. CASE flushed
      BY <3>1 DEF MsgAggTypeOK
    <3>2. CASE ~ flushed
      BY <3>2, <1>1
    <3> QED  BY <3>1, <3>2
  <2>2. batch' \in [Pads -> Frame \cup {NoFrame}]
    BY DEF NoBatch
  <2> QED  BY <2>1, <2>2, <1>3 DEF MsgAggTypeOK
<1>5. StreamsIntact'
  <2> SUFFICES ASSUME ~ flushed, NEW p \in Pads
               PROVE  Whole(delivered'[p], InBatch(p)', queue[p], sent[p])
    BY DEF StreamsIntact, Whole
  <2>1. Whole(delivered[p], InBatch(p), queue[p], sent[p])
    BY StreamsAreIntact DEF Streams
  <2>2. InBatch(p)' = <<>>
    BY DEF InBatch, NoBatch
  <2>3. CASE batch[p] = NoFrame
    <3>1. delivered'[p] = delivered[p] /\ InBatch(p) = <<>>
      BY <2>3 DEF InBatch
    <3> QED  BY <3>1, <2>1, <2>2
  <2>4. CASE batch[p] # NoFrame
    <3>1. delivered'[p] = Append(delivered[p], batch[p]) /\ InBatch(p) = <<batch[p]>>
      BY <2>4 DEF InBatch
    <3> QED  BY <3>1, <2>1, <2>2, <2>4, <1>1, WholePush
  <2> QED  BY <2>3, <2>4
<1>6. ~ eosPushed /\ worker # "eos" /\ app # "ready"
  BY DEF EosAgrees, RunAgrees
<1>7. EosComesLast' /\ RunAgrees' /\ BatchAgrees' /\ EosAgrees'
  BY <1>3, <1>6 DEF EosComesLast, RunAgrees, BatchAgrees, EosAgrees
<1> QED  BY <1>4, <1>5, <1>7

(* End of stream is pushed: all that the channels sent is delivered. *)
LEMMA WorkerPushesEosInv ==
  ASSUME IInv, WorkerPushesEos
  PROVE  IInv'
<1> USE DEF IInv, WorkerPushesEos, dataVars, appVars
<1>1. StreamsIntact'
  BY QuietStreams
<1>2. MsgAggTypeOK' /\ RunAgrees' /\ BatchAgrees' /\ EosAgrees'
  BY DEF MsgAggTypeOK, RunAgrees, BatchAgrees, EosAgrees
<1>3. EosComesLast'
  <2> SUFFICES ASSUME eosPushed', NEW p \in Pads
               PROVE  padEos[p] /\ Len(delivered[p]) = sent[p]
    BY DEF EosComesLast
  <2>1. CASE eosPushed
    BY <2>1 DEF EosComesLast
  <2>2. CASE ~ flushed
    <3>1. padEos[p] /\ queue[p] = <<>>
      BY DEF EosAgrees
    <3>2. InBatch(p) = <<>>
      BY BatchType DEF BatchAgrees
    <3>3. Whole(delivered[p], <<>>, <<>>, sent[p])
      BY <2>2, <3>1, <3>2, StreamsAreIntact DEF Streams
    <3>4. delivered[p] \in Seq(Frame) /\ sent[p] \in Nat
      BY MsgAggAssumption DEF MsgAggTypeOK
    <3> QED  BY <3>1, <3>3, <3>4, WholeDelivered
  <2> QED  BY <2>1, <2>2
<1> QED  BY <1>1, <1>2, <1>3

-----------------------------------------------------------------------------
(* The state changes but the last. *)
LEMMA StateChangeInv ==
  ASSUME IInv, StartElement \/ StartWorker \/ StopElement \/ DeactivatePads
  PROVE  IInv'
<1> USE DEF IInv, dataVars, outVars, appVars
<1>1. UNCHANGED <<queue, eos, batch, sent, padEos, delivered, eosPushed, loops>>
  BY DEF StartElement, StartWorker, StopElement, DeactivatePads
<1>2. ~ flushed' => ~ flushed \/ app = "ready"
  BY DEF StartElement, StartWorker, StopElement, DeactivatePads
<1>3. StreamsIntact'
  BY <1>1, <1>2, QuietStreams
<1>4. EosComesLast'
  BY <1>1 DEF EosComesLast
<1>5. MsgAggTypeOK'
  <2>1. runs' \in 0 .. MaxRuns
    BY MsgAggAssumption DEF StartElement, StartWorker, StopElement, DeactivatePads, MsgAggTypeOK
  <2> QED  BY <1>1, <2>1 DEF StartElement, StartWorker, StopElement, DeactivatePads, MsgAggTypeOK
<1>6. RunAgrees' /\ BatchAgrees'
  BY <1>1 DEF StartElement, StartWorker, StopElement, DeactivatePads, RunAgrees, BatchAgrees
<1>7. EosAgrees'
  BY <1>1 DEF StartElement, StartWorker, StopElement, DeactivatePads, EosAgrees, RunAgrees
<1> QED  BY <1>3, <1>4, <1>5, <1>6, <1>7

(* The worker is joined and everything of the run forgotten. *)
LEMMA JoinWorkerInv ==
  ASSUME IInv, JoinWorker
  PROVE  IInv'
<1> USE DEF IInv, JoinWorker
<1>1. batch = NoBatch
  BY DEF BatchAgrees
<1>2. ASSUME NEW p \in Pads PROVE queue'[p] = <<>> /\ sent'[p] = 0 /\ delivered'[p] = <<>>
  OBVIOUS
<1>3. MsgAggTypeOK'
  <2>1. <<>> \in Seq(Frame) /\ 0 \in 0 .. MaxFrames
    BY MsgAggAssumption
  <2>2. /\ queue' \in [Pads -> Seq(Frame)] /\ delivered' \in [Pads -> Seq(Frame)]
        /\ sent' \in [Pads -> 0 .. MaxFrames]
        /\ eos' \in [Pads -> BOOLEAN] /\ padEos' \in [Pads -> BOOLEAN]
    BY <2>1
  <2> QED  BY <2>2 DEF MsgAggTypeOK
<1>4. StreamsIntact' /\ EosComesLast'
  BY DEF StreamsIntact, EosComesLast
<1>5. RunAgrees' /\ BatchAgrees' /\ EosAgrees'
  BY <1>1, <1>2 DEF RunAgrees, BatchAgrees, EosAgrees
<1> QED  BY <1>3, <1>4, <1>5

(* The application seeks back to the start: nothing of the first pass is   *)
(* left anywhere. *)
LEMMA SeekInv ==
  ASSUME IInv, SeekPipelineToStart
  PROVE  IInv'
<1> USE DEF IInv, SeekPipelineToStart
<1>1. worker = "paused" /\ batch = NoBatch /\ ~ flushed
  BY DEF EosAgrees, BatchAgrees, RunAgrees
<1>2. ASSUME NEW p \in Pads
      PROVE  queue'[p] = <<>> /\ InBatch(p)' = <<>> /\ sent'[p] = 0 /\ delivered'[p] = <<>>
  BY <1>1 DEF EosAgrees, InBatch, NoBatch
<1>3. MsgAggTypeOK'
  <2>1. <<>> \in Seq(Frame) /\ 0 \in 0 .. MaxFrames /\ loops' \in 0 .. MaxLoops
    BY MsgAggAssumption DEF MsgAggTypeOK
  <2>2. /\ delivered' \in [Pads -> Seq(Frame)] /\ sent' \in [Pads -> 0 .. MaxFrames]
        /\ padEos' \in [Pads -> BOOLEAN]
    BY <2>1
  <2> QED  BY <2>1, <2>2 DEF MsgAggTypeOK
<1>4. StreamsIntact'
  <2>1. \A p \in Pads : Whole(delivered'[p], InBatch(p)', queue'[p], sent'[p])
    BY <1>2, WholeEmpty
  <2> QED  BY <2>1 DEF StreamsIntact, Whole
<1>5. EosComesLast' /\ RunAgrees' /\ BatchAgrees' /\ EosAgrees'
  BY <1>1 DEF EosComesLast, RunAgrees, BatchAgrees, EosAgrees
<1> QED  BY <1>3, <1>4, <1>5

(* IInv is inductive. *)
LEMMA NextInv == IInv /\ [Next]_vars => IInv'
<1> SUFFICES ASSUME IInv, [Next]_vars PROVE IInv'
  OBVIOUS
<1>1. ASSUME NEW p \in Pads, DataChain(p) \/ DataEos(p) PROVE IInv'
  BY <1>1, DataChainInv, DataEosInv
<1>2. CASE WorkerStep \/ WorkerTimesOut
  BY <1>2, WorkerWaitsInv, WorkerPushesInv, WorkerPushesEosInv DEF WorkerStep
<1>3. CASE StartElement \/ StartWorker \/ StopElement \/ DeactivatePads
  BY <1>3, StateChangeInv
<1>4. CASE JoinWorker \/ SeekPipelineToStart
  BY <1>4, JoinWorkerInv, SeekInv
<1>5. CASE UNCHANGED vars
  <2> USE <1>5 DEF vars, dataVars, outVars, appVars, IInv
  <2>1. StreamsIntact'
    BY QuietStreams
  <2>2. MsgAggTypeOK' /\ EosComesLast' /\ RunAgrees' /\ BatchAgrees' /\ EosAgrees'
    BY DEF MsgAggTypeOK, EosComesLast, RunAgrees, BatchAgrees, EosAgrees
  <2> QED  BY <2>1, <2>2
<1> QED  BY <1>1, <1>2, <1>3, <1>4, <1>5 DEF Next

(* The element starts in READY, empty. *)
LEMMA InitInv == Init => IInv
<1> SUFFICES ASSUME Init PROVE IInv
  OBVIOUS
<1> USE DEF Init
<1>1. MsgAggTypeOK
  <2>1. <<>> \in Seq(Frame) /\ 0 \in 0 .. MaxFrames /\ 0 \in 0 .. MaxRuns /\ 0 \in 0 .. MaxLoops
    BY MsgAggAssumption
  <2>2. /\ queue \in [Pads -> Seq(Frame)] /\ delivered \in [Pads -> Seq(Frame)]
        /\ sent \in [Pads -> 0 .. MaxFrames]
        /\ eos \in [Pads -> BOOLEAN] /\ padEos \in [Pads -> BOOLEAN]
        /\ batch \in [Pads -> Frame \cup {NoFrame}]
    BY <2>1 DEF NoBatch
  <2> QED  BY <2>1, <2>2 DEF MsgAggTypeOK
<1>2. StreamsIntact /\ EosComesLast
  BY DEF StreamsIntact, EosComesLast
<1>3. RunAgrees /\ BatchAgrees /\ EosAgrees
  BY DEF RunAgrees, BatchAgrees, EosAgrees
<1> QED  BY <1>1, <1>2, <1>3 DEF IInv

LEMMA InvAlways == Spec => []IInv
  BY InitInv, NextInv, PTL DEF Spec

-----------------------------------------------------------------------------
(* Type correctness: no placeholder of a pad without an entry is ever      *)
(* delivered, and a merge never pops an empty queue.                       *)
THEOREM MsgAggTypeCorrect == Spec => []MsgAggTypeOK
<1>1. IInv => MsgAggTypeOK
  BY DEF IInv
<1> QED  BY <1>1, InvAlways, PTL

(* However the batching, its deadline, the ends of the pads and the state  *)
(* changes interleave, what was delivered, is being pushed and is queued   *)
(* make up what each channel sent, in order.                               *)
THEOREM StreamsStayIntact == Spec => []StreamsIntact
<1>1. IInv => StreamsIntact
  BY DEF IInv
<1> QED  BY <1>1, InvAlways, PTL

(* Downstream sees end of stream only after all the data of all pads.      *)
THEOREM EosAlwaysLast == Spec => []EosComesLast
<1>1. IInv => EosComesLast
  BY DEF IInv
<1> QED  BY <1>1, InvAlways, PTL

(* The dual of the finding about seeking: a pad's own end-of-stream flag   *)
(* disagrees with GStreamer's only while the worker is paused, so a worker *)
(* that runs never mistakes a channel that sends again for one that ended. *)
THEOREM StaleEosOnlyWhenPaused == Spec => [](worker # "paused" => eos = padEos)
<1>1. IInv => (worker # "paused" => eos = padEos)
  BY DEF IInv, EosAgrees
<1> QED  BY <1>1, InvAlways, PTL

=============================================================================
