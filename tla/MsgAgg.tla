------------------------------- MODULE MsgAgg -------------------------------
(***************************************************************************)
(* The msgagg element (channel_worker/msg_agg/gst_plugin/gstmsgagg.cpp):   *)
(* one request pad per channel with a queue each, and a worker task that   *)
(* merges the oldest entry of every pad into one scene_update.             *)
(*                                                                         *)
(* Four kinds of threads meet here: the channels' streaming threads (chain *)
(* and event functions), the worker, the application thread that changes   *)
(* the element's state, and the timer of the worker's second wait.  Every  *)
(* access to the queues and flags is under agg->lock, so the code between  *)
(* two waits or unlocks is one step.                                       *)
(*                                                                         *)
(* Frames of a channel are numbered in the order they are pushed.          *)
(***************************************************************************)
EXTENDS Integers, Sequences, FiniteSets

CONSTANTS Pads,
          MaxFrames,    \* frames a channel's file has
          MaxRuns,      \* times the element goes from READY to PAUSED
          MaxLoops      \* times the application seeks back to the start

ASSUME MsgAggAssumption ==
  /\ Pads # {}
  /\ MaxFrames \in Nat
  /\ MaxRuns \in Nat \ {0}
  /\ MaxLoops \in Nat

VARIABLES queue,        \* dpad->queue
          eos,          \* dpad->eos
          active,       \* agg->active
          worker,       \* where the worker task is
          awake,        \* wakeup was signalled since the worker began to wait
          batch,        \* what the worker popped and has not pushed yet
          app,          \* the state change in progress
          flushed,      \* the pads have been deactivated
          sent,         \* frames pushed into each pad in this run
          padEos,       \* GStreamer's own end-of-stream flag of each pad
          delivered,    \* frames of each channel pushed downstream, in order
          eosPushed,    \* end of stream was pushed downstream
          runs, loops

dataVars == <<sent, padEos>>
outVars == <<delivered, eosPushed>>
appVars == <<app, flushed, runs, loops>>
vars == <<queue, eos, active, worker, awake, batch, dataVars, outVars, appVars>>

Frame == 1 .. MaxFrames

NoFrame == 0

NoBatch == [p \in Pads |-> NoFrame]

(* Queues, the batch and what is delivered hold frames of the file, never a*)
(* placeholder, and every thread is at a place of its function.            *)
MsgAggTypeOK ==
  /\ queue \in [Pads -> Seq(Frame)]
  /\ eos \in [Pads -> BOOLEAN]
  /\ active \in BOOLEAN
  /\ worker \in {"stopped", "top", "wait1", "wait2", "push", "eos", "paused"}
  /\ awake \in BOOLEAN
  /\ batch \in [Pads -> Frame \cup {NoFrame}]
  /\ app \in {"ready", "starting", "playing", "joining"}
  /\ flushed \in BOOLEAN
  /\ sent \in [Pads -> 0 .. MaxFrames]
  /\ padEos \in [Pads -> BOOLEAN]
  /\ delivered \in [Pads -> Seq(Frame)]
  /\ eosPushed \in BOOLEAN
  /\ runs \in 0 .. MaxRuns
  /\ loops \in 0 .. MaxLoops

(* The element is in READY, its pads requested. *)
Init ==
  /\ queue = [p \in Pads |-> <<>>]
  /\ eos = [p \in Pads |-> FALSE]
  /\ active = FALSE
  /\ worker = "stopped"
  /\ awake = FALSE
  /\ batch = NoBatch
  /\ app = "ready"
  /\ flushed = TRUE
  /\ sent = [p \in Pads |-> 0]
  /\ padEos = [p \in Pads |-> FALSE]
  /\ delivered = [p \in Pads |-> <<>>]
  /\ eosPushed = FALSE
  /\ runs = 0
  /\ loops = 0

all_pads_have_data == \A p \in Pads : eos[p] \/ queue[p] # <<>>

all_pads_eos == \A p \in Pads : eos[p]

any_pad_has_data == \E p \in Pads : queue[p] # <<>>

-----------------------------------------------------------------------------
(* The streaming threads. *)

(* Mutant: the push is not signalled. *)
DataChainNoSignal(p) ==
  /\ ~ flushed
  /\ ~ padEos[p]
  /\ sent[p] < MaxFrames
  /\ sent' = [sent EXCEPT ![p] = @ + 1]
  /\ queue' = [queue EXCEPT ![p] = Append(@, sent'[p])]
  /\ UNCHANGED <<eos, active, worker, awake, batch, padEos, outVars, appVars>>

(* gst_msg_agg_data_chain: queue the metadata and signal wakeup. *)
DataChain(p) ==
  /\ ~ flushed
  /\ ~ padEos[p]
  /\ sent[p] < MaxFrames
  /\ sent' = [sent EXCEPT ![p] = @ + 1]
  /\ queue' = [queue EXCEPT ![p] = Append(@, sent'[p])]
  /\ awake' = TRUE
  /\ UNCHANGED <<eos, active, worker, batch, padEos, outVars, appVars>>

(* Mutant: the end of a pad is not signalled. *)
DataEosNoSignal(p) ==
  /\ ~ flushed
  /\ ~ padEos[p]
  /\ padEos' = [padEos EXCEPT ![p] = TRUE]
  /\ eos' = [eos EXCEPT ![p] = TRUE]
  /\ UNCHANGED <<queue, active, worker, awake, batch, sent, outVars, appVars>>

(* gst_msg_agg_data_event with EOS; GStreamer refuses buffers after it. *)
DataEos(p) ==
  /\ ~ flushed
  /\ ~ padEos[p]
  /\ padEos' = [padEos EXCEPT ![p] = TRUE]
  /\ eos' = [eos EXCEPT ![p] = TRUE]
  /\ awake' = TRUE
  /\ UNCHANGED <<queue, active, worker, batch, sent, outVars, appVars>>

-----------------------------------------------------------------------------
(* The worker task.  GstTask calls gst_msg_agg_worker_task again and again *)
(* while it is started.                                                    *)

WorkerGoes(place) == worker' = place /\ UNCHANGED <<queue, batch>>

(* The task runs its function again unless it was paused meanwhile. *)
WorkerReturns == worker' = IF app = "joining" THEN "paused" ELSE "top"

(* Mutant: the entries are read and left in the queues. *)
BuildSceneMergePeek ==
  /\ batch' = [p \in Pads |-> IF queue[p] = <<>> THEN NoFrame ELSE Head(queue[p])]
  /\ queue' = queue
  /\ worker' = "push"

(* Phase 3, still under the lock: pop from each pad that has an entry. *)
BuildSceneMerge ==
  /\ batch' = [p \in Pads |-> IF queue[p] = <<>> THEN NoFrame ELSE Head(queue[p])]
  /\ queue' = [p \in Pads |-> IF queue[p] = <<>> THEN <<>> ELSE Tail(queue[p])]
  /\ worker' = "push"

(* Mutant: the end of all pads is noticed before the data they still hold. *)
FirstWaitEosFirst ==
  /\ awake' = FALSE
  /\ WorkerGoes(IF ~ active THEN "paused" ELSE IF all_pads_eos THEN "eos"
                ELSE IF any_pad_has_data THEN "wait2" ELSE "wait1")

(* The test of the first wait and what follows it until the next wait or   *)
(* unlock.                                                                 *)
FirstWait ==
  /\ awake' = FALSE
  /\ \/ /\ ~ active
        /\ WorkerReturns
        /\ UNCHANGED <<queue, batch>>
     \/ /\ active
        /\ any_pad_has_data
        /\ all_pads_have_data
        /\ BuildSceneMerge
     \/ /\ active
        /\ any_pad_has_data
        /\ ~ all_pads_have_data
        /\ WorkerGoes("wait2")
     \/ /\ active
        /\ ~ any_pad_has_data
        /\ WorkerGoes(IF all_pads_eos THEN "eos" ELSE "wait1")

WorkerEnters ==
  /\ worker = "top"
  /\ FirstWait
  /\ UNCHANGED <<eos, active, dataVars, outVars, appVars>>

WorkerWoken ==
  /\ worker = "wait1"
  /\ awake
  /\ FirstWait
  /\ UNCHANGED <<eos, active, dataVars, outVars, appVars>>

(* The second wait ends: the pads are complete, or it was for the last     *)
(* time because the deadline passed.                                       *)
SecondWaitOver(timedOut) ==
  \/ /\ ~ active
     /\ WorkerReturns
     /\ UNCHANGED <<queue, batch>>
  \/ /\ active
     /\ all_pads_have_data \/ timedOut
     /\ BuildSceneMerge
  \/ /\ active
     /\ ~ all_pads_have_data
     /\ ~ timedOut
     /\ UNCHANGED <<worker, queue, batch>>

WorkerRechecks ==
  /\ worker = "wait2"
  /\ awake
  /\ awake' = FALSE
  /\ SecondWaitOver(FALSE)
  /\ UNCHANGED <<eos, active, dataVars, outVars, appVars>>

WorkerTimesOut ==
  /\ worker = "wait2"
  /\ SecondWaitOver(TRUE)
  /\ UNCHANGED <<awake, eos, active, dataVars, outVars, appVars>>

(* Mutant: a pad without an entry contributes an empty one. *)
WorkerPushesPlaceholders ==
  /\ worker = "push"
  /\ delivered' = IF flushed THEN delivered
                  ELSE [p \in Pads |-> Append(delivered[p], batch[p])]
  /\ batch' = NoBatch
  /\ WorkerReturns
  /\ UNCHANGED <<queue, eos, active, awake, dataVars, eosPushed, appVars>>

(* gst_pad_push, without the lock.  After the pads are deactivated it      *)
(* answers FLUSHING and the batch is gone.                                 *)
WorkerPushes ==
  /\ worker = "push"
  /\ delivered' = IF flushed THEN delivered
                  ELSE [p \in Pads |-> IF batch[p] = NoFrame THEN delivered[p]
                                       ELSE Append(delivered[p], batch[p])]
  /\ batch' = NoBatch
  /\ WorkerReturns
  /\ UNCHANGED <<queue, eos, active, awake, dataVars, eosPushed, appVars>>

(* Every pad is at its end and empty: push end of stream, pause the task. *)
WorkerPushesEos ==
  /\ worker = "eos"
  /\ eosPushed' = (eosPushed \/ ~ flushed)
  /\ worker' = "paused"
  /\ UNCHANGED <<queue, eos, active, awake, batch, dataVars, delivered, appVars>>

WorkerStep ==
  \/ WorkerEnters
  \/ WorkerWoken
  \/ WorkerRechecks
  \/ WorkerPushes
  \/ WorkerPushesEos

-----------------------------------------------------------------------------
(* The application thread. *)

(* READY to PAUSED: the parent class activates the pads, *)
StartElement ==
  /\ app = "ready"
  /\ runs < MaxRuns
  /\ runs' = runs + 1
  /\ app' = "starting"
  /\ flushed' = FALSE
  /\ UNCHANGED <<queue, eos, active, worker, awake, batch, dataVars, outVars, loops>>

(* then the task is started. *)
StartWorker ==
  /\ app = "starting"
  /\ app' = "playing"
  /\ active' = TRUE
  /\ worker' = "top"
  /\ UNCHANGED <<queue, eos, awake, batch, dataVars, outVars, flushed, runs, loops>>

(* Mutant: the waiting worker is not told. *)
StopElementNoSignal ==
  /\ app = "playing"
  /\ app' = "joining"
  /\ active' = FALSE
  /\ worker' = IF worker = "top" THEN "paused" ELSE worker
  /\ UNCHANGED <<queue, eos, awake, batch, dataVars, outVars, flushed, runs, loops>>

(* PAUSED to READY before the parent class's change_state: active is       *)
(* cleared, wakeup signalled and the task paused.                          *)
StopElement ==
  /\ app = "playing"
  /\ app' = "joining"
  /\ active' = FALSE
  /\ awake' = TRUE
  /\ worker' = IF worker = "top" THEN "paused" ELSE worker
  /\ UNCHANGED <<queue, eos, batch, dataVars, outVars, flushed, runs, loops>>

(* The parent class deactivates the pads. *)
DeactivatePads ==
  /\ app = "joining"
  /\ ~ flushed
  /\ flushed' = TRUE
  /\ UNCHANGED <<queue, eos, active, worker, awake, batch, dataVars, outVars, app, runs, loops>>

(* gst_task_join returns once the worker is out of its function; what the  *)
(* pads still hold is dropped and the flags are cleared.                   *)
JoinWorker ==
  /\ app = "joining"
  /\ flushed
  /\ worker = "paused"
  /\ worker' = "stopped"
  /\ app' = "ready"
  /\ queue' = [p \in Pads |-> <<>>]
  /\ eos' = [p \in Pads |-> FALSE]
  /\ sent' = [p \in Pads |-> 0]
  /\ padEos' = [p \in Pads |-> FALSE]
  /\ delivered' = [p \in Pads |-> <<>>]
  /\ eosPushed' = FALSE
  /\ UNCHANGED <<active, awake, batch, flushed, runs, loops>>

(* The pipeline posted EOS and the application seeks to the start.  The    *)
(* flush takes GStreamer's own flags back; msgagg passes the flush events  *)
(* on (its event function's default case) and keeps dpad->eos.  Frames are *)
(* numbered from one again.                                                *)
SeekPipelineToStart ==
  /\ app = "playing"
  /\ eosPushed
  /\ loops < MaxLoops
  /\ loops' = loops + 1
  /\ padEos' = [p \in Pads |-> FALSE]
  /\ sent' = [p \in Pads |-> 0]
  /\ delivered' = [p \in Pads |-> <<>>]
  /\ eosPushed' = FALSE
  /\ UNCHANGED <<queue, eos, active, worker, awake, batch, app, flushed, runs>>

-----------------------------------------------------------------------------

Next ==
  \/ \E p \in Pads : DataChain(p) \/ DataEos(p)
  \/ WorkerStep
  \/ WorkerTimesOut
  \/ StartElement
  \/ StartWorker
  \/ StopElement
  \/ DeactivatePads
  \/ JoinWorker
  \/ SeekPipelineToStart

Spec == Init /\ [][Next]_vars

(* The worker is scheduled, its timer runs out, and a state change that    *)
(* was begun goes on.  Nothing makes frames arrive.                        *)
FairSpec ==
  /\ Spec
  /\ WF_vars(WorkerStep)
  /\ WF_vars(WorkerTimesOut)
  /\ WF_vars(StartWorker)
  /\ WF_vars(DeactivatePads)
  /\ WF_vars(JoinWorker)

-----------------------------------------------------------------------------

InBatch(p) == IF batch[p] = NoFrame THEN <<>> ELSE <<batch[p]>>

(* Whatever the batching and its timeouts, the frames of a channel reach   *)
(* the scene topic once each and in order: delivered, being pushed and     *)
(* still queued make up exactly what the channel sent.  (A push that the   *)
(* shutdown refuses is the only exception.)                                *)
StreamsIntact ==
  ~ flushed =>
    \A p \in Pads :
      delivered[p] \o InBatch(p) \o queue[p] = [k \in 1 .. sent[p] |-> k]

(* End of stream does not overtake data, on any pad. *)
EosComesLast ==
  eosPushed => \A p \in Pads : padEos[p] /\ Len(delivered[p]) = sent[p]

(* Data that arrives is pushed, even when the other pads stay silent for   *)
(* ever: "Phase 1: wait indefinitely until at least one pad has data".     *)
DataIsPushed ==
  \A p \in Pads, k \in Frame :
    sent[p] >= k /\ active ~> Len(delivered[p]) >= k \/ ~ active

(* The same for a file played once, before any seek to the start. *)
FirstPassIsPushed ==
  \A p \in Pads, k \in Frame :
    loops = 0 /\ sent[p] >= k /\ active ~> Len(delivered[p]) >= k \/ ~ active

(* When every channel has ended for the first time, downstream is told. *)
EosArrives ==
  loops = 0 /\ (\A p \in Pads : padEos[p]) /\ active ~> eosPushed \/ ~ active

(* A state change down always completes: gst_task_join does not hang on a  *)
(* worker that waits.                                                      *)
StopCompletes == app = "joining" ~> app = "ready"

=============================================================================
