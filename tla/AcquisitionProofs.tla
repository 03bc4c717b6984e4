------------------------ MODULE AcquisitionProofs ------------------------
(***************************************************************************)
(* Proofs about Acquisition, for any devices, requests and capacities:     *)
(* type correctness; the polling side, that is what a task knows of its    *)
(* connection and what the batches it sends contain; the write path, with  *)
(* the inductive invariant behind OkMeansExecuted, AtMostOnce,             *)
(* RefusedNeverExecuted and CleanConnection; the refinement of             *)
(* WriteService; the order in which writes are served; and the delays      *)
(* between failed polls.                                                   *)
(***************************************************************************)
EXTENDS Acquisition, SequenceProofs

-----------------------------------------------------------------------------
(* Type correctness.                                                       *)

\* A task goes from one of the named places to another.
LEMMA GotoType ==
  ASSUME NEW d \in Devices, NEW place \in Places, TaskTypeOK, Goto(d, place)
  PROVE  pc' \in [Devices -> Places]
  BY DEF TaskTypeOK, Goto

\* Returning to the top of the loop keeps the types of pc and loopRegs.
LEMMA LoopType ==
  ASSUME NEW d \in Devices, TypeOK, Loop(d)
  PROVE  pc' \in [Devices -> Places] /\ loopRegs' \in [Devices -> 1..MaxRegs]
<1>1. "select" \in Places
  BY DEF Places
<1>2. pc' \in [Devices -> Places]
  BY <1>1, GotoType DEF Loop, TypeOK
<1>3. loopRegs' \in [Devices -> 1..MaxRegs]
  BY DEF Loop, TypeOK, TaskTypeOK, MainTypeOK
<1>4. QED
  BY <1>2, <1>3

\* An answer, or any other progress of a request, keeps the type of st.
LEMMA AnswerType ==
  ASSUME NEW r \in Reqs, NEW a \in {"idle"} \cup Waiting \cup Outcomes,
         RequestTypeOK, Answer(r, a)
  PROVE  st' \in [Reqs -> {"idle"} \cup Waiting \cup Outcomes]
  BY DEF RequestTypeOK, Answer

\* The progress values the actions use are in the type of st.
LEMMA ProgressValues ==
  {"sending", "queued", "serving", "refused", "badreg", "connfail", "exception",
   "closed", "noreply", "abandoned", "ok", "timeout"}
    \subseteq {"idle"} \cup Waiting \cup Outcomes
  BY DEF Waiting, Outcomes, RuledOut

\* What a dispatched write does to the variables it may change.
LEMMA DispatchType ==
  ASSUME NEW d \in Devices, NEW r \in Reqs, TypeOK, Dispatch(d, r)
  PROVE  /\ pc' \in [Devices -> Places]
         /\ client' \in [Devices -> {"absent", "dropped", "live"}]
         /\ loopRegs' \in [Devices -> 1..MaxRegs]
         /\ exch' \in [Devices -> {"none", "pending", "ok", "exception"}]
         /\ st' \in [Reqs -> {"idle"} \cup Waiting \cup Outcomes]
         /\ net' \in [Reqs -> {"none", "wire", "limbo", "gone"}]
<1> USE DEF TypeOK
<1>1. CASE KnownToSource(d, r)
  <2>1. pc' \in [Devices -> Places]
    BY <1>1, GotoType DEF Dispatch, Places
  <2>2. client' \in [Devices -> {"absent", "dropped", "live"}]
    BY <1>1 DEF Dispatch, SetClient, TaskTypeOK
  <2>3. exch' \in [Devices -> {"none", "pending", "ok", "exception"}]
    BY <1>1 DEF Dispatch, TaskTypeOK
  <2>4. st' \in [Reqs -> {"idle"} \cup Waiting \cup Outcomes]
    BY <1>1, AnswerType, ProgressValues DEF Dispatch
  <2>5. net' \in [Reqs -> {"none", "wire", "limbo", "gone"}]
    BY <1>1 DEF Dispatch, RequestTypeOK
  <2>6. loopRegs' \in [Devices -> 1..MaxRegs]
    BY <1>1 DEF Dispatch, TaskTypeOK
  <2>7. QED
    BY <2>1, <2>2, <2>3, <2>4, <2>5, <2>6
<1>2. CASE ~KnownToSource(d, r)
  <2>1. client' \in [Devices -> {"absent", "dropped", "live"}]
    BY <1>2 DEF Dispatch, SetClient, TaskTypeOK
  <2>2. st' \in [Reqs -> {"idle"} \cup Waiting \cup Outcomes]
    BY <1>2, AnswerType, ProgressValues DEF Dispatch
  <2>3. UNCHANGED <<exch, net>> /\ Loop(d)
    BY <1>2 DEF Dispatch
  <2>4. QED
    BY <2>1, <2>2, <2>3, LoopType DEF TaskTypeOK, RequestTypeOK
<1>3. QED
  BY <1>1, <1>2

\* A step of a caller changes only the progress of its request.
LEMMA RequesterType ==
  ASSUME NEW r \in Reqs, NEW from, NEW to \in {"idle"} \cup Waiting \cup Outcomes,
         TypeOK, Requester(r, from, to)
  PROVE  /\ TaskTypeOK' /\ MainTypeOK'
         /\ st' \in [Reqs -> {"idle"} \cup Waiting \cup Outcomes]
         /\ net' \in [Reqs -> {"none", "wire", "limbo", "gone"}]
         /\ executed' \in [Reqs -> Nat]
<1>1. st' \in [Reqs -> {"idle"} \cup Waiting \cup Outcomes]
  BY AnswerType DEF TypeOK, Requester
<1>2. UNCHANGED <<pc, client, srcRegs, loopRegs, nread, failures, backoff, exch,
                  cfgRegs, chan, stored, phase, net, executed>>
  BY DEF Requester, taskVars, dataVars
<1>3. QED
  BY <1>1, <1>2 DEF TypeOK, TaskTypeOK, MainTypeOK, RequestTypeOK

\* The actions of a poll keep the types.
LEMMA PollType ==
  ASSUME TypeOK, NEW d \in Devices, Poll(d)
  PROVE  TypeOK'
<1> USE DEF TypeOK
<1>1. ASSUME UNCHANGED <<cfgRegs, dataVars, reqVars, phase>>
      PROVE  RequestTypeOK' /\ MainTypeOK'
  BY <1>1 DEF RequestTypeOK, MainTypeOK, dataVars, reqVars
<1>2. CASE Tick(d)
  <2>1. pc' \in [Devices -> Places]
    BY <1>2 DEF Tick, StartReading, Goto, Places, TaskTypeOK
  <2>2. nread' \in [Devices -> 0..MaxRegs]
    BY <1>2, RegsAssumption DEF Tick, StartReading, TaskTypeOK
  <2>3. exch' \in [Devices -> {"none", "pending", "ok", "exception"}]
    BY <1>2 DEF Tick, StartReading, TaskTypeOK
  <2>4. UNCHANGED <<client, srcRegs, loopRegs, failures, backoff>>
    BY <1>2 DEF Tick
  <2>5. QED
    BY <1>1, <1>2, <2>1, <2>2, <2>3, <2>4 DEF Tick, TaskTypeOK
<1>3. CASE Connected(d)
  <2>1. pc' \in [Devices -> Places]
    BY <1>3 DEF Connected, StartReading, Goto, Places, TaskTypeOK
  <2>2. nread' \in [Devices -> 0..MaxRegs]
    BY <1>3, RegsAssumption DEF Connected, StartReading, TaskTypeOK
  <2>3. exch' \in [Devices -> {"none", "pending", "ok", "exception"}]
    BY <1>3 DEF Connected, StartReading, TaskTypeOK
  <2>4. client' \in [Devices -> {"absent", "dropped", "live"}]
    BY <1>3 DEF Connected, TaskTypeOK
  <2>5. srcRegs' \in [Devices -> 0..MaxRegs]
    BY <1>3, RegsAssumption DEF Connected, TaskTypeOK
  <2>6. failures' \in [Devices -> 0..MaxExponent]
    BY <1>3, BackoffAssumption DEF Connected, TaskTypeOK
  <2>7. UNCHANGED <<loopRegs, backoff>>
    BY <1>3 DEF Connected
  <2>8. QED
    BY <1>1, <1>3, <2>1, <2>2, <2>3, <2>4, <2>5, <2>6, <2>7 DEF Connected, TaskTypeOK
<1>4. CASE PollFailed(d)
  <2> DEFINE f == Lesser(failures[d] + 1, MaxExponent)
  <2>1. f \in 1..MaxExponent
    BY BackoffAssumption DEF TaskTypeOK, Lesser
  <2>2. pc' \in [Devices -> Places]
    BY <1>4 DEF PollFailed, DropSource, Goto, Places, TaskTypeOK
  <2>3. failures' \in [Devices -> 0..MaxExponent]
    BY <1>4, <2>1 DEF PollFailed, DropSource, TaskTypeOK
  <2>4. Delay(f) \in BackoffDelays
    BY <2>1 DEF BackoffDelays
  <2>5. backoff' \in [Devices -> BackoffDelays]
    BY <1>4, <2>4 DEF PollFailed, DropSource, TaskTypeOK
  <2>6. client' \in [Devices -> {"absent", "dropped", "live"}]
    BY <1>4 DEF PollFailed, DropSource, TaskTypeOK
  <2>7. srcRegs' \in [Devices -> 0..MaxRegs] /\ nread' \in [Devices -> 0..MaxRegs]
    BY <1>4, RegsAssumption DEF PollFailed, DropSource, TaskTypeOK
  <2>8. exch' \in [Devices -> {"none", "pending", "ok", "exception"}]
    BY <1>4 DEF PollFailed, DropSource, TaskTypeOK
  <2>9. UNCHANGED loopRegs
    BY <1>4 DEF PollFailed, DropSource
  <2>10. QED
    BY <1>1, <1>4, <2>2, <2>3, <2>5, <2>6, <2>7, <2>8, <2>9 DEF PollFailed, DropSource, TaskTypeOK
<1>5. CASE ReadRegister(d)
  <2>1. nread' \in [Devices -> 0..MaxRegs]
    BY <1>5, RegsAssumption DEF ReadRegister, TaskTypeOK
  <2>2. QED
    BY <1>1, <1>5, <2>1 DEF ReadRegister, TaskTypeOK
<1>6. CASE ReadDone(d)
  <2>1. pc' \in [Devices -> Places]
    BY <1>6 DEF ReadDone, Goto, Places, TaskTypeOK
  <2>2. nread' \in [Devices -> 0..MaxRegs]
    BY <1>6, RegsAssumption DEF ReadDone, LastRegister, TaskTypeOK
  <2>3. failures' \in [Devices -> 0..MaxExponent]
    BY <1>6, BackoffAssumption DEF ReadDone, TaskTypeOK
  <2>4. backoff' \in [Devices -> BackoffDelays]
    BY <1>6 DEF ReadDone, TaskTypeOK, BackoffDelays
  <2>5. exch' \in [Devices -> {"none", "pending", "ok", "exception"}]
    BY <1>6 DEF ReadDone, TaskTypeOK
  <2>6. UNCHANGED <<client, srcRegs, loopRegs>>
    BY <1>6 DEF ReadDone
  <2>7. QED
    BY <1>1, <1>6, <2>1, <2>2, <2>3, <2>4, <2>5, <2>6 DEF ReadDone, TaskTypeOK
<1>7. CASE SendBatch(d)
  <2>1. Loop(d)
    BY <1>7 DEF SendBatch
  <2>2. [dev |-> d, regs |-> nread[d]] \in Batches
    BY DEF Batches, TaskTypeOK
  <2>3. chan' \in Seq(Batches) /\ Len(chan') <= ChanCap
    BY <1>7, <2>2, CapAssumption DEF SendBatch, Room, MainTypeOK
  <2>4. nread' \in [Devices -> 0..MaxRegs]
    BY <1>7, RegsAssumption DEF SendBatch, TaskTypeOK
  <2>5. UNCHANGED <<cfgRegs, client, srcRegs, failures, backoff, exch, stored,
                    wq, st, net, executed, phase>>
    BY <1>7 DEF SendBatch, reqVars
  <2>6. QED
    BY <2>1, <2>3, <2>4, <2>5, LoopType DEF TaskTypeOK, RequestTypeOK, MainTypeOK
<1>8. CASE BackoffOver(d)
  <2>1. Loop(d) /\ UNCHANGED <<client, srcRegs, nread, failures, backoff, exch>>
    BY <1>8 DEF BackoffOver
  <2>2. QED
    BY <1>1, <1>8, <2>1, LoopType DEF BackoffOver, TaskTypeOK
<1>9. QED
  BY <1>2, <1>3, <1>4, <1>5, <1>6, <1>7, <1>8 DEF Poll, ConnectFailed, ReadFailed

\* The actions that serve a write, and the end of a task, keep the types.
LEMMA ServeType ==
  ASSUME TypeOK, NEW d \in Devices, ServeWrite(d) \/ StopTask(d)
  PROVE  TypeOK'
<1> USE DEF TypeOK
<1>1. CASE TakeWrite(d)
  <2> DEFINE r == Head(wq[d])
  <2>1. /\ r \in Reqs
        /\ wq' \in [Devices -> Seq(Reqs)]
        /\ \A e \in Devices : Len(wq'[e]) <= QueueCap
    BY <1>1, CapAssumption DEF TakeWrite, RequestTypeOK
  <2>2. UNCHANGED <<cfgRegs, srcRegs, nread, failures, backoff, chan, stored,
                    executed, phase>>
    BY <1>1 DEF TakeWrite, dataVars
  <2>3. /\ pc' \in [Devices -> Places]
        /\ client' \in [Devices -> {"absent", "dropped", "live"}]
        /\ loopRegs' \in [Devices -> 1..MaxRegs]
        /\ exch' \in [Devices -> {"none", "pending", "ok", "exception"}]
        /\ st' \in [Reqs -> {"idle"} \cup Waiting \cup Outcomes]
        /\ net' \in [Reqs -> {"none", "wire", "limbo", "gone"}]
    <3>1. CASE Answer(r, "refused") /\ Loop(d) /\ UNCHANGED <<client, exch, net>>
      <4>1. st' \in [Reqs -> {"idle"} \cup Waiting \cup Outcomes]
        BY <2>1, <3>1, AnswerType, ProgressValues
      <4>2. QED
        BY <3>1, <4>1, LoopType DEF TaskTypeOK, RequestTypeOK
    <3>2. CASE /\ Answer(r, "serving") /\ Goto(d, "reconnecting")
               /\ UNCHANGED <<client, loopRegs, exch, net>>
      <4>1. st' \in [Reqs -> {"idle"} \cup Waiting \cup Outcomes]
        BY <2>1, <3>2, AnswerType, ProgressValues
      <4>2. "reconnecting" \in Places
        BY DEF Places
      <4>3. QED
        BY <3>2, <4>1, <4>2, GotoType DEF TaskTypeOK, RequestTypeOK
    <3>3. CASE Dispatch(d, r)
      BY <2>1, <3>3, DispatchType
    <3>4. QED
      BY <1>1, <3>1, <3>2, <3>3 DEF TakeWrite
  <2>4. QED
    BY <2>1, <2>2, <2>3 DEF TaskTypeOK, RequestTypeOK, MainTypeOK
<1>2. CASE \E r \in Reqs : WriteConnected(d, r)
  <2>1. PICK r \in Reqs : WriteConnected(d, r)
    BY <1>2
  <2>2. Dispatch(d, r)
    BY <2>1 DEF WriteConnected
  <2>3. UNCHANGED <<cfgRegs, srcRegs, nread, failures, backoff, chan, stored, wq,
                    executed, phase>>
    BY <2>1 DEF WriteConnected, dataVars
  <2>4. QED
    BY <2>2, <2>3, DispatchType DEF TaskTypeOK, RequestTypeOK, MainTypeOK
<1>3. CASE \E r \in Reqs : WriteConnectFailed(d, r)
  <2>1. PICK r \in Reqs : WriteConnectFailed(d, r)
    BY <1>3
  <2>2. Answer(r, "connfail") /\ Loop(d)
    BY <2>1 DEF WriteConnectFailed
  <2>3. UNCHANGED <<cfgRegs, client, srcRegs, nread, failures, backoff, exch,
                    chan, stored, wq, net, executed, phase>>
    BY <2>1 DEF WriteConnectFailed, dataVars
  <2>4. st' \in [Reqs -> {"idle"} \cup Waiting \cup Outcomes]
    BY <2>2, AnswerType, ProgressValues
  <2>5. QED
    BY <2>2, <2>3, <2>4, LoopType DEF TaskTypeOK, RequestTypeOK, MainTypeOK
<1>4. CASE \E r \in Reqs : WriteReplied(d, r)
  <2>1. PICK r \in Reqs : WriteReplied(d, r)
    BY <1>4
  <2>2. Loop(d)
    BY <2>1 DEF WriteReplied
  <2>3. UNCHANGED <<cfgRegs, srcRegs, nread, failures, backoff, chan, stored, wq,
                    net, executed, phase>>
    BY <2>1 DEF WriteReplied, dataVars
  <2>4. st' \in [Reqs -> {"idle"} \cup Waiting \cup Outcomes]
    BY <2>1, AnswerType, ProgressValues DEF WriteReplied
  <2>5. /\ client' \in [Devices -> {"absent", "dropped", "live"}]
        /\ exch' \in [Devices -> {"none", "pending", "ok", "exception"}]
    BY <2>1 DEF WriteReplied, SetClient, TaskTypeOK
  <2>6. QED
    BY <2>2, <2>3, <2>4, <2>5, LoopType DEF TaskTypeOK, RequestTypeOK, MainTypeOK
<1>5. CASE \E r \in Reqs : WriteTimeout(d, r)
  <2>1. PICK r \in Reqs : WriteTimeout(d, r)
    BY <1>5
  <2>2. Answer(r, "timeout") /\ Loop(d)
    BY <2>1 DEF WriteTimeout, DropConnection
  <2>3. UNCHANGED <<cfgRegs, srcRegs, nread, failures, backoff, chan, stored, wq,
                    executed, phase>>
    BY <2>1 DEF WriteTimeout, DropConnection, dataVars
  <2>4. st' \in [Reqs -> {"idle"} \cup Waiting \cup Outcomes]
    BY <2>2, AnswerType, ProgressValues
  <2>5. /\ client' \in [Devices -> {"absent", "dropped", "live"}]
        /\ exch' \in [Devices -> {"none", "pending", "ok", "exception"}]
    BY <2>1 DEF WriteTimeout, DropConnection, SetClient, TaskTypeOK
  <2>6. net' \in [Reqs -> {"none", "wire", "limbo", "gone"}]
    BY <2>1 DEF WriteTimeout, DropConnection, RequestTypeOK
  <2>7. QED
    BY <2>2, <2>3, <2>4, <2>5, <2>6, LoopType
       DEF TaskTypeOK, RequestTypeOK, MainTypeOK
<1>6. CASE StopTask(d)
  <2>1. pc' \in [Devices -> Places]
    BY <1>6 DEF StopTask, Goto, Places, TaskTypeOK
  <2>2. client' \in [Devices -> {"absent", "dropped", "live"}]
    BY <1>6 DEF StopTask, TaskTypeOK
  <2>3. srcRegs' \in [Devices -> 0..MaxRegs]
    BY <1>6, RegsAssumption DEF StopTask, TaskTypeOK
  <2>4. wq' \in [Devices -> Seq(Reqs)] /\ \A e \in Devices : Len(wq'[e]) <= QueueCap
    BY <1>6, CapAssumption DEF StopTask, RequestTypeOK
  <2>5. UNCHANGED <<cfgRegs, loopRegs, nread, failures, backoff, exch, chan,
                    stored, st, net, executed, phase>>
    BY <1>6 DEF StopTask, dataVars
  <2>6. QED
    BY <2>1, <2>2, <2>3, <2>4, <2>5 DEF TaskTypeOK, RequestTypeOK, MainTypeOK
<1>7. QED
  BY <1>1, <1>2, <1>3, <1>4, <1>5, <1>6 DEF ServeWrite

\* The steps of the callers and of the devices keep the types.
LEMMA RequestType ==
  ASSUME TypeOK, NEW r \in Reqs, Caller(r) \/ Pcba(r)
  PROVE  TypeOK'
<1> USE DEF TypeOK
<1>1. CASE Submit(r) \/ Abandon(r) \/ Closed(r) \/ NoReply(r)
  <2>1. \E from, to : to \in {"idle"} \cup Waiting \cup Outcomes /\ Requester(r, from, to)
    BY <1>1, ProgressValues DEF Submit, Abandon, Closed, NoReply
  <2>2. UNCHANGED wq
    BY <1>1 DEF Submit, Abandon, Closed, NoReply
  <2>3. QED
    BY <2>1, <2>2, RequesterType DEF RequestTypeOK
<1>2. CASE Enqueue(r)
  <2>1. Requester(r, "sending", "queued")
    BY <1>2 DEF Enqueue
  <2>2. wq' \in [Devices -> Seq(Reqs)] /\ \A e \in Devices : Len(wq'[e]) <= QueueCap
    BY <1>2, ReqsAssumption, CapAssumption DEF Enqueue, Room, RequestTypeOK
  <2>3. QED
    BY <2>1, <2>2, RequesterType, ProgressValues DEF RequestTypeOK
<1>3. CASE Pcba(r)
  <2>1. DeviceStep(r)
    BY <1>3 DEF Pcba, Execute, Reject, Lose
  <2>2. UNCHANGED <<cfgRegs, pc, client, srcRegs, loopRegs, nread, failures,
                    backoff, chan, stored, wq, st, phase>>
    BY <2>1 DEF DeviceStep, dataVars
  <2>3. net' \in [Reqs -> {"none", "wire", "limbo", "gone"}]
    BY <2>1 DEF DeviceStep, RequestTypeOK
  <2>4. executed' \in [Reqs -> Nat]
    BY <1>3 DEF Pcba, Execute, Reject, Lose, RequestTypeOK
  <2>5. exch' \in [Devices -> {"none", "pending", "ok", "exception"}]
    BY <1>3, ReqsAssumption DEF Pcba, Execute, Reject, Lose, Reply, TaskTypeOK
  <2>6. QED
    BY <2>2, <2>3, <2>4, <2>5 DEF TaskTypeOK, RequestTypeOK, MainTypeOK
<1>4. QED
  BY <1>1, <1>2, <1>3 DEF Caller

\* The steps of the main loop and of the configuration keep the types.
LEMMA MainType ==
  ASSUME TypeOK, Consume \/ Signal \/ Exit \/ \E d \in Devices : AddRegister(d)
  PROVE  TypeOK'
<1> USE DEF TypeOK
<1>1. UNCHANGED <<taskVars, reqVars>>
  BY DEF Consume, Signal, Exit, AddRegister
<1>2. TaskTypeOK' /\ RequestTypeOK'
  BY <1>1 DEF TaskTypeOK, RequestTypeOK, taskVars, reqVars
<1>3. CASE Consume
  <2>1. Head(chan) \in Batches /\ chan' \in Seq(Batches) /\ Len(chan') <= ChanCap
    BY <1>3, CapAssumption DEF Consume, MainTypeOK
  <2>2. stored' \in [Devices -> 0..MaxRegs]
    BY <1>3, <2>1 DEF Consume, MainTypeOK, Batches, Greater
  <2>3. QED
    BY <1>2, <1>3, <2>1, <2>2 DEF Consume, MainTypeOK
<1>4. CASE Signal \/ Exit
  BY <1>2, <1>4 DEF Signal, Exit, MainTypeOK, dataVars
<1>5. CASE \E d \in Devices : AddRegister(d)
  BY <1>2, <1>5, RegsAssumption DEF AddRegister, MainTypeOK, dataVars
<1>6. QED
  BY <1>3, <1>4, <1>5

\* Every step keeps the types.
LEMMA StepType == TypeOK /\ [Next]_vars => TypeOK'
<1> SUFFICES ASSUME TypeOK, [Next]_vars PROVE TypeOK'
  OBVIOUS
<1>1. CASE UNCHANGED vars
  BY <1>1 DEF TypeOK, TaskTypeOK, RequestTypeOK, MainTypeOK, vars, taskVars,
              dataVars, reqVars
<1>2. QED
  BY <1>1, PollType, ServeType, RequestType, MainType DEF Next, Task

\* The state has its types throughout, and no channel exceeds its capacity.
THEOREM TypeCorrect == Spec => []TypeOK
<1>1. Init => TypeOK
  <2> SUFFICES ASSUME Init PROVE TypeOK
    OBVIOUS
  <2>1. TaskTypeOK
    BY RegsAssumption, BackoffAssumption DEF Init, TaskTypeOK, Places, BackoffDelays
  <2>2. RequestTypeOK
    BY CapAssumption DEF Init, RequestTypeOK
  <2>3. MainTypeOK
    BY RegsAssumption, CapAssumption DEF Init, MainTypeOK
  <2>4. QED
    BY <2>1, <2>2, <2>3 DEF TypeOK
<1>2. QED
  BY <1>1, StepType, PTL DEF Spec

-----------------------------------------------------------------------------
(* The connection.                                                         *)

\* What the task of d knows of its source from where it is, and from the
\* failures it has counted.
ConnectionAt(d) ==
  /\ pc[d] \in {"reading", "sending", "writing"} => client[d] = "live"
  /\ pc[d] = "reconnecting" => client[d] = "dropped"
  /\ failures[d] > 0 => client[d] = "absent"

ConnectionInv == \A d \in Devices : ConnectionAt(d)

\* Only its own task changes what a device's connection depends on.
SameConnection(e) ==
  pc'[e] = pc[e] /\ client'[e] = client[e] /\ failures'[e] = failures[e]

\* A dispatched write leaves the client live or dropped.
LEMMA DispatchConnection ==
  ASSUME TypeOK, NEW d \in Devices, NEW r \in Reqs, Dispatch(d, r), UNCHANGED failures,
         failures[d] = 0
  PROVE  ConnectionAt(d)' /\ \A e \in Devices \ {d} : SameConnection(e)
<1> USE DEF TypeOK, TaskTypeOK, ConnectionAt, SameConnection
<1>1. CASE KnownToSource(d, r)
  BY <1>1 DEF Dispatch, Goto, SetClient
<1>2. CASE ~KnownToSource(d, r)
  BY <1>2 DEF Dispatch, Loop, Goto, SetClient
<1>3. QED
  BY <1>1, <1>2

\* The steps of a poll.
LEMMA PollConnection ==
  ASSUME TypeOK, NEW d \in Devices, ConnectionAt(d), Poll(d)
  PROVE  ConnectionAt(d)' /\ \A e \in Devices \ {d} : SameConnection(e)
<1> USE DEF TypeOK, TaskTypeOK, ConnectionAt, SameConnection, Goto
<1>1. CASE Tick(d)
  BY <1>1 DEF Tick, StartReading
<1>2. CASE Connected(d)
  <2>1. failures'[d] = 0
    BY <1>2 DEF Connected
  <2>2. QED
    BY <1>2, <2>1 DEF Connected, StartReading
<1>3. CASE PollFailed(d)
  BY <1>3 DEF PollFailed, DropSource
<1>4. CASE ReadRegister(d)
  BY <1>4 DEF ReadRegister
<1>5. CASE ReadDone(d)
  BY <1>5 DEF ReadDone
<1>6. CASE SendBatch(d)
  BY <1>6 DEF SendBatch, Loop
<1>7. CASE BackoffOver(d)
  BY <1>7 DEF BackoffOver, Loop
<1>8. QED
  BY <1>1, <1>2, <1>3, <1>4, <1>5, <1>6, <1>7 DEF Poll, ConnectFailed, ReadFailed

\* The steps that serve a write.
LEMMA ServeConnection ==
  ASSUME TypeOK, NEW d \in Devices, ConnectionAt(d), ServeWrite(d)
  PROVE  ConnectionAt(d)' /\ \A e \in Devices \ {d} : SameConnection(e)
<1>1. CASE TakeWrite(d)
  <2>1. Head(wq[d]) \in Reqs
    BY <1>1 DEF TakeWrite, TypeOK, RequestTypeOK
  <2>2. UNCHANGED failures
    BY <1>1 DEF TakeWrite
  <2>3. CASE client[d] = "absent" /\ Loop(d) /\ UNCHANGED client
    BY <2>2, <2>3 DEF Loop, Goto, TypeOK, TaskTypeOK, ConnectionAt, SameConnection
  <2>4. CASE client[d] = "dropped" /\ Goto(d, "reconnecting") /\ UNCHANGED client
    BY <2>2, <2>4 DEF Goto, TypeOK, TaskTypeOK, ConnectionAt, SameConnection
  <2>5. CASE client[d] = "live" /\ Dispatch(d, Head(wq[d]))
    <3>1. failures[d] = 0
      BY <2>5 DEF TypeOK, TaskTypeOK, ConnectionAt
    <3>2. QED
      BY <2>1, <2>2, <2>5, <3>1, DispatchConnection
  <2>6. QED
    BY <1>1, <2>3, <2>4, <2>5 DEF TakeWrite
<1>2. ASSUME NEW r \in Reqs, WriteConnected(d, r)
      PROVE  ConnectionAt(d)' /\ \A e \in Devices \ {d} : SameConnection(e)
  <2>1. Dispatch(d, r) /\ UNCHANGED failures /\ pc[d] = "reconnecting"
    BY <1>2 DEF WriteConnected
  <2>2. failures[d] = 0
    BY <2>1 DEF TypeOK, TaskTypeOK, ConnectionAt
  <2>3. QED
    BY <2>1, <2>2, DispatchConnection
<1>3. ASSUME NEW r \in Reqs,
             WriteConnectFailed(d, r) \/ WriteReplied(d, r) \/ WriteTimeout(d, r)
      PROVE  ConnectionAt(d)' /\ \A e \in Devices \ {d} : SameConnection(e)
  <2>1. Goto(d, "select") /\ UNCHANGED failures
    BY <1>3 DEF WriteConnectFailed, WriteReplied, WriteTimeout, Loop
  <2>2. client[d] # "absent"
    BY <1>3 DEF WriteConnectFailed, WriteReplied, WriteTimeout, ConnectionAt
  <2>3. failures[d] = 0
    BY <2>2 DEF TypeOK, TaskTypeOK, ConnectionAt
  <2>4. UNCHANGED client \/ client' = [client EXCEPT ![d] = "dropped"]
    BY <1>3 DEF WriteConnectFailed, WriteReplied, WriteTimeout, SetClient, DropConnection
  <2>5. QED
    BY <2>1, <2>3, <2>4 DEF Goto, TypeOK, TaskTypeOK, ConnectionAt, SameConnection
<1>4. QED
  BY <1>1, <1>2, <1>3 DEF ServeWrite

\* Every step keeps what the tasks know of their connections.
LEMMA ConnectionStep == TypeOK /\ ConnectionInv /\ [Next]_vars => ConnectionInv'
<1> SUFFICES ASSUME TypeOK, ConnectionInv, [Next]_vars PROVE ConnectionInv'
  OBVIOUS
<1>1. ASSUME NEW d \in Devices, Task(d) PROVE ConnectionInv'
  <2>1. ConnectionAt(d)' /\ \A e \in Devices \ {d} : SameConnection(e)
    <3>1. CASE StopTask(d)
      BY <3>1 DEF StopTask, Goto, TypeOK, TaskTypeOK, ConnectionAt, SameConnection
    <3>2. QED
      BY <1>1, <3>1, PollConnection, ServeConnection DEF Task, ConnectionInv
  <2>2. ASSUME NEW e \in Devices, e # d PROVE ConnectionAt(e)'
    BY <2>1, <2>2 DEF ConnectionInv, ConnectionAt, SameConnection
  <2>3. QED
    BY <2>1, <2>2 DEF ConnectionInv
<1>2. ASSUME UNCHANGED <<pc, client, failures>> PROVE ConnectionInv'
  BY <1>2 DEF ConnectionInv, ConnectionAt
<1>3. CASE UNCHANGED vars
  BY <1>2, <1>3 DEF vars, taskVars
<1>4. CASE \/ Consume \/ Signal \/ Exit
           \/ \E d \in Devices : AddRegister(d)
  BY <1>2, <1>4 DEF Consume, Signal, Exit, AddRegister, taskVars
<1>5. CASE \E r \in Reqs : Caller(r) \/ Pcba(r)
  BY <1>2, <1>5 DEF Caller, Submit, Enqueue, Abandon, Closed, NoReply, Requester,
                    Pcba, Execute, Reject, Lose, DeviceStep, taskVars
<1>6. QED
  BY <1>1, <1>3, <1>4, <1>5 DEF Next

\* A device whose polls fail has no source, so its writes are refused at once.
THEOREM FailingIsDisconnected == Spec => []FailingMeansDisconnected
<1>1. Init => ConnectionInv
  BY DEF Init, ConnectionInv, ConnectionAt
<1>2. ConnectionInv => FailingMeansDisconnected
  BY DEF ConnectionInv, ConnectionAt, FailingMeansDisconnected
<1>3. QED
  BY <1>1, <1>2, ConnectionStep, TypeCorrect, PTL DEF Spec
-----------------------------------------------------------------------------
(* The batches.                                                            *)

\* The snapshot of the configuration a task works with, between the registers
\* at start and those of now, covers what is stored and is what a batch holds.
SnapshotAt(d) ==
  /\ InitRegs[d] <= loopRegs[d] /\ loopRegs[d] <= cfgRegs[d]
  /\ stored[d] <= loopRegs[d]
  /\ pc[d] = "sending" => nread[d] = loopRegs[d]

BatchInv == BatchesGrow /\ \A d \in Devices : SnapshotAt(d)

\* What a step of the task of d does to the snapshots and to the channel: it may
\* take a newer snapshot, and send what the old one holds.
TaskEffect(d) ==
  /\ UNCHANGED <<cfgRegs, stored>>
  /\ loopRegs'[d] \in {loopRegs[d], cfgRegs[d]}
  /\ pc'[d] = "sending" => nread'[d] = loopRegs'[d]
  /\ \A e \in Devices \ {d} : /\ pc'[e] = pc[e]
                              /\ nread'[e] = nread[e]
                              /\ loopRegs'[e] = loopRegs[e]
  /\ \/ UNCHANGED chan
     \/ chan' = Append(chan, [dev |-> d, regs |-> loopRegs[d]])

\* A poll sends the whole snapshot or nothing.
LEMMA PollBatch ==
  ASSUME TypeOK, NEW d \in Devices, SnapshotAt(d), Poll(d)
  PROVE  TaskEffect(d)
<1> USE DEF TypeOK, TaskTypeOK, SnapshotAt, TaskEffect, Goto, dataVars
<1>1. CASE Tick(d)
  BY <1>1 DEF Tick, StartReading
<1>2. CASE Connected(d)
  BY <1>2 DEF Connected, StartReading
<1>3. CASE PollFailed(d)
  BY <1>3 DEF PollFailed
<1>4. CASE ReadRegister(d)
  BY <1>4 DEF ReadRegister
<1>5. CASE ReadDone(d)
  BY <1>5 DEF ReadDone, LastRegister
<1>6. CASE SendBatch(d)
  BY <1>6 DEF SendBatch, Loop
<1>7. CASE BackoffOver(d)
  BY <1>7 DEF BackoffOver, Loop
<1>8. QED
  BY <1>1, <1>2, <1>3, <1>4, <1>5, <1>6, <1>7 DEF Poll, ConnectFailed, ReadFailed

\* Serving a write and stopping send nothing.
LEMMA OtherTaskBatch ==
  ASSUME TypeOK, NEW d \in Devices, SnapshotAt(d), ServeWrite(d) \/ StopTask(d)
  PROVE  TaskEffect(d)
<1>1. UNCHANGED <<cfgRegs, stored, chan, nread>>
  BY DEF ServeWrite, TakeWrite, WriteConnected, WriteConnectFailed, WriteReplied,
         WriteTimeout, StopTask, dataVars
<1>2. /\ UNCHANGED loopRegs \/ loopRegs' = [loopRegs EXCEPT ![d] = cfgRegs[d]]
      /\ \E place \in {"select", "reconnecting", "writing", "stopped"} : Goto(d, place)
  BY DEF ServeWrite, TakeWrite, WriteConnected, WriteConnectFailed, WriteReplied,
         WriteTimeout, StopTask, Dispatch, Loop
<1>3. QED
  BY <1>1, <1>2 DEF TaskEffect, Goto, TypeOK, TaskTypeOK

\* The fields of the batches in the channel.
LEMMA BatchFields ==
  ASSUME TypeOK
  PROVE  \A j \in 1..Len(chan) : chan[j].dev \in Devices /\ chan[j].regs \in Nat
<1>1. chan \in Seq(Batches) /\ MaxRegs \in Nat
  BY RegsAssumption DEF TypeOK, MainTypeOK
<1>2. \A b \in Batches : b.dev \in Devices /\ b.regs \in Nat
  BY <1>1 DEF Batches
<1>3. \A j \in 1..Len(chan) : chan[j] \in Batches
  BY <1>1
<1>4. QED
  BY <1>2, <1>3

\* A newer snapshot and a batch with the old one keep the batches growing.
LEMMA TaskKeepsBatches ==
  ASSUME TypeOK, BatchInv, NEW d \in Devices, TaskEffect(d)
  PROVE  BatchInv'
<1>1. /\ chan \in Seq(Batches) /\ cfgRegs \in [Devices -> 1..MaxRegs]
      /\ loopRegs \in [Devices -> 1..MaxRegs] /\ stored \in [Devices -> 0..MaxRegs]
      /\ InitRegs \in [Devices -> 1..MaxRegs] /\ MaxRegs \in Nat
  BY RegsAssumption DEF TypeOK, TaskTypeOK, MainTypeOK
<1>2. \A e \in Devices : /\ loopRegs[e] \in Nat /\ loopRegs'[e] \in Nat
                         /\ cfgRegs[e] \in Nat /\ stored[e] \in Nat /\ InitRegs[e] \in Nat
                         /\ loopRegs[e] <= loopRegs'[e]
  <2> SUFFICES ASSUME NEW e \in Devices
               PROVE  /\ loopRegs[e] \in Nat /\ loopRegs'[e] \in Nat
                      /\ cfgRegs[e] \in Nat /\ stored[e] \in Nat /\ InitRegs[e] \in Nat
                      /\ loopRegs[e] <= loopRegs'[e]
    OBVIOUS
  <2>1. /\ loopRegs[e] \in Nat /\ cfgRegs[e] \in Nat
        /\ stored[e] \in Nat /\ InitRegs[e] \in Nat
    BY <1>1
  <2>2. loopRegs[e] <= cfgRegs[e]
    BY DEF BatchInv, SnapshotAt
  <2>3. loopRegs'[e] \in {loopRegs[e], cfgRegs[e]}
    BY DEF TaskEffect
  <2>4. QED
    BY <2>1, <2>2, <2>3
<1>3. ASSUME NEW e \in Devices PROVE SnapshotAt(e)'
  <2>1. InitRegs[e] <= loopRegs[e] /\ loopRegs[e] <= cfgRegs[e] /\ stored[e] <= loopRegs[e]
    BY DEF BatchInv, SnapshotAt
  <2>2. loopRegs'[e] \in {loopRegs[e], cfgRegs[e]} /\ UNCHANGED <<cfgRegs, stored>>
    BY DEF TaskEffect
  <2>3. InitRegs[e] <= loopRegs'[e] /\ loopRegs'[e] <= cfgRegs'[e] /\ stored'[e] <= loopRegs'[e]
    BY <1>2, <2>1, <2>2
  <2>4. pc'[e] = "sending" => nread'[e] = loopRegs'[e]
    BY DEF TaskEffect, BatchInv, SnapshotAt
  <2>5. QED
    BY <2>3, <2>4 DEF SnapshotAt
<1>4. \A j \in 1..Len(chan) : chan[j].dev \in Devices /\ chan[j].regs \in Nat
  BY BatchFields
<1>5. ASSUME NEW j \in 1..Len(chan)
      PROVE  /\ InitRegs[chan[j].dev] <= chan[j].regs
             /\ chan[j].regs <= loopRegs[chan[j].dev]
             /\ chan[j].regs <= loopRegs'[chan[j].dev]
             /\ stored[chan[j].dev] <= chan[j].regs
             /\ \A i \in 1..j : chan[i].dev = chan[j].dev => chan[i].regs <= chan[j].regs
  <2>1. /\ InitRegs[chan[j].dev] <= chan[j].regs
        /\ chan[j].regs <= loopRegs[chan[j].dev]
        /\ stored[chan[j].dev] <= chan[j].regs
        /\ \A i \in 1..j : chan[i].dev = chan[j].dev => chan[i].regs <= chan[j].regs
    BY DEF BatchInv, BatchesGrow
  <2>2. chan[j].regs <= loopRegs'[chan[j].dev]
    <3>1. chan[j].dev \in Devices /\ chan[j].regs \in Nat
      BY <1>4
    <3>2. QED
      BY <1>2, <2>1, <3>1
  <2>3. QED
    BY <2>1, <2>2
<1>6. CASE UNCHANGED chan
  <2>1. BatchesGrow'
    BY <1>5, <1>6 DEF BatchesGrow, TaskEffect
  <2>2. QED
    BY <1>3, <2>1 DEF BatchInv
<1>7. CASE chan' = Append(chan, [dev |-> d, regs |-> loopRegs[d]])
  <2> DEFINE b == [dev |-> d, regs |-> loopRegs[d]]
  <2>1. /\ Len(chan) \in Nat /\ Len(chan') = Len(chan) + 1 /\ chan'[Len(chan) + 1] = b
        /\ \A j \in 1..Len(chan) : chan'[j] = chan[j]
    BY <1>1, <1>7
  <2>2. \A j \in 1..Len(chan) : chan[j].dev = d => chan[j].regs <= loopRegs[d]
    BY <1>5
  <2>3. /\ InitRegs[b.dev] <= b.regs
        /\ b.regs <= loopRegs'[b.dev]
        /\ stored[b.dev] <= b.regs
    BY <1>2 DEF BatchInv, SnapshotAt
  <2>4. ASSUME NEW j \in 1..Len(chan')
        PROVE  /\ InitRegs[chan'[j].dev] <= chan'[j].regs
               /\ chan'[j].regs <= loopRegs'[chan'[j].dev]
               /\ stored[chan'[j].dev] <= chan'[j].regs
               /\ \A i \in 1..j : chan'[i].dev = chan'[j].dev => chan'[i].regs <= chan'[j].regs
    <3>1. CASE j \in 1..Len(chan)
      <4>1. \A i \in 1..j : i \in 1..Len(chan) /\ chan'[i] = chan[i]
        BY <2>1, <3>1
      <4>2. QED
        BY <1>5, <2>1, <3>1, <4>1
    <3>2. CASE j = Len(chan) + 1
      <4>1. \A i \in 1..j : i = Len(chan) + 1 \/ i \in 1..Len(chan)
        BY <2>1, <3>2
      <4>2. \A i \in 1..Len(chan) : chan'[i].dev = d => chan'[i].regs <= b.regs
        BY <2>1, <2>2
      <4>3. b.regs <= b.regs
        BY <1>2
      <4>4. QED
        BY <2>1, <2>3, <3>2, <4>1, <4>2, <4>3
    <3>3. QED
      BY <2>1, <3>1, <3>2
  <2>5. BatchesGrow'
    BY <2>4 DEF BatchesGrow, TaskEffect
  <2>6. QED
    BY <1>3, <2>5 DEF BatchInv
<1>8. QED
  BY <1>6, <1>7 DEF TaskEffect

\* Storing the oldest batch leaves in the channel those that hold more.
LEMMA ConsumeKeepsBatches ==
  ASSUME TypeOK, BatchInv, Consume
  PROVE  BatchInv'
<1> DEFINE b == Head(chan)
<1>1. /\ chan \in Seq(Batches) /\ chan # <<>> /\ chan' = Tail(chan)
      /\ stored' = [stored EXCEPT ![b.dev] = Greater(@, b.regs)]
      /\ UNCHANGED <<cfgRegs, pc, loopRegs, nread>>
  BY DEF Consume, TypeOK, MainTypeOK, taskVars
<1>2. /\ stored \in [Devices -> 0..MaxRegs] /\ loopRegs \in [Devices -> 1..MaxRegs]
      /\ MaxRegs \in Nat
  BY RegsAssumption DEF TypeOK, TaskTypeOK, MainTypeOK
<1>3. /\ b = chan[1] /\ Len(chan) \in Nat \ {0} /\ b \in Batches
      /\ Len(chan') = Len(chan) - 1
      /\ \A j \in 1..Len(chan') : chan'[j] = chan[j + 1]
  <2>1. \A q \in Seq(Batches) : q # <<>> =>
          /\ Head(q) = q[1] /\ Len(q) \in Nat \ {0} /\ q[1] \in Batches
          /\ Len(Tail(q)) = Len(q) - 1
          /\ \A i \in 1..Len(Tail(q)) : Tail(q)[i] = q[i + 1]
    OBVIOUS
  <2>2. QED
    BY <1>1, <2>1
<1>4. \A j \in 1..Len(chan') : j \in Nat /\ j + 1 \in 1..Len(chan)
  BY <1>3
<1>5. \A j \in 1..Len(chan) : chan[j].dev \in Devices /\ chan[j].regs \in Nat
  BY BatchFields
<1>6. \A j \in 1..Len(chan) : chan[j].dev = b.dev => b.regs <= chan[j].regs
  <2>1. \A j \in 1..Len(chan) : 1 \in 1..j
    BY <1>3
  <2>2. QED
    BY <1>3, <2>1 DEF BatchInv, BatchesGrow
<1>7. \A j \in 1..Len(chan) : stored[chan[j].dev] <= chan[j].regs
  BY DEF BatchInv, BatchesGrow
<1>8. \A j \in 1..Len(chan) : stored'[chan[j].dev] <= chan[j].regs
  BY <1>1, <1>2, <1>3, <1>5, <1>6, <1>7 DEF Batches, Greater
<1>9. \A d \in Devices : SnapshotAt(d)'
  <2>1. b.regs <= loopRegs[b.dev]
    BY <1>3 DEF BatchInv, BatchesGrow
  <2>2. \A d \in Devices : stored'[d] <= loopRegs[d]
    BY <1>1, <1>2, <1>3, <2>1 DEF BatchInv, SnapshotAt, Greater, Batches
  <2>3. QED
    BY <1>1, <2>2 DEF BatchInv, SnapshotAt
<1>10. ASSUME NEW j \in 1..Len(chan')
       PROVE  /\ InitRegs[chan'[j].dev] <= chan'[j].regs
              /\ chan'[j].regs <= loopRegs[chan'[j].dev]
              /\ stored'[chan'[j].dev] <= chan'[j].regs
              /\ \A i \in 1..j : chan'[i].dev = chan'[j].dev => chan'[i].regs <= chan'[j].regs
  <2>1. /\ InitRegs[chan[j + 1].dev] <= chan[j + 1].regs
        /\ chan[j + 1].regs <= loopRegs[chan[j + 1].dev]
        /\ \A i \in 1..(j + 1) :
             chan[i].dev = chan[j + 1].dev => chan[i].regs <= chan[j + 1].regs
    BY <1>4 DEF BatchInv, BatchesGrow
  <2>2. \A i \in 1..j : i \in 1..Len(chan') /\ i + 1 \in 1..(j + 1) /\ chan'[i] = chan[i + 1]
    BY <1>3, <1>4
  <2>3. QED
    BY <1>3, <1>4, <1>8, <2>1, <2>2
<1>11. BatchesGrow'
  BY <1>1, <1>10 DEF BatchesGrow
<1>12. QED
  BY <1>9, <1>11 DEF BatchInv

\* Every step keeps the batches growing.
LEMMA BatchStep == TypeOK /\ BatchInv /\ [Next]_vars => BatchInv'
<1> SUFFICES ASSUME TypeOK, BatchInv, [Next]_vars PROVE BatchInv'
  OBVIOUS
<1>1. ASSUME NEW d \in Devices, Task(d) PROVE BatchInv'
  <2>1. SnapshotAt(d)
    BY DEF BatchInv
  <2>2. QED
    BY <1>1, <2>1, PollBatch, OtherTaskBatch, TaskKeepsBatches DEF Task
<1>2. ASSUME UNCHANGED <<cfgRegs, pc, loopRegs, nread, chan, stored>> PROVE BatchInv'
  BY <1>2 DEF BatchInv, BatchesGrow, SnapshotAt
<1>3. ASSUME NEW d \in Devices, AddRegister(d) PROVE BatchInv'
  <2>1. /\ UNCHANGED <<pc, loopRegs, nread, chan, stored>>
        /\ cfgRegs' = [cfgRegs EXCEPT ![d] = @ + 1]
    BY <1>3 DEF AddRegister, taskVars, dataVars
  <2>2. \A e \in Devices : /\ cfgRegs[e] \in Nat /\ loopRegs[e] \in Nat
                           /\ cfgRegs[e] <= cfgRegs'[e] /\ cfgRegs'[e] \in Nat
    BY <2>1, RegsAssumption DEF TypeOK, TaskTypeOK, MainTypeOK
  <2>3. \A e \in Devices : SnapshotAt(e)'
    BY <2>1, <2>2 DEF BatchInv, SnapshotAt
  <2>4. BatchesGrow'
    BY <2>1 DEF BatchInv, BatchesGrow
  <2>5. QED
    BY <2>3, <2>4 DEF BatchInv
<1>4. CASE Consume
  BY <1>4, ConsumeKeepsBatches
<1>5. CASE Signal \/ Exit \/ UNCHANGED vars
  BY <1>2, <1>5 DEF Signal, Exit, vars, taskVars, dataVars
<1>6. CASE \E r \in Reqs : Caller(r) \/ Pcba(r)
  BY <1>2, <1>6 DEF Caller, Submit, Enqueue, Abandon, Closed, NoReply, Requester,
                    Pcba, Execute, Reject, Lose, DeviceStep, taskVars, dataVars
<1>7. QED
  BY <1>1, <1>3, <1>4, <1>5, <1>6 DEF Next

\* A batch holds all registers of a snapshot, and a later one of the device all
\* those of an earlier one.
THEOREM BatchesNeverShrink == Spec => []BatchesGrow
<1>1. Init => BatchInv
  BY RegsAssumption DEF Init, BatchInv, BatchesGrow, SnapshotAt
<1>2. BatchInv => BatchesGrow
  BY DEF BatchInv
<1>3. QED
  BY <1>1, <1>2, BatchStep, TypeCorrect, PTL DEF Spec

-----------------------------------------------------------------------------
(* The write path.                                                         *)

\* A write channel holds queued requests of its device, each of them once, and
\* none when its task has returned.
QueueInv ==
  \A d \in Devices :
    /\ pc[d] = "stopped" => wq[d] = <<>>
    /\ \A i \in 1..Len(wq[d]) :
         /\ wq[d][i] \in Reqs
         /\ DevOf[wq[d][i]] = d
         /\ st[wq[d][i]] = "queued"
         /\ \A j \in 1..Len(wq[d]) : wq[d][i] = wq[d][j] => i = j

\* A task serves one request at a time, and only where it awaits that request.
ServingInv ==
  \A r \in Reqs : st[r] = "serving" =>
    /\ pc[DevOf[r]] \in {"reconnecting", "writing"}
    /\ \A q \in Reqs : st[q] = "serving" /\ DevOf[q] = DevOf[r] => q = r

\* Where the Modbus request of a write can be, from the progress of the write.
NetInv ==
  \A r \in Reqs :
    /\ st[r] \in {"idle", "sending", "queued"} \cup (RuledOut \ {"exception"})
         => net[r] = "none"
    /\ st[r] = "serving" /\ pc[DevOf[r]] = "reconnecting" => net[r] = "none"
    /\ st[r] = "serving" /\ pc[DevOf[r]] = "writing" => net[r] \in {"wire", "gone"}
    /\ st[r] = "timeout" => net[r] \in {"limbo", "gone"}
    /\ st[r] \in {"ok", "exception"} => net[r] = "gone"

\* How often a write has been executed, from where its request is.
ExecutedInv ==
  \A r \in Reqs :
    /\ executed[r] \in {0, 1}
    /\ net[r] # "gone" => executed[r] = 0
    /\ st[r] = "ok" => executed[r] = 1
    /\ st[r] = "exception" => executed[r] = 0

\* A reply on a connection is the reply to the write being served.
ReplyInv ==
  \A d \in Devices :
    /\ pc[d] \notin {"reading", "writing"} => exch[d] = "none"
    /\ pc[d] = "reading" => exch[d] = "pending"
    /\ exch[d] = "ok" =>
         \A r \in Reqs : Serving(d, r) => net[r] = "gone" /\ executed[r] = 1
    /\ exch[d] = "exception" =>
         \A r \in Reqs : Serving(d, r) => net[r] = "gone" /\ executed[r] = 0

WriteInv == QueueInv /\ ServingInv /\ NetInv /\ ExecutedInv /\ ReplyInv

-----------------------------------------------------------------------------
(* Steps that serve no write.                                              *)

\* A poll starts and ends where the task serves no write, and leaves nothing
\* outstanding unless it is reading.
LEMMA PollEffect ==
  ASSUME TypeOK, ReplyInv, NEW d \in Devices, Poll(d)
  PROVE  /\ UNCHANGED <<wq, st, net, executed>>
         /\ {pc[d], pc'[d]} \cap {"reconnecting", "writing", "stopped"} = {}
         /\ exch'[d] = IF pc'[d] = "reading" THEN "pending" ELSE "none"
         /\ \A e \in Devices \ {d} : pc'[e] = pc[e] /\ exch'[e] = exch[e]
<1> USE DEF TypeOK, TaskTypeOK, ReplyInv, Goto
<1>1. CASE Tick(d)
  BY <1>1 DEF Tick, StartReading, reqVars
<1>2. CASE Connected(d)
  BY <1>2 DEF Connected, StartReading, reqVars
<1>3. CASE ConnectFailed(d)
  BY <1>3 DEF ConnectFailed, PollFailed, DropSource, reqVars
<1>4. CASE ReadFailed(d)
  BY <1>4 DEF ReadFailed, PollFailed, DropSource, reqVars
<1>5. CASE ReadRegister(d)
  BY <1>5 DEF ReadRegister, reqVars
<1>6. CASE ReadDone(d)
  BY <1>6 DEF ReadDone, reqVars
<1>7. CASE SendBatch(d)
  BY <1>7 DEF SendBatch, Loop, reqVars
<1>8. CASE BackoffOver(d)
  BY <1>8 DEF BackoffOver, Loop, reqVars
<1>9. QED
  BY <1>1, <1>2, <1>3, <1>4, <1>5, <1>6, <1>7, <1>8 DEF Poll

\* A poll keeps the invariant: the task serves no write before or after it.
LEMMA PollKeeps ==
  ASSUME TypeOK, WriteInv, NEW d \in Devices, Poll(d)
  PROVE  WriteInv'
<1>1. /\ UNCHANGED <<wq, st, net, executed>>
      /\ {pc[d], pc'[d]} \cap {"reconnecting", "writing", "stopped"} = {}
      /\ exch'[d] = IF pc'[d] = "reading" THEN "pending" ELSE "none"
      /\ \A e \in Devices \ {d} : pc'[e] = pc[e] /\ exch'[e] = exch[e]
  BY PollEffect DEF WriteInv
<1>2. \A r \in Reqs : st[r] = "serving" => DevOf[r] # d
  BY <1>1 DEF WriteInv, ServingInv
<1>3. QueueInv'
  <2>1. \A e \in Devices : pc'[e] = "stopped" => pc[e] = "stopped"
    BY <1>1
  <2>2. QED
    BY <1>1, <2>1 DEF WriteInv, QueueInv
<1>4. ServingInv'
  BY <1>1, <1>2, ReqsAssumption DEF WriteInv, ServingInv
<1>5. NetInv'
  BY <1>1, <1>2, ReqsAssumption DEF WriteInv, NetInv
<1>6. ExecutedInv'
  BY <1>1 DEF WriteInv, ExecutedInv
<1>7. ReplyInv'
  BY <1>1, <1>2 DEF WriteInv, ReplyInv, Serving
<1>8. QED
  BY <1>3, <1>4, <1>5, <1>6, <1>7 DEF WriteInv

\* A task that returns keeps the invariant, and drops what is queued.
LEMMA StopKeeps ==
  ASSUME TypeOK, WriteInv, NEW d \in Devices, StopTask(d)
  PROVE  WriteInv'
<1>1. /\ pc' = [pc EXCEPT ![d] = "stopped"] /\ pc[d] \in {"select", "backoff"}
      /\ wq' = [wq EXCEPT ![d] = <<>>]
      /\ UNCHANGED <<exch, st, net, executed>>
  BY DEF StopTask, Goto
<1>2. pc \in [Devices -> Places] /\ wq \in [Devices -> Seq(Reqs)]
  BY DEF TypeOK, TaskTypeOK, RequestTypeOK
<1>3. \A r \in Reqs : st[r] = "serving" => DevOf[r] # d
  BY <1>1 DEF WriteInv, ServingInv
<1>4. QueueInv'
  BY <1>1, <1>2 DEF WriteInv, QueueInv
<1>5. ServingInv'
  BY <1>1, <1>2, <1>3, ReqsAssumption DEF WriteInv, ServingInv
<1>6. NetInv'
  BY <1>1, <1>2, <1>3, ReqsAssumption DEF WriteInv, NetInv
<1>7. ExecutedInv'
  BY <1>1 DEF WriteInv, ExecutedInv
<1>8. ReplyInv'
  BY <1>1, <1>2 DEF WriteInv, ReplyInv, Serving
<1>9. QED
  BY <1>4, <1>5, <1>6, <1>7, <1>8 DEF WriteInv

-----------------------------------------------------------------------------
(* Steps that serve a write.                                               *)

\* The write channels after a step, when r is in none of them: what QueueInv says
\* of them with the progress of the requests before the step.
QueuesWithout(r) ==
  \A e \in Devices :
    /\ pc[e] = "stopped" => wq'[e] = <<>>
    /\ \A i \in 1..Len(wq'[e]) :
         /\ wq'[e][i] \in Reqs
         /\ DevOf[wq'[e][i]] = e
         /\ st[wq'[e][i]] = "queued"
         /\ wq'[e][i] # r
         /\ \A j \in 1..Len(wq'[e]) : wq'[e][i] = wq'[e][j] => i = j

\* No request but r is served by the task of d.
Alone(d, r) == \A q \in Reqs : st[q] = "serving" /\ DevOf[q] = d => q = r

\* An outcome, the place of the Modbus request and the number of executions that
\* go together.
Consistent(a, n, x) == /\ a \in RuledOut \ {"exception"} => n = "none"
                       /\ a = "timeout" => n \in {"limbo", "gone"}
                       /\ a \in {"ok", "exception"} => n = "gone"
                       /\ n # "gone" => x = 0
                       /\ a = "ok" => x = 1
                       /\ a = "exception" => x = 0

\* The request at the head of a write channel is a queued one of its device, is
\* not in the channel a second time, and no other request is being served.
LEMMA HeadOfQueue ==
  ASSUME TypeOK, WriteInv, NEW d \in Devices, pc[d] = "select", wq[d] # <<>>,
         wq' = [wq EXCEPT ![d] = Tail(@)]
  PROVE  /\ Head(wq[d]) \in Reqs
         /\ DevOf[Head(wq[d])] = d
         /\ st[Head(wq[d])] = "queued"
         /\ QueuesWithout(Head(wq[d]))
         /\ Alone(d, Head(wq[d]))
<1>1. wq[d] \in Seq(Reqs) /\ Len(wq[d]) \in Nat \ {0} /\ Head(wq[d]) = wq[d][1]
  BY DEF TypeOK, RequestTypeOK
<1>2. /\ Head(wq[d]) \in Reqs
      /\ DevOf[Head(wq[d])] = d
      /\ st[Head(wq[d])] = "queued"
  BY <1>1 DEF WriteInv, QueueInv
<1>3. wq'[d] = Tail(wq[d]) /\ \A e \in Devices \ {d} : wq'[e] = wq[e]
  BY DEF TypeOK, RequestTypeOK
<1>4. \A i \in 1..Len(wq'[d]) : i + 1 \in 1..Len(wq[d]) /\ wq'[d][i] = wq[d][i + 1]
  <2>1. \A q \in Seq(Reqs) : q # <<>> =>
          /\ Len(Tail(q)) = Len(q) - 1
          /\ \A i \in 1..Len(Tail(q)) : Tail(q)[i] = q[i + 1]
    OBVIOUS
  <2>2. Len(wq'[d]) = Len(wq[d]) - 1 /\ \A i \in 1..Len(wq'[d]) : wq'[d][i] = wq[d][i + 1]
    BY <1>1, <1>3, <2>1
  <2>3. QED
    BY <1>1, <2>2
<1>5. ASSUME NEW i \in 1..Len(wq'[d])
      PROVE  /\ wq'[d][i] \in Reqs
             /\ DevOf[wq'[d][i]] = d
             /\ st[wq'[d][i]] = "queued"
             /\ wq'[d][i] # Head(wq[d])
             /\ \A j \in 1..Len(wq'[d]) : wq'[d][i] = wq'[d][j] => i = j
  <2>1. i \in Nat /\ i > 0
    BY <1>1, <1>3
  <2>2. wq[d][i + 1] # wq[d][1]
    BY <1>1, <1>4, <2>1 DEF WriteInv, QueueInv
  <2>3. ASSUME NEW j \in 1..Len(wq'[d]), wq'[d][i] = wq'[d][j] PROVE i = j
    <3>1. i + 1 = j + 1
      BY <1>4, <2>3 DEF WriteInv, QueueInv
    <3>2. QED
      BY <3>1, <1>1, <1>3
  <2>4. QED
    BY <1>1, <1>4, <2>2, <2>3 DEF WriteInv, QueueInv
<1>6. ASSUME NEW e \in Devices \ {d}, NEW i \in 1..Len(wq'[e])
      PROVE  /\ wq'[e][i] \in Reqs
             /\ DevOf[wq'[e][i]] = e
             /\ st[wq'[e][i]] = "queued"
             /\ wq'[e][i] # Head(wq[d])
             /\ \A j \in 1..Len(wq'[e]) : wq'[e][i] = wq'[e][j] => i = j
  BY <1>2, <1>3 DEF WriteInv, QueueInv
<1>7. ASSUME NEW e \in Devices, NEW i \in 1..Len(wq'[e])
      PROVE  /\ wq'[e][i] \in Reqs
             /\ DevOf[wq'[e][i]] = e
             /\ st[wq'[e][i]] = "queued"
             /\ wq'[e][i] # Head(wq[d])
             /\ \A j \in 1..Len(wq'[e]) : wq'[e][i] = wq'[e][j] => i = j
  <2>1. CASE e = d
    BY <1>5, <2>1
  <2>2. CASE e # d
    BY <1>6, <2>2
  <2>3. QED
    BY <2>1, <2>2
<1>8. \A e \in Devices : pc[e] = "stopped" => wq'[e] = <<>>
  BY <1>3 DEF WriteInv, QueueInv
<1>9. QueuesWithout(Head(wq[d]))
  BY <1>7, <1>8 DEF QueuesWithout
<1>10. Alone(d, Head(wq[d]))
  BY DEF WriteInv, ServingInv, Alone
<1>11. QED
  BY <1>2, <1>9, <1>10

\* A request that is being served is in no write channel, and is alone.
LEMMA ServedRequest ==
  ASSUME TypeOK, WriteInv, NEW d \in Devices, NEW r \in Reqs, Serving(d, r),
         UNCHANGED wq
  PROVE  QueuesWithout(r) /\ Alone(d, r)
<1>1. QueuesWithout(r)
  BY DEF WriteInv, QueueInv, QueuesWithout, Serving
<1>2. Alone(d, r)
  BY DEF WriteInv, ServingInv, Alone, Serving
<1>3. QED
  BY <1>1, <1>2

\* Answering the request the task of d holds, and going back to select!, keeps
\* the invariant when the outcome is consistent.
LEMMA AnswerKeeps ==
  ASSUME TypeOK, WriteInv,
         NEW d \in Devices, NEW r \in Reqs, DevOf[r] = d, pc[d] # "stopped",
         NEW a \in Outcomes, NEW n \in {"none", "wire", "limbo", "gone"},
         QueuesWithout(r), Alone(d, r), Consistent(a, n, executed[r]),
         pc' = [pc EXCEPT ![d] = "select"],
         st' = [st EXCEPT ![r] = a],
         net' = [net EXCEPT ![r] = n],
         exch' = [exch EXCEPT ![d] = "none"],
         UNCHANGED executed
  PROVE  WriteInv'
<1>1. /\ pc \in [Devices -> Places] /\ exch \in [Devices -> {"none", "pending", "ok", "exception"}]
      /\ st \in [Reqs -> {"idle"} \cup Waiting \cup Outcomes]
      /\ net \in [Reqs -> {"none", "wire", "limbo", "gone"}]
  BY DEF TypeOK, TaskTypeOK, RequestTypeOK
<1>2. a \notin {"idle", "sending", "queued", "serving"}
  BY DEF Outcomes, RuledOut
<1>3. \A q \in Reqs : q # r => st'[q] = st[q] /\ net'[q] = net[q]
  BY <1>1
<1>4. st'[r] = a /\ net'[r] = n
  BY <1>1
<1>5. \A q \in Reqs : st'[q] = "serving" => q # r /\ DevOf[q] # d /\ pc'[DevOf[q]] = pc[DevOf[q]]
  BY <1>1, <1>2, <1>3, <1>4, ReqsAssumption DEF Alone
<1>6. QueueInv'
  <2>1. \A e \in Devices : pc'[e] = "stopped" => pc[e] = "stopped"
    BY <1>1
  <2>2. QED
    BY <1>3, <2>1 DEF QueueInv, QueuesWithout
<1>7. ServingInv'
  BY <1>3, <1>5 DEF WriteInv, ServingInv
<1>8. NetInv'
  <2>1. ASSUME NEW q \in Reqs, q # r
        PROVE  /\ st'[q] \in {"idle", "sending", "queued"} \cup (RuledOut \ {"exception"})
                    => net'[q] = "none"
               /\ st'[q] = "serving" /\ pc'[DevOf[q]] = "reconnecting" => net'[q] = "none"
               /\ st'[q] = "serving" /\ pc'[DevOf[q]] = "writing" => net'[q] \in {"wire", "gone"}
               /\ st'[q] = "timeout" => net'[q] \in {"limbo", "gone"}
               /\ st'[q] \in {"ok", "exception"} => net'[q] = "gone"
    BY <1>3, <1>5, <2>1 DEF WriteInv, NetInv
  <2>2. /\ st'[r] \in {"idle", "sending", "queued"} \cup (RuledOut \ {"exception"})
              => net'[r] = "none"
        /\ st'[r] # "serving"
        /\ st'[r] = "timeout" => net'[r] \in {"limbo", "gone"}
        /\ st'[r] \in {"ok", "exception"} => net'[r] = "gone"
    BY <1>2, <1>4 DEF Consistent
  <2>3. QED
    BY <2>1, <2>2 DEF NetInv
<1>9. ExecutedInv'
  BY <1>3, <1>4 DEF WriteInv, ExecutedInv, Consistent
<1>10. ReplyInv'
  <2>1. exch'[d] = "none" /\ pc'[d] = "select"
    BY <1>1
  <2>2. \A e \in Devices \ {d} : exch'[e] = exch[e] /\ pc'[e] = pc[e]
    BY <1>1
  <2>3. \A e \in Devices, q \in Reqs : Serving(e, q)' => Serving(e, q) /\ q # r
    BY <1>3, <1>5 DEF Serving
  <2>4. QED
    BY <1>3, <2>1, <2>2, <2>3 DEF WriteInv, ReplyInv
<1>11. QED
  BY <1>6, <1>7, <1>8, <1>9, <1>10 DEF WriteInv

\* Starting to serve the request the task of d holds keeps the invariant: while
\* it reconnects nothing is sent, and then the Modbus request is on the wire.
LEMMA ServeKeeps ==
  ASSUME TypeOK, WriteInv,
         NEW d \in Devices, NEW r \in Reqs, DevOf[r] = d, pc[d] # "stopped",
         NEW place, NEW n, NEW x,
         \/ place = "reconnecting" /\ n = "none" /\ x = "none"
         \/ place = "writing" /\ n = "wire" /\ x = "pending",
         QueuesWithout(r), Alone(d, r), executed[r] = 0,
         pc' = [pc EXCEPT ![d] = place],
         st' = [st EXCEPT ![r] = "serving"],
         net' = [net EXCEPT ![r] = n],
         exch' = [exch EXCEPT ![d] = x],
         UNCHANGED executed
  PROVE  WriteInv'
<1>1. /\ pc \in [Devices -> Places] /\ exch \in [Devices -> {"none", "pending", "ok", "exception"}]
      /\ st \in [Reqs -> {"idle"} \cup Waiting \cup Outcomes]
      /\ net \in [Reqs -> {"none", "wire", "limbo", "gone"}]
  BY DEF TypeOK, TaskTypeOK, RequestTypeOK
<1>2. \A q \in Reqs : q # r => st'[q] = st[q] /\ net'[q] = net[q]
  BY <1>1
<1>3. st'[r] = "serving" /\ net'[r] = n /\ pc'[d] = place /\ exch'[d] = x
  BY <1>1
<1>4. \A e \in Devices \ {d} : exch'[e] = exch[e] /\ pc'[e] = pc[e]
  BY <1>1
<1>5. \A q \in Reqs : st'[q] = "serving" /\ q # r => DevOf[q] # d /\ st[q] = "serving"
  BY <1>2, ReqsAssumption DEF Alone
<1>6. QueueInv'
  <2>1. \A e \in Devices : pc'[e] = "stopped" => pc[e] = "stopped"
    BY <1>3, <1>4
  <2>2. QED
    BY <1>2, <2>1 DEF QueueInv, QueuesWithout
<1>7. ServingInv'
  BY <1>2, <1>3, <1>4, <1>5, ReqsAssumption DEF WriteInv, ServingInv
<1>8. NetInv'
  <2>1. ASSUME NEW q \in Reqs, q # r
        PROVE  /\ st'[q] \in {"idle", "sending", "queued"} \cup (RuledOut \ {"exception"})
                    => net'[q] = "none"
               /\ st'[q] = "serving" /\ pc'[DevOf[q]] = "reconnecting" => net'[q] = "none"
               /\ st'[q] = "serving" /\ pc'[DevOf[q]] = "writing" => net'[q] \in {"wire", "gone"}
               /\ st'[q] = "timeout" => net'[q] \in {"limbo", "gone"}
               /\ st'[q] \in {"ok", "exception"} => net'[q] = "gone"
    BY <1>2, <1>4, <1>5, <2>1, ReqsAssumption DEF WriteInv, NetInv
  <2>2. /\ st'[r] \notin {"idle", "sending", "queued", "timeout", "ok"} \cup RuledOut
        /\ pc'[DevOf[r]] = "reconnecting" => net'[r] = "none"
        /\ pc'[DevOf[r]] = "writing" => net'[r] \in {"wire", "gone"}
    BY <1>3 DEF RuledOut
  <2>3. QED
    BY <2>1, <2>2 DEF NetInv, RuledOut
<1>9. ExecutedInv'
  BY <1>2, <1>3 DEF WriteInv, ExecutedInv
<1>10. ReplyInv'
  <2>1. \A e \in Devices \ {d}, q \in Reqs : Serving(e, q)' => Serving(e, q) /\ q # r
    BY <1>2 DEF Serving
  <2>2. QED
    BY <1>2, <1>3, <1>4, <2>1 DEF WriteInv, ReplyInv
<1>11. QED
  BY <1>6, <1>7, <1>8, <1>9, <1>10 DEF WriteInv

\* Dispatching a request that is not on the way yet keeps the invariant.
LEMMA DispatchKeeps ==
  ASSUME TypeOK, WriteInv,
         NEW d \in Devices, NEW r \in Reqs, DevOf[r] = d,
         pc[d] \in {"select", "reconnecting"},
         st[r] \in {"queued", "serving"}, QueuesWithout(r), Alone(d, r),
         Dispatch(d, r), UNCHANGED executed
  PROVE  WriteInv'
<1>1. net[r] = "none" /\ executed[r] = 0
  BY DEF WriteInv, NetInv, ExecutedInv, ServingInv
<1>2. exch[d] = "none"
  BY DEF WriteInv, ReplyInv
<1>3. CASE KnownToSource(d, r)
  BY <1>1, <1>3, ServeKeeps DEF Dispatch, Goto, Answer
<1>4. CASE ~KnownToSource(d, r)
  <2>1. /\ net \in [Reqs -> {"none", "wire", "limbo", "gone"}]
        /\ exch \in [Devices -> {"none", "pending", "ok", "exception"}]
    BY DEF TypeOK, TaskTypeOK, RequestTypeOK
  <2>2. net' = [net EXCEPT ![r] = "none"] /\ exch' = [exch EXCEPT ![d] = "none"]
    BY <1>1, <1>2, <1>4, <2>1 DEF Dispatch
  <2>3. Consistent("badreg", "none", executed[r]) /\ "badreg" \in Outcomes
    BY <1>1 DEF Consistent, Outcomes, RuledOut
  <2>4. /\ pc' = [pc EXCEPT ![d] = "select"]
        /\ st' = [st EXCEPT ![r] = "badreg"]
    BY <1>4 DEF Dispatch, Loop, Goto, Answer
  <2>5. QED
    BY <2>2, <2>3, <2>4, AnswerKeeps
<1>5. QED
  BY <1>3, <1>4

\* Taking a request from the queue keeps the invariant, whatever becomes of it.
LEMMA TakeWriteKeeps ==
  ASSUME TypeOK, WriteInv, NEW d \in Devices, TakeWrite(d)
  PROVE  WriteInv'
<1> DEFINE r == Head(wq[d])
<1>1. /\ pc[d] = "select" /\ wq[d] # <<>>
      /\ wq' = [wq EXCEPT ![d] = Tail(@)]
      /\ UNCHANGED executed
  BY DEF TakeWrite
<1>2. r \in Reqs /\ DevOf[r] = d /\ st[r] = "queued" /\ QueuesWithout(r) /\ Alone(d, r)
  BY <1>1, HeadOfQueue
<1>3. net[r] = "none" /\ executed[r] = 0 /\ exch[d] = "none"
  BY <1>1, <1>2 DEF WriteInv, NetInv, ExecutedInv, ReplyInv
<1>4. /\ net \in [Reqs -> {"none", "wire", "limbo", "gone"}]
      /\ exch \in [Devices -> {"none", "pending", "ok", "exception"}]
  BY DEF TypeOK, TaskTypeOK, RequestTypeOK
<1>5. CASE Answer(r, "refused") /\ Loop(d) /\ UNCHANGED <<exch, net>>
  <2>1. Consistent("refused", "none", executed[r]) /\ "refused" \in Outcomes
    BY <1>3 DEF Consistent, Outcomes, RuledOut
  <2>2. net' = [net EXCEPT ![r] = "none"] /\ exch' = [exch EXCEPT ![d] = "none"]
    BY <1>2, <1>3, <1>4, <1>5
  <2>3. pc' = [pc EXCEPT ![d] = "select"] /\ st' = [st EXCEPT ![r] = "refused"]
    BY <1>5 DEF Loop, Goto, Answer
  <2>4. QED
    BY <1>1, <1>2, <2>1, <2>2, <2>3, AnswerKeeps
<1>6. CASE Answer(r, "serving") /\ Goto(d, "reconnecting") /\ UNCHANGED <<exch, net>>
  <2>1. net' = [net EXCEPT ![r] = "none"] /\ exch' = [exch EXCEPT ![d] = "none"]
    BY <1>2, <1>3, <1>4, <1>6
  <2>2. pc' = [pc EXCEPT ![d] = "reconnecting"] /\ st' = [st EXCEPT ![r] = "serving"]
    BY <1>6 DEF Goto, Answer
  <2>3. QED
    BY <1>1, <1>2, <1>3, <2>1, <2>2, ServeKeeps
<1>7. CASE Dispatch(d, r)
  BY <1>1, <1>2, <1>7, DispatchKeeps
<1>8. QED
  BY <1>5, <1>6, <1>7 DEF TakeWrite
\* The answers the task gives once it has started to serve a request.
LEMMA ServedKeeps ==
  ASSUME TypeOK, WriteInv, NEW d \in Devices, NEW r \in Reqs,
         \/ WriteConnected(d, r) \/ WriteConnectFailed(d, r)
         \/ WriteReplied(d, r) \/ WriteTimeout(d, r)
  PROVE  WriteInv'
<1>1. /\ Serving(d, r) /\ pc[d] \in {"reconnecting", "writing"}
      /\ DevOf[r] = d /\ st[r] = "serving"
      /\ UNCHANGED <<wq, executed>>
  BY DEF WriteConnected, WriteConnectFailed, WriteReplied, WriteTimeout, Serving
<1>2. QueuesWithout(r) /\ Alone(d, r)
  BY <1>1, ServedRequest
<1>3. /\ net \in [Reqs -> {"none", "wire", "limbo", "gone"}]
      /\ exch \in [Devices -> {"none", "pending", "ok", "exception"}]
  BY DEF TypeOK, TaskTypeOK, RequestTypeOK
<1>4. CASE WriteConnected(d, r)
  <2>1. pc[d] = "reconnecting" /\ Dispatch(d, r)
    BY <1>4 DEF WriteConnected
  <2>2. QED
    BY <1>1, <1>2, <2>1, DispatchKeeps
<1>5. CASE WriteConnectFailed(d, r)
  <2>1. pc[d] = "reconnecting" /\ UNCHANGED <<exch, net>>
    BY <1>5 DEF WriteConnectFailed
  <2>2. net[r] = "none" /\ exch[d] = "none" /\ executed[r] = 0
    BY <1>1, <2>1 DEF WriteInv, NetInv, ReplyInv, ExecutedInv
  <2>3. net' = [net EXCEPT ![r] = "none"] /\ exch' = [exch EXCEPT ![d] = "none"]
    BY <1>3, <2>1, <2>2
  <2>4. pc' = [pc EXCEPT ![d] = "select"] /\ st' = [st EXCEPT ![r] = "connfail"]
    BY <1>5 DEF WriteConnectFailed, Loop, Goto, Answer
  <2>5. Consistent("connfail", "none", executed[r]) /\ "connfail" \in Outcomes
    BY <2>2 DEF Consistent, Outcomes, RuledOut
  <2>6. QED
    BY <1>1, <1>2, <2>3, <2>4, <2>5, AnswerKeeps
<1>6. CASE WriteReplied(d, r)
  <2>1. PICK a \in {"ok", "exception"} : exch[d] = a /\ st' = [st EXCEPT ![r] = a]
    BY <1>6 DEF WriteReplied, Answer
  <2>2. net[r] = "gone" /\ (a = "ok" => executed[r] = 1) /\ (a = "exception" => executed[r] = 0)
    BY <1>1, <2>1 DEF WriteInv, ReplyInv
  <2>3. net' = [net EXCEPT ![r] = "gone"] /\ exch' = [exch EXCEPT ![d] = "none"]
    BY <1>3, <1>6, <2>2 DEF WriteReplied
  <2>4. pc' = [pc EXCEPT ![d] = "select"]
    BY <1>6 DEF WriteReplied, Loop, Goto
  <2>5. Consistent(a, "gone", executed[r]) /\ a \in Outcomes
    BY <2>2 DEF Consistent, Outcomes, RuledOut
  <2>6. QED
    BY <1>1, <1>2, <2>1, <2>3, <2>4, <2>5, AnswerKeeps
<1>7. CASE WriteTimeout(d, r)
  <2>1. pc[d] = "writing" /\ net[r] \in {"wire", "gone"}
    BY <1>1, <1>7 DEF WriteTimeout, WriteInv, NetInv
  <2>2. PICK n \in {"limbo", "gone"} :
          (n = "limbo" => net[r] = "wire") /\ net' = [net EXCEPT ![r] = n]
    BY <1>7, <2>1 DEF WriteTimeout, DropConnection
  <2>3. n = "limbo" => executed[r] = 0
    BY <2>2 DEF WriteInv, ExecutedInv
  <2>4. Consistent("timeout", n, executed[r]) /\ "timeout" \in Outcomes
    BY <2>3 DEF Consistent, Outcomes, RuledOut
  <2>5. /\ pc' = [pc EXCEPT ![d] = "select"]
        /\ st' = [st EXCEPT ![r] = "timeout"]
        /\ exch' = [exch EXCEPT ![d] = "none"]
    BY <1>7 DEF WriteTimeout, DropConnection, Loop, Goto, Answer
  <2>6. QED
    BY <1>1, <1>2, <2>2, <2>4, <2>5, AnswerKeeps
<1>8. QED
  BY <1>4, <1>5, <1>6, <1>7

-----------------------------------------------------------------------------
(* Steps of the callers.                                                   *)

\* A caller's step before its request is served leaves nothing on the way; what
\* it does to the queues is left to QueueInv'.
LEMMA RequesterKeeps ==
  ASSUME TypeOK, WriteInv, NEW r \in Reqs,
         NEW from \in {"idle", "sending", "queued"},
         NEW to \in {"sending", "queued", "closed", "noreply", "abandoned"},
         Requester(r, from, to), QueueInv'
  PROVE  WriteInv'
<1>1. /\ st[r] = from /\ st' = [st EXCEPT ![r] = to]
      /\ UNCHANGED <<pc, exch, net, executed>>
  BY DEF Requester, Answer, taskVars
<1>2. st \in [Reqs -> {"idle"} \cup Waiting \cup Outcomes]
  BY DEF TypeOK, RequestTypeOK
<1>3. st'[r] = to /\ \A q \in Reqs : q # r => st'[q] = st[q]
  BY <1>1, <1>2
<1>4. \A q \in Reqs : st'[q] = "serving" => st[q] = "serving" /\ q # r
  BY <1>3
<1>5. net[r] = "none"
  BY <1>1 DEF WriteInv, NetInv
<1>6. ServingInv'
  BY <1>1, <1>4 DEF WriteInv, ServingInv
<1>7. NetInv'
  BY <1>1, <1>3, <1>5 DEF WriteInv, NetInv
<1>8. ExecutedInv'
  BY <1>1, <1>3 DEF WriteInv, ExecutedInv
<1>9. ReplyInv'
  BY <1>1, <1>4 DEF WriteInv, ReplyInv, Serving
<1>10. QED
  BY <1>6, <1>7, <1>8, <1>9 DEF WriteInv

\* A request that is in no queue may change its progress.
LEMMA QueuesUntouched ==
  ASSUME WriteInv, NEW r \in Reqs, NEW to,
         st[r] # "queued" \/ pc[DevOf[r]] = "stopped",
         st' = [st EXCEPT ![r] = to], UNCHANGED <<pc, wq>>
  PROVE  QueueInv'
<1>1. ASSUME NEW d \in Devices, NEW i \in 1..Len(wq[d]) PROVE wq[d][i] # r
  <2>1. CASE st[r] # "queued"
    BY <2>1 DEF WriteInv, QueueInv
  <2>2. CASE pc[DevOf[r]] = "stopped"
    <3>1. DevOf[wq[d][i]] = d /\ wq[d] # <<>>
      BY DEF WriteInv, QueueInv
    <3>2. QED
      BY <2>2, <3>1 DEF WriteInv, QueueInv
  <2>3. QED
    BY <2>1, <2>2
<1>2. QED
  BY <1>1 DEF WriteInv, QueueInv

\* A request that waited for room joins the queue of its device.
LEMMA EnqueueKeeps ==
  ASSUME TypeOK, WriteInv, NEW r \in Reqs, Enqueue(r)
  PROVE  QueueInv'
<1> DEFINE d == DevOf[r]
<1>1. d \in Devices /\ wq[d] \in Seq(Reqs) /\ Len(wq[d]) \in Nat
  BY ReqsAssumption DEF TypeOK, RequestTypeOK
<1>2. /\ pc[d] # "stopped" /\ st[r] = "sending"
      /\ wq' = [wq EXCEPT ![d] = Append(@, r)]
      /\ st' = [st EXCEPT ![r] = "queued"]
      /\ UNCHANGED pc
  BY DEF Enqueue, Requester, Answer, taskVars
<1>3. /\ st'[r] = "queued" /\ \A q \in Reqs : q # r => st'[q] = st[q]
      /\ wq'[d] = Append(wq[d], r)
      /\ \A e \in Devices \ {d} : wq'[e] = wq[e]
  BY <1>1, <1>2 DEF TypeOK, RequestTypeOK
<1>4. \A e \in Devices : \A i \in 1..Len(wq[e]) : wq[e][i] # r
  BY <1>2 DEF WriteInv, QueueInv
<1>5. /\ Len(wq'[d]) = Len(wq[d]) + 1
      /\ wq'[d][Len(wq[d]) + 1] = r
      /\ \A i \in 1..Len(wq[d]) : wq'[d][i] = wq[d][i]
  BY <1>1, <1>3
<1>6. ASSUME NEW e \in Devices \ {d}
      PROVE  /\ pc'[e] = "stopped" => wq'[e] = <<>>
             /\ \A i \in 1..Len(wq'[e]) :
                  /\ wq'[e][i] \in Reqs
                  /\ DevOf[wq'[e][i]] = e
                  /\ st'[wq'[e][i]] = "queued"
                  /\ \A j \in 1..Len(wq'[e]) : wq'[e][i] = wq'[e][j] => i = j
  BY <1>2, <1>3, <1>4 DEF WriteInv, QueueInv
<1>7. ASSUME NEW i \in 1..Len(wq'[d])
      PROVE  /\ wq'[d][i] \in Reqs
             /\ DevOf[wq'[d][i]] = d
             /\ st'[wq'[d][i]] = "queued"
             /\ \A j \in 1..Len(wq'[d]) : wq'[d][i] = wq'[d][j] => i = j
  <2>1. CASE i = Len(wq[d]) + 1
    <3>1. \A j \in 1..Len(wq'[d]) : j = Len(wq[d]) + 1 \/ j \in 1..Len(wq[d])
      BY <1>1, <1>5
    <3>2. QED
      BY <1>3, <1>4, <1>5, <2>1, <3>1, <1>1
  <2>2. CASE i # Len(wq[d]) + 1
    <3>1. i \in 1..Len(wq[d])
      BY <1>1, <1>5, <2>2
    <3>2. \A j \in 1..Len(wq'[d]) : j = Len(wq[d]) + 1 \/ j \in 1..Len(wq[d])
      BY <1>1, <1>5
    <3>3. /\ wq[d][i] \in Reqs /\ DevOf[wq[d][i]] = d /\ st[wq[d][i]] = "queued"
          /\ \A j \in 1..Len(wq[d]) : wq[d][i] = wq[d][j] => i = j
      BY <1>1, <3>1 DEF WriteInv, QueueInv
    <3>4. wq'[d][i] = wq[d][i] /\ wq[d][i] # r
      BY <1>1, <1>4, <1>5, <3>1
    <3>5. st'[wq'[d][i]] = "queued"
      BY <1>3, <3>3, <3>4
    <3>6. QED
      BY <1>5, <3>2, <3>3, <3>4, <3>5
  <2>3. QED
    BY <2>1, <2>2
<1>8. pc'[d] # "stopped"
  BY <1>2
<1>9. QED
  BY <1>1, <1>6, <1>7, <1>8 DEF QueueInv

\* The steps of a caller keep the invariant.
LEMMA CallerKeeps ==
  ASSUME TypeOK, WriteInv, NEW r \in Reqs, Caller(r)
  PROVE  WriteInv'
<1>1. CASE Submit(r)
  <2>1. Requester(r, "idle", "sending") /\ UNCHANGED wq
    BY <1>1 DEF Submit
  <2>2. QueueInv'
    BY <2>1, QueuesUntouched DEF Requester, Answer, taskVars
  <2>3. QED
    BY <2>1, <2>2, RequesterKeeps
<1>2. CASE Enqueue(r)
  <2>1. Requester(r, "sending", "queued")
    BY <1>2 DEF Enqueue
  <2>2. QED
    BY <1>2, <2>1, EnqueueKeeps, RequesterKeeps
<1>3. CASE Abandon(r)
  <2>1. Requester(r, "sending", "abandoned") /\ UNCHANGED wq
    BY <1>3 DEF Abandon
  <2>2. QueueInv'
    BY <2>1, QueuesUntouched DEF Requester, Answer, taskVars
  <2>3. QED
    BY <2>1, <2>2, RequesterKeeps
<1>4. CASE Closed(r)
  <2>1. Requester(r, "sending", "closed") /\ UNCHANGED wq
    BY <1>4 DEF Closed
  <2>2. QueueInv'
    BY <2>1, QueuesUntouched DEF Requester, Answer, taskVars
  <2>3. QED
    BY <2>1, <2>2, RequesterKeeps
<1>5. CASE NoReply(r)
  <2>1. /\ Requester(r, "queued", "noreply") /\ UNCHANGED wq
        /\ pc[DevOf[r]] = "stopped"
    BY <1>5 DEF NoReply
  <2>2. QueueInv'
    BY <2>1, QueuesUntouched DEF Requester, Answer, taskVars
  <2>3. QED
    BY <2>1, <2>2, RequesterKeeps
<1>6. QED
  BY <1>1, <1>2, <1>3, <1>4, <1>5 DEF Caller

-----------------------------------------------------------------------------
(* Steps of the devices.                                                   *)

\* A Modbus request on the wire is that of the write its task is waiting for, and
\* one in limbo is that of a write that timed out.
LEMMA OnTheWay ==
  ASSUME TypeOK, WriteInv, NEW r \in Reqs, net[r] \in {"wire", "limbo"}
  PROVE  /\ net[r] = "wire" => st[r] = "serving" /\ pc[DevOf[r]] = "writing"
         /\ net[r] = "limbo" => st[r] = "timeout"
         /\ executed[r] = 0
<1>1. st[r] \in {"idle"} \cup Waiting \cup Outcomes
  BY DEF TypeOK, RequestTypeOK
<1>2. st[r] \in {"serving", "timeout"}
  BY <1>1 DEF WriteInv, NetInv, Waiting, Outcomes
<1>3. QED
  BY <1>2 DEF WriteInv, NetInv, ServingInv, ExecutedInv

\* The steps of a device keep the invariant.
LEMMA PcbaKeeps ==
  ASSUME TypeOK, WriteInv, NEW r \in Reqs, Pcba(r)
  PROVE  WriteInv'
<1> DEFINE d == DevOf[r]
<1>1. /\ net[r] \in {"wire", "limbo"}
      /\ net' = [net EXCEPT ![r] = "gone"]
      /\ UNCHANGED <<pc, wq, st>>
  BY DEF Pcba, Execute, Reject, Lose, DeviceStep
<1>2. PICK a \in {"ok", "exception", "lost"}, x \in {0, 1} :
        /\ executed' = [executed EXCEPT ![r] = x]
        /\ a = "ok" => x = 1
        /\ a = "exception" => x = 0
        /\ a = "lost" \/ net[r] = "limbo" => UNCHANGED exch
        /\ a # "lost" /\ net[r] = "wire" => exch' = [exch EXCEPT ![d] = a]
  <2>1. executed[r] = 0 /\ executed \in [Reqs -> Nat] /\ d \in Devices
    BY <1>1, OnTheWay, ReqsAssumption DEF TypeOK, RequestTypeOK
  <2>2. exch \in [Devices -> {"none", "pending", "ok", "exception"}]
    BY DEF TypeOK, TaskTypeOK
  <2>3. CASE Execute(r)
    <3>1. executed' = [executed EXCEPT ![r] = 1]
      BY <2>1, <2>3 DEF Execute
    <3>2. /\ net[r] = "limbo" => UNCHANGED exch
          /\ net[r] = "wire" => exch' = [exch EXCEPT ![d] = "ok"]
      BY <2>1, <2>2, <2>3 DEF Execute, Reply
    <3>3. QED
      BY <3>1, <3>2
  <2>4. CASE Reject(r)
    <3>1. executed' = [executed EXCEPT ![r] = 0]
      BY <2>1, <2>4 DEF Reject
    <3>2. /\ net[r] = "limbo" => UNCHANGED exch
          /\ net[r] = "wire" => exch' = [exch EXCEPT ![d] = "exception"]
      BY <2>1, <2>2, <2>4 DEF Reject, Reply
    <3>3. QED
      BY <3>1, <3>2
  <2>5. CASE Lose(r)
    <3>1. executed' = [executed EXCEPT ![r] = 0] /\ UNCHANGED exch
      BY <2>1, <2>5 DEF Lose
    <3>2. QED
      BY <3>1
  <2>6. QED
    BY <2>3, <2>4, <2>5 DEF Pcba
<1>3. /\ net[r] = "wire" => st[r] = "serving" /\ pc[d] = "writing"
      /\ net[r] = "limbo" => st[r] = "timeout"
  BY <1>1, OnTheWay
<1>4. /\ net'[r] = "gone" /\ executed'[r] = x
      /\ \A q \in Reqs : q # r => net'[q] = net[q] /\ executed'[q] = executed[q]
  BY <1>1, <1>2 DEF TypeOK, RequestTypeOK
<1>5. QueueInv'
  BY <1>1 DEF WriteInv, QueueInv
<1>6. ServingInv'
  BY <1>1 DEF WriteInv, ServingInv
<1>7. NetInv'
  BY <1>1, <1>3, <1>4 DEF WriteInv, NetInv, RuledOut
<1>8. ExecutedInv'
  BY <1>1, <1>3, <1>4 DEF WriteInv, ExecutedInv
<1>9. ReplyInv'
  <2>1. CASE net[r] = "wire"
    <3>1. /\ exch[d] \notin {"ok", "exception"} /\ Alone(d, r) /\ d \in Devices
      BY <1>3, <2>1, ReqsAssumption DEF WriteInv, ReplyInv, ServingInv, Serving, Alone
    <3>2. /\ exch'[d] = IF a = "lost" THEN exch[d] ELSE a
          /\ \A e \in Devices \ {d} : exch'[e] = exch[e]
      BY <1>2, <2>1, <3>1 DEF TypeOK, TaskTypeOK
    <3>3. ASSUME NEW q \in Reqs, Serving(d, q)
          PROVE  net'[q] = "gone" /\ executed'[q] = x
      BY <1>4, <3>1, <3>3 DEF Alone, Serving
    <3>4. \A e \in Devices \ {d} : \A q \in Reqs :
            Serving(e, q) => net'[q] = net[q] /\ executed'[q] = executed[q]
      BY <1>4 DEF Serving
    <3>5. QED
      BY <1>1, <1>2, <1>3, <2>1, <3>1, <3>2, <3>3, <3>4 DEF WriteInv, ReplyInv, Serving
  <2>2. CASE net[r] = "limbo"
    <3>1. UNCHANGED exch /\ \A e \in Devices : ~Serving(e, r)
      BY <1>2, <1>3, <2>2 DEF Serving
    <3>2. QED
      BY <1>1, <1>4, <3>1 DEF WriteInv, ReplyInv, Serving
  <2>3. QED
    BY <1>1, <2>1, <2>2
<1>10. QED
  BY <1>5, <1>6, <1>7, <1>8, <1>9 DEF WriteInv

-----------------------------------------------------------------------------
(* The invariant and what follows from it.                                 *)

\* Every step keeps the invariant; the main loop and the configuration do not
\* touch what it speaks of.
LEMMA WriteInvStep == TypeOK /\ WriteInv /\ [Next]_vars => WriteInv'
<1> SUFFICES ASSUME TypeOK, WriteInv, [Next]_vars PROVE WriteInv'
  OBVIOUS
<1>1. ASSUME UNCHANGED <<pc, exch, reqVars>> PROVE WriteInv'
  <2> USE <1>1 DEF reqVars
  <2>1. QueueInv'
    BY DEF WriteInv, QueueInv
  <2>2. ServingInv'
    BY DEF WriteInv, ServingInv
  <2>3. NetInv'
    BY DEF WriteInv, NetInv
  <2>4. ExecutedInv'
    BY DEF WriteInv, ExecutedInv
  <2>5. ReplyInv'
    BY DEF WriteInv, ReplyInv, Serving
  <2>6. QED
    BY <2>1, <2>2, <2>3, <2>4, <2>5 DEF WriteInv
<1>2. ASSUME NEW d \in Devices, Task(d) PROVE WriteInv'
  <2>1. CASE ServeWrite(d)
    BY <2>1, TakeWriteKeeps, ServedKeeps DEF ServeWrite
  <2>2. QED
    BY <1>2, <2>1, PollKeeps, StopKeeps DEF Task
<1>3. ASSUME NEW d \in Devices, AddRegister(d) PROVE WriteInv'
  BY <1>1, <1>3 DEF AddRegister, taskVars
<1>4. ASSUME Consume \/ Signal \/ Exit PROVE WriteInv'
  BY <1>1, <1>4 DEF Consume, Signal, Exit, taskVars
<1>5. CASE UNCHANGED vars
  BY <1>1, <1>5 DEF vars, taskVars
<1>6. QED
  BY <1>2, <1>3, <1>4, <1>5, CallerKeeps, PcbaKeeps DEF Next

\* The invariant of the write path holds throughout.
THEOREM WriteInvariant == Spec => []WriteInv
<1>1. Init => WriteInv
  BY DEF Init, WriteInv, QueueInv, ServingInv, NetInv, ExecutedInv, ReplyInv
<1>2. QED
  BY <1>1, WriteInvStep, TypeCorrect, PTL DEF Spec

\* A write reported as done has been executed.
THEOREM OkIsExecuted == Spec => []OkMeansExecuted
<1>1. WriteInv => OkMeansExecuted
  BY DEF WriteInv, ExecutedInv, OkMeansExecuted
<1>2. QED
  BY <1>1, WriteInvariant, PTL

\* No write is executed twice.
THEOREM NeverTwice == Spec => []AtMostOnce
<1>1. WriteInv => AtMostOnce
  BY DEF WriteInv, ExecutedInv, AtMostOnce
<1>2. QED
  BY <1>1, WriteInvariant, PTL

\* A write whose caller was told that it failed is not executed, then or later.
THEOREM FailedStaysUnexecuted == Spec => []RefusedNeverExecuted
<1>1. WriteInv => RefusedNeverExecuted
  <2> SUFFICES ASSUME WriteInv, NEW r \in Reqs, st[r] \in RuledOut
               PROVE  executed[r] = 0 /\ net[r] \in {"none", "gone"}
    BY DEF RefusedNeverExecuted
  <2>1. CASE st[r] = "exception"
    BY <2>1 DEF WriteInv, NetInv, ExecutedInv
  <2>2. CASE st[r] # "exception"
    BY <2>2 DEF WriteInv, NetInv, ExecutedInv
  <2>3. QED
    BY <2>1, <2>2
<1>2. QED
  BY <1>1, WriteInvariant, PTL

\* Nothing is outstanding on a connection that is used for the next request.
THEOREM ConnectionsClean == Spec => []CleanConnection
<1>1. WriteInv => CleanConnection
  BY DEF WriteInv, ReplyInv, CleanConnection
<1>2. QED
  BY <1>1, WriteInvariant, PTL

-----------------------------------------------------------------------------
(* The refinement of WriteService: every step is a step of the abstract     *)
(* service, or leaves what the callers know and what the devices have       *)
(* executed unchanged.                                                      *)

ServiceStep == [Service!Next]_(Service!svcVars)

\* A step that changes neither the progress of a request nor what has been
\* executed is a stuttering step of the service.
LEMMA Stutters ==
  ASSUME UNCHANGED <<st, executed>>
  PROVE  ServiceStep
  BY DEF ServiceStep, Service!svcVars

\* The progress of a request as the service sees it.
LEMMA PromisedValues ==
  /\ Promised("idle") = "idle"
  /\ \A s \in Waiting : Promised(s) = "pending"
  /\ \A s \in RuledOut : Promised(s) = "failed"
  /\ Promised("ok") = "ok"
  /\ Promised("timeout") = "unsure"
  BY DEF Promised, Waiting, RuledOut

\* Progress of a request that waits is invisible, and its outcome is an answer
\* the service may give.
LEMMA AnswerIsServiceStep ==
  ASSUME TypeOK, WriteInv', NEW r \in Reqs, st[r] \in Waiting,
         NEW a \in Waiting \cup Outcomes, Answer(r, a), UNCHANGED executed
  PROVE  ServiceStep
<1> DEFINE status == [q \in Reqs |-> Promised(st[q])]
<1>1. st' = [st EXCEPT ![r] = a] /\ DOMAIN st = Reqs /\ st'[r] = a
  BY DEF Answer, TypeOK, RequestTypeOK
<1>2. status' = [status EXCEPT ![r] = Promised(a)]
  BY <1>1
<1>3. status[r] = "pending"
  BY PromisedValues
<1>4. CASE a \in Waiting
  <2>1. Promised(a) = "pending"
    BY <1>4, PromisedValues
  <2>2. status' = status
    BY <1>2, <1>3, <2>1
  <2>3. QED
    BY <2>2 DEF ServiceStep, Service!svcVars
<1>5. CASE a \in Outcomes
  <2>1. /\ a = "ok" => executed[r] = 1
        /\ a \in RuledOut => executed[r] = 0
    BY <1>1 DEF WriteInv, NetInv, ExecutedInv
  <2>2. CASE a = "ok"
    <3>1. Service!AnswerOk(r)
      BY <1>2, <1>3, <2>1, <2>2, PromisedValues DEF Service!AnswerOk, Service!Answer
    <3>2. QED
      BY <3>1 DEF ServiceStep, Service!Next
  <2>3. CASE a = "timeout"
    <3>1. Service!AnswerUnsure(r)
      BY <1>2, <1>3, <2>3, PromisedValues DEF Service!AnswerUnsure, Service!Answer
    <3>2. QED
      BY <3>1 DEF ServiceStep, Service!Next
  <2>4. CASE a \in RuledOut
    <3>1. Service!AnswerFailed(r)
      BY <1>2, <1>3, <2>1, <2>4, PromisedValues DEF Service!AnswerFailed, Service!Answer
    <3>2. QED
      BY <3>1 DEF ServiceStep, Service!Next
  <2>5. QED
    BY <1>5, <2>2, <2>3, <2>4 DEF Outcomes
<1>6. QED
  BY <1>4, <1>5

\* The steps of a task are steps of the service: it answers requests that wait.
LEMMA TaskRefines ==
  ASSUME TypeOK, WriteInv, WriteInv', NEW d \in Devices, Task(d)
  PROVE  ServiceStep
<1>1. CASE Poll(d)
  <2>1. UNCHANGED <<st, executed>>
    BY <1>1, PollEffect DEF WriteInv
  <2>2. QED
    BY <2>1, Stutters
<1>2. CASE StopTask(d)
  BY <1>2, Stutters DEF StopTask
<1>3. CASE TakeWrite(d)
  <2>1. /\ Head(wq[d]) \in Reqs /\ st[Head(wq[d])] = "queued"
    BY <1>3, HeadOfQueue DEF TakeWrite
  <2>2. PICK a \in {"refused", "serving", "badreg"} : Answer(Head(wq[d]), a)
    BY <1>3 DEF TakeWrite, Dispatch
  <2>3. a \in Waiting \cup Outcomes /\ st[Head(wq[d])] \in Waiting
    BY <2>1 DEF Waiting, Outcomes, RuledOut
  <2>4. UNCHANGED executed
    BY <1>3 DEF TakeWrite
  <2>5. QED
    BY <2>1, <2>2, <2>3, <2>4, AnswerIsServiceStep
<1>4. ASSUME NEW r \in Reqs,
             \/ WriteConnected(d, r) \/ WriteConnectFailed(d, r)
             \/ WriteReplied(d, r) \/ WriteTimeout(d, r)
      PROVE  ServiceStep
  <2>1. PICK a \in {"serving", "badreg", "connfail", "ok", "exception", "timeout"} :
          Answer(r, a)
    BY <1>4 DEF WriteConnected, Dispatch, WriteConnectFailed, WriteReplied, WriteTimeout
  <2>2. st[r] = "serving" /\ UNCHANGED executed
    BY <1>4 DEF WriteConnected, WriteConnectFailed, WriteReplied, WriteTimeout, Serving
  <2>3. a \in Waiting \cup Outcomes /\ st[r] \in Waiting
    BY <2>2 DEF Waiting, Outcomes, RuledOut
  <2>4. QED
    BY <2>1, <2>2, <2>3, AnswerIsServiceStep
<1>5. QED
  BY <1>1, <1>2, <1>3, <1>4 DEF Task, ServeWrite

\* The steps of a caller: a submission is one of the service.
LEMMA CallerRefines ==
  ASSUME TypeOK, WriteInv', NEW r \in Reqs, Caller(r)
  PROVE  ServiceStep
<1>1. CASE Submit(r)
  <2> DEFINE status == [q \in Reqs |-> Promised(st[q])]
  <2>1. /\ st[r] = "idle" /\ st' = [st EXCEPT ![r] = "sending"] /\ DOMAIN st = Reqs
        /\ UNCHANGED executed
    BY <1>1 DEF Submit, Requester, Answer, TypeOK, RequestTypeOK
  <2>2. Promised("sending") = "pending" /\ Promised("idle") = "idle"
    BY PromisedValues DEF Waiting
  <2>3. status' = [status EXCEPT ![r] = "pending"] /\ status[r] = "idle"
    BY <2>1, <2>2
  <2>4. Service!Submit(r)
    BY <2>1, <2>3 DEF Service!Submit
  <2>5. QED
    BY <2>4 DEF ServiceStep, Service!Next
<1>2. CASE Enqueue(r) \/ Abandon(r) \/ Closed(r) \/ NoReply(r)
  <2>1. PICK a \in {"queued", "abandoned", "closed", "noreply"} : Answer(r, a)
    BY <1>2 DEF Enqueue, Abandon, Closed, NoReply, Requester
  <2>2. st[r] \in {"sending", "queued"} /\ UNCHANGED executed
    BY <1>2 DEF Enqueue, Abandon, Closed, NoReply, Requester
  <2>3. a \in Waiting \cup Outcomes /\ st[r] \in Waiting
    BY <2>2 DEF Waiting, Outcomes, RuledOut
  <2>4. QED
    BY <2>1, <2>2, <2>3, AnswerIsServiceStep
<1>3. QED
  BY <1>1, <1>2 DEF Caller

\* The steps of a device: an execution is one of the service, of a request that
\* is still pending or has timed out.
LEMMA PcbaRefines ==
  ASSUME TypeOK, WriteInv, NEW r \in Reqs, Pcba(r)
  PROVE  ServiceStep
<1>1. UNCHANGED st /\ net[r] \in {"wire", "limbo"}
  BY DEF Pcba, Execute, Reject, Lose, DeviceStep
<1>2. CASE Execute(r)
  <2>1. st[r] \in {"serving", "timeout"} /\ executed[r] = 0
    BY <1>1, OnTheWay
  <2>2. Promised(st[r]) \in {"pending", "unsure"}
    BY <2>1, PromisedValues DEF Waiting
  <2>3. executed' = [executed EXCEPT ![r] = 1]
    BY <1>2, <2>1 DEF Execute
  <2>4. Service!Execute(r)
    BY <1>1, <2>1, <2>2, <2>3 DEF Service!Execute
  <2>5. QED
    BY <2>4 DEF ServiceStep, Service!Next
<1>3. CASE Reject(r) \/ Lose(r)
  BY <1>1, <1>3, Stutters DEF Reject, Lose
<1>4. QED
  BY <1>2, <1>3 DEF Pcba

\* Every step of the acquisition layer is a step of the service or a stutter.
LEMMA StepRefines ==
  TypeOK /\ WriteInv /\ WriteInv' /\ [Next]_vars => ServiceStep
<1> SUFFICES ASSUME TypeOK, WriteInv, WriteInv', [Next]_vars PROVE ServiceStep
  OBVIOUS
<1>1. CASE UNCHANGED vars
  BY <1>1, Stutters DEF vars, reqVars
<1>2. ASSUME NEW d \in Devices, AddRegister(d) PROVE ServiceStep
  BY <1>2, Stutters DEF AddRegister, reqVars
<1>3. CASE Consume \/ Signal \/ Exit
  BY <1>3, Stutters DEF Consume, Signal, Exit, reqVars
<1>4. QED
  BY <1>1, <1>2, <1>3, TaskRefines, CallerRefines, PcbaRefines DEF Next

\* The write path keeps its promise: the acquisition layer implements
\* WriteService.
THEOREM ImplementsWriteService == Spec => KeepsWritePromise
<1>1. Init => Service!Init
  <2> SUFFICES ASSUME Init PROVE Service!Init
    OBVIOUS
  <2>1. [r \in Reqs |-> Promised(st[r])] = [r \in Reqs |-> "idle"]
    BY PromisedValues DEF Init
  <2>2. QED
    BY <2>1 DEF Init, Service!Init
<1>2. TypeOK /\ WriteInv /\ WriteInv' /\ [Next]_vars => [Service!Next]_(Service!svcVars)
  BY StepRefines DEF ServiceStep
<1>3. QED
  BY <1>1, <1>2, TypeCorrect, WriteInvariant, PTL
     DEF Spec, KeepsWritePromise, Service!Spec

-----------------------------------------------------------------------------
(* The order of service.                                                   *)

\* What is true of two requests of a device from the time when one stands ahead
\* of the other in the queue: it has been answered, or the other one waits behind
\* it, or the task has returned and neither will be executed.
Before(r, q) ==
  /\ DevOf[r] = DevOf[q] /\ r # q
  /\ \/ st[r] \in Outcomes
     \/ st[q] = "queued" /\ (AheadOf(r, q) \/ st[r] = "serving")
     \/ pc[DevOf[r]] = "stopped" /\ st[q] \in {"queued", "noreply"}

\* Two requests stand in a queue, one ahead of the other.
LEMMA AheadIsBefore ==
  ASSUME TypeOK, WriteInv, NEW r \in Reqs, NEW q \in Reqs, AheadOf(r, q)
  PROVE  Before(r, q) /\ st[r] = "queued" /\ st[q] = "queued" /\ wq[DevOf[r]] # <<>>
<1> DEFINE d == DevOf[r]
<1>1. d \in Devices /\ wq[d] \in Seq(Reqs)
  BY ReqsAssumption DEF TypeOK, RequestTypeOK
<1>2. PICK i, j \in 1..Len(wq[d]) : i < j /\ wq[d][i] = r /\ wq[d][j] = q
  BY DEF AheadOf
<1>3. st[r] = "queued" /\ st[q] = "queued" /\ r # q
  BY <1>1, <1>2 DEF WriteInv, QueueInv
<1>4. wq[d] # <<>>
  BY <1>1, <1>2
<1>5. DevOf[r] = DevOf[q]
  BY DEF AheadOf
<1> QED
  BY <1>3, <1>4, <1>5 DEF Before

\* Of two such requests the later one is not executed while the earlier one waits.
LEMMA BeforeInOrder ==
  ASSUME TypeOK, WriteInv, NEW r \in Reqs, NEW q \in Reqs, Before(r, q)
  PROVE  executed[q] > 0 => st[r] \notin Waiting
<1>1. CASE st[r] \in Outcomes
  BY <1>1 DEF Outcomes, RuledOut, Waiting
<1>2. CASE st[q] \in {"queued", "noreply"}
  <2>1. net[q] = "none"
    BY <1>2 DEF WriteInv, NetInv, RuledOut
  <2>2. executed[q] = 0
    BY <2>1 DEF WriteInv, ExecutedInv
  <2> QED
    BY <2>2
<1> QED
  BY <1>1, <1>2 DEF Before

\* A step that leaves the queue of the device alone, answers at most one request
\* x of it that is not queued, and lets a returned task be, keeps the order.
LEMMA AnswerKeepsOrder ==
  ASSUME TypeOK, WriteInv, NEW r \in Reqs, NEW q \in Reqs, Before(r, q),
         NEW x \in Reqs, NEW a, Answer(x, a), wq'[DevOf[r]] = wq[DevOf[r]],
         st[x] \in {"idle", "sending", "serving"},
         st[x] = "serving" => a \in Outcomes \cup {"serving"},
         pc[DevOf[r]] = "stopped" => pc'[DevOf[r]] = "stopped"
  PROVE  Before(r, q)'
<1>1. st \in [Reqs -> {"idle"} \cup Waiting \cup Outcomes] /\ st' = [st EXCEPT ![x] = a]
  BY DEF TypeOK, RequestTypeOK, Answer
<1>2. st'[x] = a /\ \A y \in Reqs : y # x => st'[y] = st[y]
  BY <1>1
<1>3. AheadOf(r, q) => AheadOf(r, q)' /\ st[r] = "queued"
  BY AheadIsBefore DEF AheadOf
<1>4. CASE st[r] \in Outcomes
  <2>1. x # r
    BY <1>4 DEF Outcomes, RuledOut
  <2> QED
    BY <1>2, <1>4, <2>1 DEF Before
<1>5. CASE st[q] = "queued" /\ (AheadOf(r, q) \/ st[r] = "serving")
  <2>1. st'[q] = "queued"
    BY <1>2, <1>5
  <2>2. CASE AheadOf(r, q)
    BY <1>3, <2>1, <2>2 DEF Before
  <2>3. CASE st[r] = "serving"
    <3>1. st'[r] \in Outcomes \cup {"serving"}
      BY <1>2, <2>3
    <3> QED
      BY <2>1, <3>1 DEF Before
  <2> QED
    BY <1>5, <2>2, <2>3
<1>6. CASE pc[DevOf[r]] = "stopped" /\ st[q] \in {"queued", "noreply"}
  BY <1>2, <1>6 DEF Before
<1> QED
  BY <1>4, <1>5, <1>6 DEF Before

\* The task takes requests from the front of its queue.
LEMMA TakingKeepsOrder ==
  ASSUME TypeOK, WriteInv, NEW r \in Reqs, NEW q \in Reqs, Before(r, q),
         NEW d \in Devices, TakeWrite(d)
  PROVE  Before(r, q)'
<1> DEFINE x == Head(wq[d])
<1>1. /\ x \in Reqs /\ DevOf[x] = d /\ st[x] = "queued" /\ QueuesWithout(x)
      /\ wq' = [wq EXCEPT ![d] = Tail(@)] /\ pc[d] = "select" /\ wq[d] # <<>>
  BY HeadOfQueue DEF TakeWrite
<1>2. PICK a \in {"refused", "serving", "badreg"} : Answer(x, a)
  BY DEF TakeWrite, Dispatch
<1>3. st \in [Reqs -> {"idle"} \cup Waiting \cup Outcomes] /\ st' = [st EXCEPT ![x] = a]
      /\ wq[d] \in Seq(Reqs) /\ DOMAIN wq = Devices
  BY <1>2 DEF TypeOK, RequestTypeOK, Answer
<1>4. st'[x] = a /\ \A y \in Reqs : y # x => st'[y] = st[y]
  BY <1>1, <1>3
<1>5. CASE st[r] \in Outcomes
  <2>1. x # r
    BY <1>1, <1>5 DEF Outcomes, RuledOut
  <2> QED
    BY <1>4, <1>5, <2>1 DEF Before
<1>6. CASE DevOf[r] # d
  <2>1. x # r /\ x # q
    BY <1>1, <1>6 DEF Before
  <2>2. st'[r] = st[r] /\ st'[q] = st[q] /\ wq'[DevOf[r]] = wq[DevOf[r]]
    BY <1>1, <1>4, <1>6, <2>1
  <2>3. \E p \in {"select", "writing", "reconnecting"} : pc' = [pc EXCEPT ![d] = p]
    BY DEF TakeWrite, Dispatch, Loop, Goto
  <2>4. DOMAIN pc = Devices /\ DevOf[r] \in Devices
    BY ReqsAssumption DEF TypeOK, TaskTypeOK
  <2>5. pc'[DevOf[r]] = pc[DevOf[r]]
    BY <1>6, <2>3, <2>4
  <2> QED
    BY <2>2, <2>5 DEF Before, AheadOf
<1>7. CASE DevOf[r] = d /\ st[r] \notin Outcomes
  <2>1. AheadOf(r, q)
    BY <1>1, <1>7 DEF Before, WriteInv, ServingInv
  <2>2. PICK i, j \in 1..Len(wq[d]) : i < j /\ wq[d][i] = r /\ wq[d][j] = q
    BY <1>7, <2>1 DEF AheadOf
  <2>3. x = wq[d][1] /\ 1 \in 1..Len(wq[d])
    BY <1>1, <1>3
  <2>4. q # x
    <3>1. j # 1
      BY <2>2
    <3> QED
      BY <2>2, <2>3, <3>1 DEF WriteInv, QueueInv
  <2>5. st[q] = "queued" /\ st'[q] = "queued" /\ r # q /\ DevOf[r] = DevOf[q]
    BY <1>4, <2>1, <2>4, AheadIsBefore DEF Before
  <2>6. CASE r = x
    <3>1. st'[r] \in Outcomes \cup {"serving"}
      BY <1>4, <2>6 DEF Outcomes, RuledOut
    <3> QED
      BY <2>5, <3>1 DEF Before
  <2>7. CASE r # x
    <3>1. i # 1
      BY <2>2, <2>3, <2>7
    <3>2. wq'[d] = Tail(wq[d])
      BY <1>1, <1>3
    <3>3. /\ i - 1 \in 1..Len(wq'[d]) /\ j - 1 \in 1..Len(wq'[d]) /\ i - 1 < j - 1
          /\ wq'[d][i - 1] = r /\ wq'[d][j - 1] = q
      BY <1>3, <2>2, <3>1, <3>2
    <3>4. AheadOf(r, q)'
      BY <1>7, <2>5, <3>3 DEF AheadOf
    <3> QED
      BY <2>5, <3>4 DEF Before
  <2> QED
    BY <2>6, <2>7
<1> QED
  BY <1>5, <1>6, <1>7

\* The other steps of a task.
LEMMA TaskKeepsOrder ==
  ASSUME TypeOK, WriteInv, NEW r \in Reqs, NEW q \in Reqs, Before(r, q),
         NEW d \in Devices, Task(d)
  PROVE  Before(r, q)'
<1>1. CASE Poll(d)
  <2>1. /\ UNCHANGED <<wq, st>>
        /\ pc[d] # "stopped" /\ \A e \in Devices \ {d} : pc'[e] = pc[e]
    BY <1>1, PollEffect DEF WriteInv
  <2>2. DevOf[r] \in Devices
    BY ReqsAssumption
  <2> QED
    BY <2>1, <2>2 DEF Before, AheadOf
<1>2. CASE StopTask(d)
  <2>1. /\ UNCHANGED st /\ pc' = [pc EXCEPT ![d] = "stopped"]
        /\ pc[d] \in {"select", "backoff"} /\ wq' = [wq EXCEPT ![d] = <<>>]
    BY <1>2 DEF StopTask, Goto
  <2>2. DOMAIN pc = Devices /\ DOMAIN wq = Devices /\ DevOf[r] \in Devices
    BY ReqsAssumption DEF TypeOK, TaskTypeOK, RequestTypeOK
  <2>3. CASE DevOf[r] = d
    <3>1. pc'[DevOf[r]] = "stopped"
      BY <2>1, <2>2, <2>3
    <3> QED
      BY <2>1, <3>1 DEF Before
  <2>4. CASE DevOf[r] # d
    <3>1. pc'[DevOf[r]] = pc[DevOf[r]] /\ wq'[DevOf[r]] = wq[DevOf[r]]
      BY <2>1, <2>2, <2>4
    <3> QED
      BY <2>1, <3>1 DEF Before, AheadOf
  <2> QED
    BY <2>3, <2>4
<1>3. ASSUME NEW x \in Reqs,
             \/ WriteConnected(d, x) \/ WriteConnectFailed(d, x)
             \/ WriteReplied(d, x) \/ WriteTimeout(d, x)
      PROVE  Before(r, q)'
  <2>1. PICK a \in {"serving", "badreg", "connfail", "ok", "exception", "timeout"} :
          Answer(x, a)
    BY <1>3 DEF WriteConnected, Dispatch, WriteConnectFailed, WriteReplied, WriteTimeout
  <2>2. st[x] = "serving" /\ UNCHANGED wq /\ pc[d] \in {"reconnecting", "writing"}
    BY <1>3 DEF WriteConnected, WriteConnectFailed, WriteReplied, WriteTimeout, Serving
  <2>3. pc[DevOf[r]] = "stopped" => pc'[DevOf[r]] = "stopped"
    BY <1>3, <2>2, ReqsAssumption DEF WriteConnected, Dispatch, WriteConnectFailed,
       WriteReplied, WriteTimeout, Loop, Goto, TypeOK, TaskTypeOK
  <2>4. a \in Outcomes \cup {"serving"}
    BY DEF Outcomes, RuledOut
  <2> QED
    BY <2>1, <2>2, <2>3, <2>4, AnswerKeepsOrder
<1> QED
  BY <1>1, <1>2, <1>3, TakingKeepsOrder DEF Task, ServeWrite

\* The steps of a caller.
LEMMA CallerKeepsOrder ==
  ASSUME TypeOK, WriteInv, NEW r \in Reqs, NEW q \in Reqs, Before(r, q),
         NEW x \in Reqs, Caller(x)
  PROVE  Before(r, q)'
<1>1. pc' = pc
  BY DEF Caller, Submit, Enqueue, Abandon, Closed, NoReply, Requester, taskVars
<1>2. CASE Submit(x) \/ Abandon(x) \/ Closed(x)
  <2>1. PICK a : Answer(x, a) /\ st[x] \in {"idle", "sending"} /\ UNCHANGED wq
    BY <1>2 DEF Submit, Abandon, Closed, Requester
  <2> QED
    BY <1>1, <2>1, AnswerKeepsOrder
<1>3. CASE Enqueue(x)
  <2> DEFINE e == DevOf[x]
  <2>1. /\ st[x] = "sending" /\ Answer(x, "queued") /\ pc[e] # "stopped"
        /\ wq' = [wq EXCEPT ![e] = Append(@, x)]
    BY <1>3 DEF Enqueue, Requester
  <2>2. /\ st \in [Reqs -> {"idle"} \cup Waiting \cup Outcomes] /\ st' = [st EXCEPT ![x] = "queued"]
        /\ wq[e] \in Seq(Reqs) /\ DOMAIN wq = Devices /\ e \in Devices
    BY <2>1, ReqsAssumption DEF TypeOK, RequestTypeOK, Answer
  <2>3. st'[x] = "queued" /\ \A y \in Reqs : y # x => st'[y] = st[y]
    BY <2>2
  <2>4. AheadOf(r, q) => AheadOf(r, q)' /\ st[r] = "queued"
    <3> SUFFICES ASSUME AheadOf(r, q) PROVE AheadOf(r, q)' /\ st[r] = "queued"
      OBVIOUS
    <3>1. CASE DevOf[r] = e
      <4>1. wq'[e] = Append(wq[e], x)
        BY <2>1, <2>2
      <4>2. PICK i, j \in 1..Len(wq[e]) : i < j /\ wq[e][i] = r /\ wq[e][j] = q
        BY <3>1 DEF AheadOf
      <4>3. i \in 1..Len(wq'[e]) /\ j \in 1..Len(wq'[e]) /\ wq'[e][i] = r /\ wq'[e][j] = q
        BY <2>2, <4>1, <4>2
      <4> QED
        BY <3>1, <4>2, <4>3, AheadIsBefore DEF AheadOf
    <3>2. CASE DevOf[r] # e
      <4>1. wq'[DevOf[r]] = wq[DevOf[r]]
        BY <2>1, <2>2, <3>2
      <4> QED
        BY <4>1, AheadIsBefore DEF AheadOf
    <3> QED
      BY <3>1, <3>2
  <2>5. CASE st[r] \in Outcomes
    <3>1. x # r
      BY <2>1, <2>5 DEF Outcomes, RuledOut
    <3> QED
      BY <2>3, <2>5, <3>1 DEF Before
  <2>6. CASE st[q] = "queued" /\ (AheadOf(r, q) \/ st[r] = "serving")
    <3>1. x # r /\ x # q
      BY <2>1, <2>4, <2>6
    <3> QED
      BY <2>3, <2>4, <2>6, <3>1 DEF Before
  <2>7. CASE pc[DevOf[r]] = "stopped" /\ st[q] \in {"queued", "noreply"}
    <3>1. x # q
      BY <2>1, <2>7
    <3> QED
      BY <1>1, <2>3, <2>7, <3>1 DEF Before
  <2> QED
    BY <2>5, <2>6, <2>7 DEF Before
<1>4. CASE NoReply(x)
  <2>1. st[x] = "queued" /\ Answer(x, "noreply") /\ UNCHANGED wq /\ pc[DevOf[x]] = "stopped"
    BY <1>4 DEF NoReply, Requester
  <2>2. st \in [Reqs -> {"idle"} \cup Waiting \cup Outcomes] /\ st' = [st EXCEPT ![x] = "noreply"]
    BY <2>1 DEF TypeOK, RequestTypeOK, Answer
  <2>3. st'[x] = "noreply" /\ \A y \in Reqs : y # x => st'[y] = st[y]
    BY <2>2
  <2>4. CASE x = r
    BY <2>3, <2>4 DEF Before, Outcomes, RuledOut
  <2>5. CASE x = q
    BY <1>1, <2>1, <2>3, <2>5 DEF Before
  <2>6. CASE x # r /\ x # q
    BY <1>1, <2>1, <2>3, <2>6 DEF Before, AheadOf
  <2> QED
    BY <2>4, <2>5, <2>6
<1> QED
  BY <1>2, <1>3, <1>4 DEF Caller

\* Every step keeps the order.
LEMMA OrderKept ==
  ASSUME NEW r \in Reqs, NEW q \in Reqs
  PROVE  TypeOK /\ WriteInv /\ Before(r, q) /\ [Next]_vars => Before(r, q)'
<1> SUFFICES ASSUME TypeOK, WriteInv, Before(r, q), [Next]_vars PROVE Before(r, q)'
  OBVIOUS
<1>1. ASSUME UNCHANGED <<pc, wq, st>> PROVE Before(r, q)'
  BY <1>1 DEF Before, AheadOf
<1>2. ASSUME NEW x \in Reqs, Pcba(x) PROVE Before(r, q)'
  BY <1>1, <1>2 DEF Pcba, Execute, Reject, Lose, DeviceStep
<1>3. ASSUME NEW d \in Devices, AddRegister(d) PROVE Before(r, q)'
  BY <1>1, <1>3 DEF AddRegister, taskVars, reqVars
<1>4. CASE Consume \/ Signal \/ Exit
  BY <1>1, <1>4 DEF Consume, Signal, Exit, taskVars, reqVars
<1>5. CASE UNCHANGED vars
  BY <1>1, <1>5 DEF vars, taskVars, reqVars
<1> QED
  BY <1>2, <1>3, <1>4, <1>5, TaskKeepsOrder, CallerKeepsOrder DEF Next

\* A write is not executed before those that were ahead of it in the queue of the
\* device are answered.
THEOREM QueuesKeepOrder == Spec => ServedInOrder
<1>1. ASSUME NEW r \in Reqs, NEW q \in Reqs
      PROVE  Spec => [](AheadOf(r, q) => [](executed[q] > 0 => st[r] \notin Waiting))
  <2>1. TypeOK /\ WriteInv /\ AheadOf(r, q) => Before(r, q)
    BY AheadIsBefore
  <2>2. TypeOK /\ WriteInv /\ Before(r, q) => (executed[q] > 0 => st[r] \notin Waiting)
    BY BeforeInOrder
  <2>3. TypeOK /\ WriteInv /\ Before(r, q) /\ [Next]_vars => Before(r, q)'
    BY OrderKept
  <2> QED
    BY <2>1, <2>2, <2>3, TypeCorrect, WriteInvariant, PTL DEF Spec
<1> QED
  BY <1>1 DEF ServedInOrder

-----------------------------------------------------------------------------
(* The backoff.                                                            *)

\* The recursion of PowerOfTwo has a solution, so that one more failure doubles it.
LEMMA ShiftDoubles ==
  /\ PowerOfTwo \in [Nat -> Nat]
  /\ \A n \in Nat : PowerOfTwo[n + 1] = 2 * PowerOfTwo[n]
<1> DEFINE step == [p \in Nat \X Nat |-> 2 * p[1]]
           Doubles(g) == g = [n \in Nat |-> IF n = 0 THEN 1 ELSE 2 * g[n - 1]]
<1>1. step \in [Nat \X Nat -> Nat]
  OBVIOUS
<1>2. PICK g \in [Nat -> Nat] : Steps(g, 1, step)
  <2> HIDE DEF step
  <2> QED
    BY <1>1, Iteration
<1>3. g[0] = 1 /\ \A n \in Nat : g[n + 1] = 2 * g[n]
  <2>1. g[0] = 1 /\ \A n \in Nat : g[n + 1] = step[<<g[n], n + 1>>]
    <3> HIDE DEF step
    <3> QED
      BY <1>2 DEF Steps
  <2>2. ASSUME NEW n \in Nat PROVE step[<<g[n], n + 1>>] = 2 * g[n]
    OBVIOUS
  <2> QED
    BY <2>1, <2>2
<1>4. Doubles(g)
  <2>1. ASSUME NEW n \in Nat, n # 0 PROVE g[n] = 2 * g[n - 1]
    <3>1. n - 1 \in Nat /\ n - 1 + 1 = n
      BY <2>1
    <3> QED
      BY <1>3, <3>1
  <2> QED
    BY <1>3, <2>1
<1>5. Doubles(PowerOfTwo)
  <2>1. PowerOfTwo = CHOOSE h : Doubles(h)
    BY DEF PowerOfTwo
  <2> HIDE DEF Doubles
  <2> QED
    BY <1>4, <2>1
<1> HIDE DEF Doubles
<1> DEFINE T == {n \in Nat : PowerOfTwo[n] \in Nat}
<1>6. 0 \in T /\ \A n \in Nat : n \in T => n + 1 \in T
  BY <1>5 DEF Doubles
<1>7. Nat \subseteq T
  <2> HIDE DEF T
  <2> QED
    BY <1>6, InductiveSet
<1> QED
  BY <1>5, <1>7 DEF Doubles

\* One failure more doubles the delay, up to the maximum.
LEMMA DelayDoubles ==
  ASSUME NEW f \in Nat
  PROVE  Delay(f + 1) = Lesser(2 * Delay(f), Greater(ReconnectMax, Greater(ReconnectInitial, 1)))
<1> DEFINE base == Greater(ReconnectInitial, 1)
           most == Greater(ReconnectMax, base)
           d == base * PowerOfTwo[f]
<1>1. base \in Nat /\ most \in Nat
  BY BackoffAssumption DEF Greater
<1>2. d \in Nat /\ base * PowerOfTwo[f + 1] = 2 * d
  <2>1. PowerOfTwo[f] \in Nat /\ PowerOfTwo[f + 1] = 2 * PowerOfTwo[f]
    BY ShiftDoubles
  <2>2. ASSUME NEW a \in Nat, NEW b \in Nat PROVE a * b \in Nat /\ a * (2 * b) = 2 * (a * b)
    OBVIOUS
  <2> HIDE DEF base
  <2> QED
    BY <1>1, <2>1, <2>2
<1>3. Delay(f) = Lesser(d, most) /\ Delay(f + 1) = Lesser(2 * d, most)
  <2> HIDE DEF d
  <2>1. Delay(f) = Lesser(base * PowerOfTwo[f], most)
    BY DEF Delay
  <2>2. Delay(f + 1) = Lesser(base * PowerOfTwo[f + 1], most)
    BY DEF Delay
  <2> QED
    BY <1>2, <2>1, <2>2 DEF d
<1> HIDE DEF base, most, d
<1>4. Lesser(2 * d, most) = Lesser(2 * Lesser(d, most), most)
  BY <1>1, <1>2 DEF Lesser
<1> QED
  BY <1>3, <1>4 DEF base, most

\* While polls fail, the delay is that of the number of failures.
BackoffInv == \A d \in Devices : failures[d] > 0 => backoff[d] = Delay(failures[d])

\* Every step keeps it.
LEMMA BackoffStep == TypeOK /\ BackoffInv /\ [Next]_vars => BackoffInv'
<1> SUFFICES ASSUME TypeOK, BackoffInv, [Next]_vars PROVE BackoffInv'
  OBVIOUS
<1>1. ASSUME UNCHANGED <<failures, backoff>> PROVE BackoffInv'
  BY <1>1 DEF BackoffInv
<1>2. ASSUME NEW d \in Devices, PollFailed(d) PROVE BackoffInv'
  <2> DEFINE f == Lesser(failures[d] + 1, MaxExponent)
  <2>1. f \in Nat
    BY BackoffAssumption DEF TypeOK, TaskTypeOK, Lesser
  <2>2. failures' = [failures EXCEPT ![d] = f] /\ backoff' = [backoff EXCEPT ![d] = Delay(f)]
    BY <1>2 DEF PollFailed
  <2> HIDE DEF f
  <2>3. failures'[d] = f /\ backoff'[d] = Delay(f)
    BY <2>2 DEF TypeOK, TaskTypeOK
  <2>4. \A e \in Devices : e # d => failures'[e] = failures[e] /\ backoff'[e] = backoff[e]
    BY <2>2 DEF TypeOK, TaskTypeOK
  <2> QED
    BY <2>3, <2>4 DEF BackoffInv
<1>3. ASSUME NEW d \in Devices, Connected(d) \/ ReadDone(d) PROVE BackoffInv'
  <2>1. \A e \in Devices : failures'[e] > 0 => failures'[e] = failures[e]
    BY <1>3 DEF Connected, ReadDone, TypeOK, TaskTypeOK
  <2>2. \A e \in Devices : failures'[e] > 0 => backoff'[e] = backoff[e]
    BY <1>3, <2>1 DEF Connected, ReadDone, TypeOK, TaskTypeOK
  <2> QED
    BY <2>1, <2>2 DEF BackoffInv
<1>4. ASSUME NEW d \in Devices, Poll(d) PROVE BackoffInv'
  BY <1>1, <1>2, <1>3, <1>4
     DEF Poll, Tick, ConnectFailed, ReadFailed, ReadRegister, SendBatch, BackoffOver
<1>5. ASSUME NEW d \in Devices, ServeWrite(d) PROVE BackoffInv'
  BY <1>1, <1>5 DEF ServeWrite, TakeWrite, WriteConnected, WriteConnectFailed,
                    WriteReplied, WriteTimeout
<1>6. ASSUME NEW d \in Devices, StopTask(d) \/ AddRegister(d) PROVE BackoffInv'
  BY <1>1, <1>6 DEF StopTask, AddRegister, taskVars
<1>7. ASSUME NEW r \in Reqs, Caller(r) \/ Pcba(r) PROVE BackoffInv'
  BY <1>1, <1>7 DEF Caller, Submit, Enqueue, Abandon, Closed, NoReply, Requester,
                    Pcba, Execute, Reject, Lose, DeviceStep, taskVars
<1>8. CASE Consume \/ Signal \/ Exit \/ UNCHANGED vars
  BY <1>1, <1>8 DEF Consume, Signal, Exit, vars, taskVars
<1> QED
  BY <1>4, <1>5, <1>6, <1>7, <1>8 DEF Next, Task

\* What ConnectBackoffDoubles says of a step of a task.
DoublesAt(d) ==
  /\ pc[d] # "backoff" /\ pc'[d] = "backoff"
  /\ 0 < failures[d] /\ failures[d] < MaxExponent
  => backoff'[d] = Lesser(2 * backoff[d], Greater(ReconnectMax, Greater(ReconnectInitial, 1)))

\* Only a failed poll begins to wait.
LEMMA OnlyFailedWait ==
  ASSUME TypeOK, NEW d \in Devices, [Next]_vars, pc[d] # "backoff", pc'[d] = "backoff"
  PROVE  PollFailed(d)
<1>1. ASSUME NEW e \in Devices, Task(e) PROVE PollFailed(d)
  <2>1. PollFailed(e) \/ \E p \in Places \ {"backoff"} : Goto(e, p) \/ pc' = pc
    <3>1. CASE Poll(e)
      BY <3>1 DEF Poll, Tick, StartReading, Connected, ConnectFailed, ReadFailed, ReadRegister,
                  ReadDone, SendBatch, BackoffOver, Loop, LoopStale, Places
    <3>2. CASE ServeWrite(e)
      BY <3>2 DEF ServeWrite, TakeWrite, WriteConnected, WriteConnectFailed, WriteReplied,
                  WriteTimeout, Dispatch, Loop, Places
    <3>3. CASE StopTask(e)
      BY <3>3 DEF StopTask, Places
    <3> QED
      BY <1>1, <3>1, <3>2, <3>3 DEF Task
  <2>2. PollFailed(e)
    BY <2>1 DEF Goto, TypeOK, TaskTypeOK
  <2>3. e = d
    BY <2>2 DEF PollFailed, Goto, TypeOK, TaskTypeOK
  <2> QED
    BY <2>2, <2>3
<1>2. pc' # pc
  OBVIOUS
<1>3. ASSUME NEW r \in Reqs, Caller(r) \/ Pcba(r) PROVE FALSE
  BY <1>2, <1>3 DEF Caller, Submit, Enqueue, Abandon, Closed, NoReply, Requester,
                    Pcba, Execute, Reject, Lose, DeviceStep, taskVars
<1> QED
  BY <1>1, <1>2, <1>3 DEF Next, Consume, Signal, Exit, AddRegister, vars, taskVars

\* Consecutive failures double the delay until the maximum, or the largest
\* exponent, is reached.
THEOREM DelaysDouble == Spec => ConnectBackoffDoubles
<1>1. Init => BackoffInv
  BY DEF Init, BackoffInv
<1>2. TypeOK /\ BackoffInv /\ [Next]_vars => [\A d \in Devices : DoublesAt(d)]_vars
  <2> SUFFICES ASSUME TypeOK, BackoffInv, [Next]_vars, NEW d \in Devices,
                      pc[d] # "backoff", pc'[d] = "backoff",
                      0 < failures[d], failures[d] < MaxExponent
               PROVE  backoff'[d] = Lesser(2 * backoff[d],
                                      Greater(ReconnectMax, Greater(ReconnectInitial, 1)))
    BY DEF DoublesAt
  <2> DEFINE f == failures[d]
  <2>1. f \in Nat /\ Lesser(f + 1, MaxExponent) = f + 1
    BY BackoffAssumption DEF TypeOK, TaskTypeOK, Lesser
  <2>2. backoff'[d] = Delay(f + 1)
    BY <2>1, OnlyFailedWait DEF PollFailed, TypeOK, TaskTypeOK
  <2>3. backoff[d] = Delay(f)
    BY DEF BackoffInv
  <2> HIDE DEF f
  <2> QED
    BY <2>1, <2>2, <2>3, DelayDoubles
<1>3. [][\A d \in Devices : DoublesAt(d)]_vars <=> ConnectBackoffDoubles
  BY DEF ConnectBackoffDoubles, DoublesAt
<1> QED
  BY <1>1, <1>2, <1>3, BackoffStep, TypeCorrect, PTL DEF Spec
=============================================================================
