---------------------------- MODULE Acquisition ----------------------------
(***************************************************************************)
(* The acquisition layer of the gateway and what it is connected to: one   *)
(* poll task per device (device_loop), the bounded channel that carries    *)
(* the sample batches to the main loop, the write requests the protocol    *)
(* endpoints send through WriteBroker, the main loop with its shutdown,    *)
(* and the devices (PCBAs) at the other end of each connection.            *)
(*                                                                         *)
(* The runtime is single-threaded, so the code between two awaits is one   *)
(* step; pc[d] names the await at which the task of device d is suspended. *)
(* The registers of a device are only ever appended to (add_register), so  *)
(* a snapshot of its configuration is the number of its registers, and     *)
(* register k is the k-th one.                                             *)
(*                                                                         *)
(* Early returns that the program cannot reach are left out: a device is   *)
(* never removed from the configuration, the broker outlives the poll      *)
(* tasks, and the receiver of the sample channel is not dropped before     *)
(* they have all returned.                                                 *)
(*                                                                         *)
(* A definition whose comment speaks of the one below it (RoomOffByOne,    *)
(* DelayLinear, LoopStale, WritesFirst, SourceKept, AnyRegister,           *)
(* AnswerSure, AnswerEarly, AnswerRetry, AnswerLater, ConnectionKept,      *)
(* ExitDrained) is a faulty variant of it.  No action uses one: they are   *)
(* there to show which property notices the fault.                         *)
(***************************************************************************)
EXTENDS Naturals, Sequences

CONSTANTS Devices,          \* the configured devices
          Reqs,             \* the write requests made in a behaviour
          DevOf,            \* the device each request is addressed to
          RegOf,            \* the register it names; 0 if on another device
          InitRegs,         \* registers of each device at start
          MaxRegs,          \* bound on the registers of a device
          ChanCap,          \* capacity of the sample channel
          QueueCap,         \* capacity of a device's write channel
          ReconnectInitial, \* reconnect_initial_ms
          ReconnectMax,     \* reconnect_max_ms
          MaxExponent       \* bound on the exponent of the backoff

ASSUME DevicesAssumption == Devices # {}
ASSUME ReqsAssumption == /\ DevOf \in [Reqs -> Devices]
                         /\ RegOf \in [Reqs -> Nat]
ASSUME RegsAssumption == /\ MaxRegs \in Nat
                         /\ InitRegs \in [Devices -> 1..MaxRegs]
ASSUME CapAssumption == /\ ChanCap \in Nat \ {0}
                        /\ QueueCap \in Nat \ {0}
ASSUME BackoffAssumption == /\ ReconnectInitial \in Nat
                            /\ ReconnectMax \in Nat
                            /\ ReconnectInitial <= ReconnectMax
                            /\ MaxExponent \in Nat \ {0}

VARIABLES
  cfgRegs,   \* registers of each device in the shared configuration
  pc,        \* where each poll task is suspended
  client,    \* no source, a source whose client was dropped, or a live client
  srcRegs,   \* registers in the DeviceConfig clone the source was built with
  loopRegs,  \* registers in the snapshot taken at the top of the loop
  nread,     \* samples read so far in the current poll
  failures,  \* consecutive failures, counted up to MaxExponent
  backoff,   \* last backoff delay since the last successful poll, or 0
  exch,      \* the request outstanding on the live connection, if any
  chan,      \* the sample channel
  stored,    \* registers of each device that have a value in the store
  wq,        \* the write channel of each device
  st,        \* progress and outcome of each write request
  net,       \* where the Modbus request of each write is
  executed,  \* how often the device has executed each write
  phase      \* the main loop: running, stopping (tasks notified) or exited

taskVars == <<pc, client, srcRegs, loopRegs, nread, failures, backoff, exch>>
dataVars == <<chan, stored>>
reqVars  == <<wq, st, net, executed>>
vars == <<cfgRegs, taskVars, dataVars, reqVars, phase>>

Places == {"select", "connecting", "reading", "sending", "backoff",
           "reconnecting", "writing", "stopped"}

Waiting  == {"sending", "queued", "serving"}
\* Outcomes after which the device must never execute the write.
RuledOut == {"refused", "badreg", "connfail", "exception",
             "closed", "noreply", "abandoned"}
Outcomes == RuledOut \cup {"ok", "timeout"}

Lesser(a, b)  == IF a < b THEN a ELSE b
Greater(a, b) == IF a < b THEN b ELSE a

\* A bounded channel accepts another message.
RoomOffByOne(q, cap) == Len(q) <= cap
Room(q, cap) == Len(q) < cap

\* 1 << n
PowerOfTwo[n \in Nat] == IF n = 0 THEN 1 ELSE 2 * PowerOfTwo[n - 1]

\* wait_backoff: base << min(failures, 10), at most the maximum.
DelayLinear(f) == LET base == Greater(ReconnectInitial, 1)
                  IN  Lesser(base * (f + 1), Greater(ReconnectMax, base))
Delay(f) == LET base == Greater(ReconnectInitial, 1)
            IN  Lesser(base * PowerOfTwo[f], Greater(ReconnectMax, base))

-----------------------------------------------------------------------------
(* The poll task of device d.                                              *)

Goto(d, place) == pc' = [pc EXCEPT ![d] = place]

\* Back to the top of the loop: the configuration is read again, and then the
\* task waits in select!.
LoopStale(d) == Goto(d, "select") /\ UNCHANGED loopRegs
Loop(d) == /\ Goto(d, "select")
           /\ loopRegs' = [loopRegs EXCEPT ![d] = cfgRegs[d]]

\* The first request of read_samples goes out on a live connection.
StartReading(d) == /\ Goto(d, "reading")
                   /\ nread' = [nread EXCEPT ![d] = 0]
                   /\ exch' = [exch EXCEPT ![d] = "pending"]

\* select!: the interval fires and a poll starts, also when a write is ready.
WritesFirst(d) ==
  /\ pc[d] = "select"
  /\ \A r \in Reqs : DevOf[r] = d => st[r] \notin {"sending", "queued"}
  /\ IF client[d] = "live"
     THEN StartReading(d)
     ELSE Goto(d, "connecting") /\ UNCHANGED <<nread, exch>>
  /\ UNCHANGED <<cfgRegs, client, srcRegs, loopRegs, failures, backoff,
                 dataVars, reqVars, phase>>
Tick(d) ==
  /\ pc[d] = "select"
  /\ IF client[d] = "live"
     THEN StartReading(d)
     ELSE Goto(d, "connecting") /\ UNCHANGED <<nread, exch>>
  /\ UNCHANGED <<cfgRegs, client, srcRegs, loopRegs, failures, backoff,
                 dataVars, reqVars, phase>>

\* A new source keeps a clone of the device and clears the failures; a source
\* whose client was dropped reconnects with the clone it already has.
Connected(d) ==
  /\ pc[d] = "connecting"
  /\ client' = [client EXCEPT ![d] = "live"]
  /\ IF client[d] = "absent"
     THEN /\ srcRegs' = [srcRegs EXCEPT ![d] = loopRegs[d]]
          /\ failures' = [failures EXCEPT ![d] = 0]
     ELSE UNCHANGED <<srcRegs, failures>>
  /\ StartReading(d)
  /\ UNCHANGED <<cfgRegs, loopRegs, backoff, dataVars, reqVars, phase>>

\* The source and its client go away, and what was outstanding with them.
SourceKept(d) == UNCHANGED <<client, srcRegs, exch>>
DropSource(d) == /\ client' = [client EXCEPT ![d] = "absent"]
                 /\ srcRegs' = [srcRegs EXCEPT ![d] = 0]
                 /\ exch' = [exch EXCEPT ![d] = "none"]

\* A failed poll leaves no source behind and waits before the next one.
PollFailed(d) ==
  LET f == Lesser(failures[d] + 1, MaxExponent)
  IN  /\ Goto(d, "backoff")
      /\ failures' = [failures EXCEPT ![d] = f]
      /\ backoff' = [backoff EXCEPT ![d] = Delay(f)]
      /\ DropSource(d)
      /\ nread' = [nread EXCEPT ![d] = 0]
      /\ UNCHANGED <<cfgRegs, loopRegs, dataVars, reqVars, phase>>

ConnectFailed(d) == pc[d] = "connecting" /\ PollFailed(d)

\* A timeout, an exception, an i/o error or a short reply: the whole batch,
\* with the samples read so far, is lost.
ReadFailed(d) == pc[d] = "reading" /\ PollFailed(d)

\* One register is read and the request for the next one goes out.
ReadRegister(d) ==
  /\ pc[d] = "reading"
  /\ nread[d] + 1 < loopRegs[d]
  /\ nread' = [nread EXCEPT ![d] = @ + 1]
  /\ UNCHANGED <<cfgRegs, pc, client, srcRegs, loopRegs, failures, backoff,
                 exch, dataVars, reqVars, phase>>

\* The register being read is the last one of the snapshot.
AnyRegister(d) == nread[d] + 1 <= loopRegs[d]
LastRegister(d) == nread[d] + 1 = loopRegs[d]

\* The last register is read; the task waits for room in the channel.
ReadDone(d) ==
  /\ pc[d] = "reading"
  /\ LastRegister(d)
  /\ Goto(d, "sending")
  /\ nread' = [nread EXCEPT ![d] = @ + 1]
  /\ failures' = [failures EXCEPT ![d] = 0]
  /\ backoff' = [backoff EXCEPT ![d] = 0]
  /\ exch' = [exch EXCEPT ![d] = "none"]
  /\ UNCHANGED <<cfgRegs, client, srcRegs, loopRegs, dataVars, reqVars, phase>>

\* tx.send(samples).await, which is not raced against the shutdown signal.
SendBatch(d) ==
  /\ pc[d] = "sending"
  /\ Room(chan, ChanCap)
  /\ chan' = Append(chan, [dev |-> d, regs |-> nread[d]])
  /\ Loop(d)
  /\ nread' = [nread EXCEPT ![d] = 0]
  /\ UNCHANGED <<cfgRegs, client, srcRegs, failures, backoff, exch, stored,
                 reqVars, phase>>

\* The next poll comes when the delay is over, however often it has failed.
BackoffOver(d) ==
  /\ pc[d] = "backoff"
  /\ Loop(d)
  /\ UNCHANGED <<cfgRegs, client, srcRegs, nread, failures, backoff, exch,
                 dataVars, reqVars, phase>>

\* The shutdown branch of select!, in the loop and in wait_backoff: the task
\* returns and drops its source and the write channel with what is queued.
StopTask(d) ==
  /\ pc[d] \in {"select", "backoff"}
  /\ phase = "stopping"
  /\ Goto(d, "stopped")
  /\ client' = [client EXCEPT ![d] = "absent"]
  /\ srcRegs' = [srcRegs EXCEPT ![d] = 0]
  /\ wq' = [wq EXCEPT ![d] = <<>>]
  /\ UNCHANGED <<cfgRegs, loopRegs, nread, failures, backoff, exch, dataVars,
                 st, net, executed, phase>>

-----------------------------------------------------------------------------
(* Writes, served by the poll task of their device between two polls.      *)

\* The progress of a request; an outcome is its answer to the caller.
AnswerSure(r, a) == st' = [st EXCEPT ![r] = IF a = "timeout" THEN "connfail" ELSE a]
AnswerEarly(r, a) == st' = [st EXCEPT ![r] = IF a = "exception" THEN "ok" ELSE a]
AnswerRetry(r, a) == st' = [st EXCEPT ![r] = IF a = "timeout" THEN "sending" ELSE a]
AnswerLater(r, a) == st' = [st EXCEPT ![r] = IF a = "refused" THEN "queued" ELSE a]
Answer(r, a) == st' = [st EXCEPT ![r] = a]

SetClient(d, c) == client' = [client EXCEPT ![d] = c]

\* The register is looked up in the clone the source was built with.
KnownToSource(d, r) == RegOf[r] \in 1..srcRegs[d]

\* A write on a live client: any error, a failed lookup included, drops the
\* client; otherwise the Modbus request goes out.
Dispatch(d, r) ==
  IF KnownToSource(d, r)
  THEN /\ Goto(d, "writing")
       /\ SetClient(d, "live")
       /\ exch' = [exch EXCEPT ![d] = "pending"]
       /\ net' = [net EXCEPT ![r] = "wire"]
       /\ Answer(r, "serving")
       /\ UNCHANGED loopRegs
  ELSE /\ Answer(r, "badreg")
       /\ SetClient(d, "dropped")
       /\ Loop(d)
       /\ UNCHANGED <<exch, net>>

\* select!: a write request is received.  Without a source it is refused at
\* once; a source without a client reconnects first.
TakeWrite(d) ==
  /\ pc[d] = "select"
  /\ wq[d] # <<>>
  /\ wq' = [wq EXCEPT ![d] = Tail(@)]
  /\ LET r == Head(wq[d])
     IN  \/ /\ client[d] = "absent"
            /\ Answer(r, "refused")
            /\ Loop(d)
            /\ UNCHANGED <<client, exch, net>>
         \/ /\ client[d] = "dropped"
            /\ Answer(r, "serving")
            /\ Goto(d, "reconnecting")
            /\ UNCHANGED <<client, loopRegs, exch, net>>
         \/ /\ client[d] = "live"
            /\ Dispatch(d, r)
  /\ UNCHANGED <<cfgRegs, srcRegs, nread, failures, backoff, dataVars,
                 executed, phase>>

Serving(d, r) == DevOf[r] = d /\ st[r] = "serving"

WriteConnected(d, r) ==
  /\ pc[d] = "reconnecting"
  /\ Serving(d, r)
  /\ Dispatch(d, r)
  /\ UNCHANGED <<cfgRegs, srcRegs, nread, failures, backoff, dataVars, wq,
                 executed, phase>>

WriteConnectFailed(d, r) ==
  /\ pc[d] = "reconnecting"
  /\ Serving(d, r)
  /\ Answer(r, "connfail")
  /\ Loop(d)
  /\ UNCHANGED <<cfgRegs, client, srcRegs, nread, failures, backoff, exch,
                 dataVars, wq, net, executed, phase>>

\* The reply on the connection is taken for the reply to this request.
WriteReplied(d, r) ==
  /\ pc[d] = "writing"
  /\ Serving(d, r)
  /\ \/ exch[d] = "ok" /\ Answer(r, "ok") /\ UNCHANGED client
     \/ exch[d] = "exception" /\ Answer(r, "exception") /\ SetClient(d, "dropped")
  /\ exch' = [exch EXCEPT ![d] = "none"]
  /\ Loop(d)
  /\ UNCHANGED <<cfgRegs, srcRegs, nread, failures, backoff, dataVars, wq, net,
                 executed, phase>>

\* The client is dropped, and with it whatever the device still replies on that
\* connection.
ConnectionKept(d, r) == UNCHANGED <<client, exch, net>>
DropConnection(d, r) == /\ SetClient(d, "dropped")
                        /\ exch' = [exch EXCEPT ![d] = "none"]
                        /\ net' = [net EXCEPT ![r] = IF @ = "wire" THEN "limbo" ELSE @]

\* A timeout or an i/o error.
WriteTimeout(d, r) ==
  /\ pc[d] = "writing"
  /\ Serving(d, r)
  /\ Answer(r, "timeout")
  /\ DropConnection(d, r)
  /\ Loop(d)
  /\ UNCHANGED <<cfgRegs, srcRegs, nread, failures, backoff, dataVars, wq,
                 executed, phase>>

-----------------------------------------------------------------------------
(* The device: it executes or rejects a write it has received, also after  *)
(* the gateway has given up the connection, or never gets it.              *)

Reply(r, a) == exch' = [exch EXCEPT ![DevOf[r]] = IF net[r] = "wire" THEN a ELSE @]

DeviceStep(r) == /\ net[r] \in {"wire", "limbo"}
                 /\ net' = [net EXCEPT ![r] = "gone"]
                 /\ UNCHANGED <<cfgRegs, pc, client, srcRegs, loopRegs, nread,
                                failures, backoff, dataVars, wq, st, phase>>

Execute(r) == /\ DeviceStep(r)
              /\ executed' = [executed EXCEPT ![r] = @ + 1]
              /\ Reply(r, "ok")

Reject(r) == DeviceStep(r) /\ Reply(r, "exception") /\ UNCHANGED executed

Lose(r) == DeviceStep(r) /\ UNCHANGED <<exch, executed>>

-----------------------------------------------------------------------------
(* A protocol endpoint in WriteBroker::write.                              *)

Requester(r, from, to) ==
  /\ st[r] = from
  /\ phase # "exited"
  /\ Answer(r, to)
  /\ UNCHANGED <<cfgRegs, taskVars, dataVars, net, executed, phase>>

\* The endpoints accept only sensors of the current configuration.
Submit(r) == /\ RegOf[r] <= cfgRegs[DevOf[r]]
             /\ Requester(r, "idle", "sending")
             /\ UNCHANGED wq

Enqueue(r) == LET d == DevOf[r]
              IN  /\ pc[d] # "stopped"
                  /\ Room(wq[d], QueueCap)
                  /\ wq' = [wq EXCEPT ![d] = Append(@, r)]
                  /\ Requester(r, "sending", "queued")

\* The caller goes away while its request waits for room in the queue.
Abandon(r) == Requester(r, "sending", "abandoned") /\ UNCHANGED wq

\* The receiving end of the queue is gone.
Closed(r) == /\ pc[DevOf[r]] = "stopped"
             /\ Requester(r, "sending", "closed")
             /\ UNCHANGED wq

\* The queued request was dropped, and its reply channel with it.
NoReply(r) == /\ pc[DevOf[r]] = "stopped"
              /\ Requester(r, "queued", "noreply")
              /\ UNCHANGED wq

-----------------------------------------------------------------------------
(* The main loop, its shutdown, and the hot update of the configuration.   *)

\* A batch is stored.  The store keeps one entry per sensor and never drops
\* one.
Consume == /\ phase = "running"
           /\ chan # <<>>
           /\ chan' = Tail(chan)
           /\ LET b == Head(chan)
              IN  stored' = [stored EXCEPT ![b.dev] = Greater(@, b.regs)]
           /\ UNCHANGED <<cfgRegs, taskVars, reqVars, phase>>

\* The signal branch of the main loop: from here on nobody takes batches out
\* of the channel, and the tasks are notified.
Signal == /\ phase = "running"
          /\ phase' = "stopping"
          /\ UNCHANGED <<cfgRegs, taskVars, dataVars, reqVars>>

\* All poll tasks have been awaited and run_gateway returns.
ExitDrained == /\ phase = "stopping"
               /\ chan = <<>>
               /\ \A d \in Devices : pc[d] = "stopped"
               /\ phase' = "exited"
               /\ UNCHANGED <<cfgRegs, taskVars, dataVars, reqVars>>
Exit == /\ phase = "stopping"
        /\ \A d \in Devices : pc[d] = "stopped"
        /\ phase' = "exited"
        /\ UNCHANGED <<cfgRegs, taskVars, dataVars, reqVars>>

\* POST /api/registers on a development build.
AddRegister(d) == /\ phase # "exited"
                  /\ cfgRegs[d] < MaxRegs
                  /\ cfgRegs' = [cfgRegs EXCEPT ![d] = @ + 1]
                  /\ UNCHANGED <<taskVars, dataVars, reqVars, phase>>

-----------------------------------------------------------------------------
Init == /\ cfgRegs = InitRegs
        /\ pc = [d \in Devices |-> "select"]
        /\ client = [d \in Devices |-> "absent"]
        /\ srcRegs = [d \in Devices |-> 0]
        /\ loopRegs = InitRegs
        /\ nread = [d \in Devices |-> 0]
        /\ failures = [d \in Devices |-> 0]
        /\ backoff = [d \in Devices |-> 0]
        /\ exch = [d \in Devices |-> "none"]
        /\ chan = <<>>
        /\ stored = [d \in Devices |-> 0]
        /\ wq = [d \in Devices |-> <<>>]
        /\ st = [r \in Reqs |-> "idle"]
        /\ net = [r \in Reqs |-> "none"]
        /\ executed = [r \in Reqs |-> 0]
        /\ phase = "running"

Poll(d) == \/ Tick(d) \/ Connected(d) \/ ConnectFailed(d)
           \/ ReadRegister(d) \/ ReadDone(d) \/ ReadFailed(d)
           \/ SendBatch(d) \/ BackoffOver(d)

ServeWrite(d) == \/ TakeWrite(d)
                 \/ \E r \in Reqs : \/ WriteConnected(d, r)
                                    \/ WriteConnectFailed(d, r)
                                    \/ WriteReplied(d, r)
                                    \/ WriteTimeout(d, r)

Task(d) == Poll(d) \/ ServeWrite(d) \/ StopTask(d)

Caller(r) == Submit(r) \/ Enqueue(r) \/ Abandon(r) \/ Closed(r) \/ NoReply(r)

Pcba(r) == Execute(r) \/ Reject(r) \/ Lose(r)

Next == \/ \E d \in Devices : Task(d) \/ AddRegister(d)
        \/ \E r \in Reqs : Caller(r) \/ Pcba(r)
        \/ Consume \/ Signal \/ Exit

Spec == Init /\ [][Next]_vars

\* Every await of a task ends (reads, writes and the backoff are timed, a
\* connect is ended by the operating system); select! picks a random ready
\* branch, so none is passed over for ever; the channels serve their waiting
\* senders in order.  Nothing is assumed of the callers, the configuration,
\* the signal, or the device.
Fairness == /\ \A d \in Devices : /\ WF_vars(Task(d))
                                  /\ SF_vars(Tick(d))
                                  /\ SF_vars(TakeWrite(d))
                                  /\ SF_vars(StopTask(d))
                                  /\ SF_vars(SendBatch(d))
            /\ \A r \in Reqs : /\ SF_vars(Enqueue(r))
                               /\ WF_vars(Closed(r))
                               /\ WF_vars(NoReply(r))
            /\ WF_vars(Consume)
            /\ WF_vars(Exit)

FairSpec == Spec /\ Fairness

\* Another request like one that is over, and of which nothing is left on the
\* network: it takes the name of that one, so that clients can go on for ever.
Renew(r) == /\ st[r] \in Outcomes
            /\ net[r] \in {"none", "gone"}
            /\ phase # "exited"
            /\ Answer(r, "idle")
            /\ net' = [net EXCEPT ![r] = "none"]
            /\ executed' = [executed EXCEPT ![r] = 0]
            /\ UNCHANGED <<cfgRegs, taskVars, dataVars, wq, phase>>

\* The gateway under a load of writes that need not end.
SteadySpec == /\ Init
              /\ [][Next \/ \E r \in Reqs : Renew(r)]_vars
              /\ Fairness

-----------------------------------------------------------------------------
(* Safety.                                                                 *)

BackoffDelays == {0} \cup {Delay(f) : f \in 1..MaxExponent}
Batches == [dev : Devices, regs : 0..MaxRegs]

TaskTypeOK ==
  /\ pc \in [Devices -> Places]
  /\ client \in [Devices -> {"absent", "dropped", "live"}]
  /\ srcRegs \in [Devices -> 0..MaxRegs]
  /\ loopRegs \in [Devices -> 1..MaxRegs]
  /\ nread \in [Devices -> 0..MaxRegs]
  /\ failures \in [Devices -> 0..MaxExponent]
  /\ backoff \in [Devices -> BackoffDelays]
  /\ exch \in [Devices -> {"none", "pending", "ok", "exception"}]

RequestTypeOK ==
  /\ wq \in [Devices -> Seq(Reqs)]
  /\ \A d \in Devices : Len(wq[d]) <= QueueCap
  /\ st \in [Reqs -> {"idle"} \cup Waiting \cup Outcomes]
  /\ net \in [Reqs -> {"none", "wire", "limbo", "gone"}]
  /\ executed \in [Reqs -> Nat]

MainTypeOK ==
  /\ cfgRegs \in [Devices -> 1..MaxRegs]
  /\ chan \in Seq(Batches)
  /\ Len(chan) <= ChanCap
  /\ stored \in [Devices -> 0..MaxRegs]
  /\ phase \in {"running", "stopping", "exited"}

\* The types of the state; the channels never hold more than their capacity.
TypeOK == TaskTypeOK /\ RequestTypeOK /\ MainTypeOK

\* A write reported as done has been executed by the device (a reply is never
\* taken for the reply to another request: manager.rs:120, tcp.rs:85).
OkMeansExecuted == \A r \in Reqs : st[r] = "ok" => executed[r] = 1

\* No write is executed twice, whatever fails on the way: nothing on the path
\* from WriteBroker::write to the device repeats a request.
AtMostOnce == \A r \in Reqs : executed[r] <= 1

\* A write whose caller was told that it was refused, could not be sent or was
\* dropped is not executed, then or later; only a timeout leaves that open.
RefusedNeverExecuted ==
  \A r \in Reqs : st[r] \in RuledOut => /\ executed[r] = 0
                                         /\ net[r] \in {"none", "gone"}

\* A connection on which a request is unanswered is not used for the next one:
\* outside of an exchange nothing is outstanding on the client a task holds.
CleanConnection ==
  \A d \in Devices : pc[d] \notin {"reading", "writing"} => exch[d] = "none"

\* While polls fail there is no source, so every write is refused at once
\* (manager.rs:153-162, 184-189, 201).
FailingMeansDisconnected ==
  \A d \in Devices : failures[d] > 0 => client[d] = "absent"

\* A batch holds all registers of one configuration, never the part that was
\* read before an error, and a later batch of a device has all the registers
\* of an earlier one: a sensor that has been published keeps being refreshed.
BatchesGrow ==
  \A j \in 1..Len(chan) :
    LET d == chan[j].dev
    IN  /\ InitRegs[d] <= chan[j].regs /\ chan[j].regs <= loopRegs[d]
        /\ stored[d] <= chan[j].regs
        /\ \A i \in 1..j : chan[i].dev = d => chan[i].regs <= chan[j].regs

\* Consecutive connect failures double the delay until the maximum, or the
\* largest exponent, is reached (manager.rs:219-222).
ConnectBackoffDoubles ==
  [][\A d \in Devices :
       /\ pc[d] # "backoff" /\ pc'[d] = "backoff"
       /\ 0 < failures[d] /\ failures[d] < MaxExponent
       => backoff'[d] = Lesser(2 * backoff[d],
                               Greater(ReconnectMax, Greater(ReconnectInitial, 1)))]_vars

\* Requests of a device are served in the order in which they were queued:
\* a write is not executed before those ahead of it are answered.
AheadOf(r, q) == /\ DevOf[r] = DevOf[q]
                 /\ \E i, j \in 1..Len(wq[DevOf[r]]) :
                      i < j /\ wq[DevOf[r]][i] = r /\ wq[DevOf[r]][j] = q
ServedInOrder ==
  \A r, q \in Reqs : [](AheadOf(r, q) => [](executed[q] > 0 => st[r] \notin Waiting))

-----------------------------------------------------------------------------
(* The write path keeps the promise of WriteService.                       *)

Promised(s) == CASE s = "idle"      -> "idle"
                 [] s \in Waiting   -> "pending"
                 [] s = "ok"        -> "ok"
                 [] s = "timeout"   -> "unsure"
                 [] s \in RuledOut  -> "failed"

Service == INSTANCE WriteService
             WITH status <- [r \in Reqs |-> Promised(st[r])]

KeepsWritePromise == Service!Spec

-----------------------------------------------------------------------------
(* Liveness.                                                               *)

\* The task waits for room in a channel that nobody empties any more.
Jammed(d) == phase = "stopping" /\ pc[d] = "sending" /\ Len(chan) = ChanCap

\* Every write request is answered, or the process ends; the one exception is
\* a task that shutdown found blocked on the sample channel.
WritesAnswered ==
  \A r \in Reqs : st[r] \in Waiting
                    ~> \/ st[r] \in Outcomes
                       \/ phase = "exited"
                       \/ Jammed(DevOf[r])

\* Every device is polled again and again until the gateway is told to stop,
\* whatever its own failures and the consumer of the channel do, and however many
\* writes are queued for it: a tick that is due is not passed over for ever while writes
\* are ready as well (select! in device_loop has no order of its branches).
PollsForever ==
  \A d \in Devices : <>(phase # "running") \/ []<><<Tick(d)>>_vars

\* A register added at run time gets a value in the store, unless a poll of its
\* device fails or the gateway stops first.
AddedRegisterStored ==
  \A d \in Devices : \A n \in 1..MaxRegs :
    cfgRegs[d] >= n ~> stored[d] >= n \/ pc[d] = "backoff" \/ phase # "running"

\* After the signal every task returns, or is blocked on the sample channel.
StopsUnlessJammed ==
  phase = "stopping" ~> (phase = "exited" \/ \E d \in Devices : Jammed(d))

-----------------------------------------------------------------------------
(* Statements of the documentation that the code does not keep.            *)

\* OPERATIONS.md:32-33: after the signal all tasks are awaited and the process
\* exits.
ShutdownCompletes == phase = "stopping" ~> phase = "exited"

\* REDFISH.md:290: a read-write register added at run time can be patched, so
\* a write to a register that is being polled is not rejected as unknown.
AddedRegisterWritable ==
  [][\A r \in Reqs : st[r] # "badreg" /\ st'[r] = "badreg"
                      => RegOf[r] \notin 1..stored[DevOf[r]]]_vars
=============================================================================
