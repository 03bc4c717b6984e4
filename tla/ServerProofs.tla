--------------------------- MODULE ServerProofs ---------------------------
(***************************************************************************)
(* The gateway with its Modbus server behaves, as far as the configuration *)
(* goes, like HotConfig: the theorems of HotConfigProofs hold of it.       *)
(* Between its lookup and its execution a write stays at the place of its  *)
(* sensor, because registers are only appended while the process runs; so  *)
(* it changes its own register and no other.                               *)
(*                                                                         *)
(* What holds of the server holds with the PATCH requests of the Redfish   *)
(* service too, every sensor can be reached along the links, and a sensor  *)
(* that was patched is still listed when the device answers and shows,     *)
(* after the next poll, the reading that was asked for.                    *)
(***************************************************************************)
EXTENDS Redfish, HotConfigProofs, ComputedProofs

\* Writes of masters leave configuration and file alone, every other step is
\* one of HotConfig.
LEMMA ServerConfigStep == [Next]_vars => [ConfigNext]_configVars
<1> SUFFICES ASSUME [Next]_vars
             PROVE  [ConfigNext]_configVars
  OBVIOUS
<1>1. CASE \E q \in Additions : HotAdd(q) /\ UNCHANGED <<request, image>>
  BY <1>1 DEF ConfigNext
<1>2. CASE StopServer
  BY <1>2 DEF StopServer, ConfigNext
<1>3. CASE Load
  BY <1>3 DEF ConfigNext
<1>4. ASSUME NEW w \in Writes, Master(w)
      PROVE  UNCHANGED configVars
  BY <1>4 DEF Master, Submit
<1>5. ASSUME NEW w \in Writes, Forward(w) \/ Acknowledge(w) \/ Failed(w)
      PROVE  UNCHANGED configVars
  BY <1>5 DEF Forward, Acknowledge, Failed
<1>6. ASSUME NEW w \in Writes, Execute(w)
      PROVE  UNCHANGED configVars
  BY <1>6 DEF Execute
<1>7. CASE UNCHANGED vars
  BY <1>7 DEF vars, configVars
<1> QED
  BY <1>1, <1>2, <1>3, <1>4, <1>5, <1>6, <1>7 DEF Next

\* The configuration of the gateway is that of HotConfig.
THEOREM ServerRunsConfig == Spec => ConfigSpec
<1>1. Init => ConfigInit
  BY DEF Init
<1> QED
  BY <1>1, ServerConfigStep, PTL DEF Spec, ConfigSpec

\* While masters write, registers never share a word of their device and a file
\* that was written whole can be loaded.
THEOREM ServerConfigValid == Spec => [](WordsDisjoint /\ FileLoads)
  BY ServerRunsConfig, RegistersApart, WholeFilesLoad, PTL

-----------------------------------------------------------------------------
(* Where writes go *)

Stages == {"idle", "refused", "pending", "sent", "acknowledged", "failed",
           "lost", "dropped"}

Cells == DeviceSet \X Areas \X (0..AddrMax)

\* A write that was accepted is a record with these fields, and perhaps others.
Fields == {"st", "by", "fc", "addr", "words", "device", "sensor", "target",
           "executed"}

IsWrite(r, V) ==
  /\ r = [f \in DOMAIN r |-> r[f]] /\ Fields \subseteq DOMAIN r
  /\ r.words[1] \in V

\* The cell it was sent to is that of its sensor, which is writable.
InPlace(r) ==
  /\ r.device \in DeviceSet
  /\ \E i \in DOMAIN config.regs[r.device] :
       LET g == config.regs[r.device][i] IN
       /\ g.sensor = r.sensor
       /\ g.access = "read_write"
       /\ r.target = <<r.device, g.area, g.addr>>

RequestInv(r, V) ==
  /\ r.st \in Stages
  /\ r.st \in {"pending", "sent", "acknowledged", "failed", "lost"} => IsWrite(r, V)
  /\ r.st \in {"sent", "acknowledged", "failed", "lost"} => r.target \in Cells
  /\ r.st \in {"sent", "acknowledged", "failed"} => InPlace(r)
  /\ r.st \in {"pending", "sent", "acknowledged", "failed"} => up

ServerInv(V) ==
  /\ request = [w \in Writes |-> request[w]]
  /\ image \in [Cells -> V]
  /\ \A w \in Writes : RequestInv(request[w], V)

\* What sending and executing a write leave of its record.
LEMMA SentFields ==
  ASSUME NEW V, NEW r, IsWrite(r, V), NEW t,
         NEW n, n = [r EXCEPT !.target = t]
  PROVE  /\ n.st = r.st /\ n.target = t /\ n.device = r.device
         /\ n.sensor = r.sensor /\ IsWrite(n, V)
  BY DEF IsWrite, Fields

\* What an execution changes of a request.
LEMMA ExecutedFields ==
  ASSUME NEW V, NEW r, IsWrite(r, V), NEW n, n = [r EXCEPT !.executed = TRUE]
  PROVE  /\ n.st = r.st /\ n.target = r.target /\ n.device = r.device
         /\ n.sensor = r.sensor /\ IsWrite(n, V)
  BY DEF IsWrite, Fields

\* A write stays in place while registers are added.
LEMMA AddingKeepsPlaces ==
  ASSUME ConfigInv, NEW q \in Additions, HotAdd(q), NEW r, InPlace(r)
  PROVE  InPlace(r)'
<1>1. PICK i \in DOMAIN config.regs[r.device] :
        /\ config.regs[r.device][i].sensor = r.sensor
        /\ config.regs[r.device][i].access = "read_write"
        /\ r.target = <<r.device, config.regs[r.device][i].area,
                        config.regs[r.device][i].addr>>
  BY DEF InPlace
<1>2. r.device \in DeviceSet
  BY DEF InPlace
<1>3. config.regs \in [DeviceSet -> Seq(Register)]
  BY DEF ConfigInv, Config
<1>4. /\ i \in DOMAIN config'.regs[r.device]
      /\ config'.regs[r.device][i] = config.regs[r.device][i]
  <2>1. q.device \in DeviceSet /\ q.register \in Register
    BY AdditionsAssumption DEF HotAdd, Accepted, Addable
  <2>2. config'.regs = [config.regs EXCEPT ![q.device] = Append(@, q.register)]
    BY DEF HotAdd, WithRegister, ConfigInv, Config
  <2>3. CASE r.device = q.device
    <3>1. config'.regs[r.device] = Append(config.regs[r.device], q.register)
      BY <1>2, <1>3, <2>2, <2>3
    <3>2. config.regs[r.device] \in Seq(Register)
      BY <1>2, <1>3
    <3> QED
      BY <2>1, <3>1, <3>2
  <2>4. CASE r.device # q.device
    BY <1>2, <1>3, <2>2, <2>4
  <2> QED
    BY <2>3, <2>4
<1> QED
  BY <1>1, <1>2, <1>4 DEF InPlace

\* A step that changes one request, and neither configuration nor image, keeps
\* the invariant if the new request has it.
LEMMA OneRequest ==
  ASSUME NEW V, ServerInv(V), NEW w \in Writes, NEW r, RequestInv(r, V),
         request' = [request EXCEPT ![w] = r],
         UNCHANGED configVars, image' \in [Cells -> V]
  PROVE  ServerInv(V)'
<1>1. DOMAIN request = Writes
  BY DEF ServerInv
<1>2. request' = [x \in Writes |-> request'[x]]
  BY <1>1
<1>3. ASSUME NEW x \in Writes
      PROVE  RequestInv(request[x], V)'
  <2>1. RequestInv(request'[x], V)
    BY <1>1, <1>3 DEF ServerInv
  <2> QED
    BY <2>1 DEF RequestInv, InPlace, configVars
<1> QED
  BY <1>2, <1>3 DEF ServerInv

\* Values that can be written, and zero, are all that is in the devices.
LEMMA ServerInvInit ==
  ASSUME NEW V, 0 \in V, Init
  PROVE  ServerInv(V)
<1>1. \A w \in Writes : request[w] = [st |-> "idle"]
  BY DEF Init, Idle
<1>2. \A w \in Writes : RequestInv(request[w], V)
  BY <1>1 DEF RequestInv, Stages
<1> QED
  BY <1>2 DEF Init, ServerInv, Cells

\* Every step keeps the invariant.
LEMMA ServerInvStep ==
  ASSUME NEW V, Words \subseteq V, ServerInv(V), ConfigInv, [Next]_vars
  PROVE  ServerInv(V)'
<1>1. ASSUME NEW q \in Additions, HotAdd(q), UNCHANGED <<request, image>>
      PROVE  ServerInv(V)'
  <2>1. up' = up
    BY <1>1 DEF HotAdd
  <2>2. ASSUME NEW w \in Writes
        PROVE  RequestInv(request[w], V)'
    <3>1. RequestInv(request[w], V) /\ request'[w] = request[w]
      BY <1>1 DEF ServerInv
    <3>2. InPlace(request[w]) => InPlace(request[w])'
      BY <1>1, <3>1, AddingKeepsPlaces DEF InPlace
    <3> QED
      BY <1>1, <2>1, <3>1, <3>2 DEF RequestInv
  <2> QED
    BY <1>1, <2>2 DEF ServerInv
<1>2. CASE StopServer
  <2>1. request' = [w \in Writes |-> request'[w]]
    BY <1>2 DEF StopServer
  <2>2. ASSUME NEW w \in Writes
        PROVE  RequestInv(request[w], V)'
    <3>1. RequestInv(request[w], V)
      BY DEF ServerInv
    <3>2. CASE request[w].st \in {"pending", "acknowledged"}
      <4>1. request'[w] = [st |-> "dropped"]
        BY <1>2, <3>2 DEF StopServer
      <4> QED
        BY <4>1 DEF RequestInv, Stages
    <3>3. CASE request[w].st \in {"sent", "failed"}
      <4>1. request'[w] = [request[w] EXCEPT !.st = "lost"]
        BY <1>2, <3>3 DEF StopServer
      <4>2. IsWrite(request[w], V) /\ request[w].target \in Cells
        BY <3>1, <3>3 DEF RequestInv
      <4>3. /\ request'[w].st = "lost"
            /\ request'[w].target = request[w].target
            /\ IsWrite(request'[w], V)
        BY <4>1, <4>2 DEF IsWrite
      <4> QED
        BY <4>2, <4>3 DEF RequestInv, Stages
    <3>4. CASE request[w].st \notin {"pending", "sent", "acknowledged", "failed"}
      <4>1. request'[w] = request[w]
        BY <1>2, <3>4 DEF StopServer
      <4> QED
        BY <3>1, <3>4, <4>1 DEF RequestInv
    <3> QED
      BY <3>2, <3>3, <3>4
  <2> QED
    BY <1>2, <2>1, <2>2 DEF ServerInv, StopServer
<1>3. CASE Load /\ UNCHANGED <<request, image>>
  <2>1. ~ up
    BY <1>3 DEF Load
  <2>2. ASSUME NEW w \in Writes
        PROVE  RequestInv(request[w], V)'
    BY <1>3, <2>1 DEF ServerInv, RequestInv
  <2> QED
    BY <1>3, <2>2 DEF ServerInv
<1>4. ASSUME NEW w \in Writes, Master(w)
      PROVE  ServerInv(V)'
  <2>1. PICK fc, addr, words : words[1] \in Words /\ Submit(w, fc, addr, words)
    BY <1>4 DEF Master
  <2>2. UNCHANGED configVars /\ image' \in [Cells -> V] /\ up
    BY <2>1 DEF Submit, ServerInv
  <2>3. PICK r : RequestInv(r, V) /\ request' = [request EXCEPT ![w] = r]
    <3>1. CASE Exception(fc, addr) # ""
      <4>1. request' = [request EXCEPT ![w] =
                          [st |-> "refused", code |-> Exception(fc, addr)]]
        BY <2>1, <3>1 DEF Submit
      <4>2. RequestInv([st |-> "refused", code |-> Exception(fc, addr)], V)
        BY DEF RequestInv, Stages
      <4> QED
        BY <4>1, <4>2
    <3>2. CASE Exception(fc, addr) = ""
      <4> DEFINE slot == Table(config, AreaOf(fc))[addr + 1]
                 r == Pending(fc, addr, words, slot.device, slot.sensor)
      <4>1. request' = [request EXCEPT ![w] = r]
        BY <2>1, <3>2 DEF Submit
      <4>2. r.st = "pending" /\ IsWrite(r, V)
        BY <2>1 DEF Pending, IsWrite, Fields
      <4>3. RequestInv(r, V)
        BY <2>2, <4>2 DEF RequestInv, Stages
      <4> QED
        BY <4>1, <4>3
    <3> QED
      BY <3>1, <3>2
  <2> QED
    BY <2>2, <2>3, OneRequest
<1>5. ASSUME NEW w \in Writes, Forward(w)
      PROVE  ServerInv(V)'
  <2> DEFINE r == request[w]
  <2>1. IsWrite(r, V) /\ up /\ r.device \in DeviceSet
    BY <1>5 DEF Forward, ServerInv, RequestInv
  <2>0. PICK reg \in ToSet(config.regs[r.device]) :
          /\ reg.sensor = r.sensor
          /\ reg.access = "read_write"
          /\ request' = [request EXCEPT ![w].st = "sent",
                                        ![w].target = Target(w, reg)]
    BY <1>5 DEF Forward
  <2>2. PICK i \in DOMAIN config.regs[r.device] :
          LET g == config.regs[r.device][i] IN
          /\ g.sensor = r.sensor
          /\ g.access = "read_write"
          /\ request' = [request EXCEPT ![w].st = "sent",
                                        ![w].target = <<r.device, g.area, g.addr>>]
    BY <2>0 DEF ToSet, Target
  <2> DEFINE g == config.regs[r.device][i]
             n == [r EXCEPT !.st = "sent", !.target = <<r.device, g.area, g.addr>>]
  <2>3. g \in Register
    <3>1. config.regs[r.device] \in Seq(Register)
      BY <2>1 DEF ConfigInv, Config
    <3> QED
      BY <2>2, <3>1
  <2>4. <<r.device, g.area, g.addr>> \in Cells
    BY <2>1, <2>3 DEF Cells, Register
  <2>5. request' = [request EXCEPT ![w] = n]
    BY <2>2 DEF ServerInv
  <2>6. /\ n.st = "sent" /\ n.target = <<r.device, g.area, g.addr>>
        /\ n.device = r.device /\ n.sensor = r.sensor
        /\ IsWrite(n, V)
    <3>1. PICK m : m = [r EXCEPT !.st = "sent"]
      OBVIOUS
    <3>2. /\ m.st = "sent" /\ m.device = r.device /\ m.sensor = r.sensor
          /\ IsWrite(m, V)
      BY <2>1, <3>1 DEF IsWrite
    <3>3. PICK t : t = <<r.device, g.area, g.addr>>
      OBVIOUS
    <3>4. n = [m EXCEPT !.target = t]
      BY <3>1, <3>3
    <3>5. PICK o : o = [m EXCEPT !.target = t]
      OBVIOUS
    <3>6. /\ o.st = m.st /\ o.target = t /\ o.device = m.device
          /\ o.sensor = m.sensor /\ IsWrite(o, V)
      BY <3>2, <3>5, SentFields
    <3>7. n = o
      BY <3>4, <3>5
    <3> QED
      BY <3>2, <3>3, <3>6, <3>7
  <2>7. InPlace(n)
    BY <2>1, <2>2, <2>6 DEF InPlace
  <2>8. RequestInv(n, V)
    BY <2>1, <2>4, <2>6, <2>7 DEF RequestInv, Stages
  <2>9. UNCHANGED configVars /\ image' \in [Cells -> V]
    BY <1>5 DEF Forward, ServerInv
  <2> QED
    BY <2>5, <2>8, <2>9, OneRequest
<1>6. ASSUME NEW w \in Writes, Execute(w)
      PROVE  ServerInv(V)'
  <2> DEFINE r == request[w]
             n == [r EXCEPT !.executed = TRUE]
  <2>1. /\ RequestInv(r, V) /\ IsWrite(r, V) /\ r.target \in Cells
    BY <1>6 DEF Execute, ServerInv, RequestInv
  <2>2. request' = [request EXCEPT ![w] = n]
    BY <1>6 DEF Execute
  <2>3. /\ n.st = r.st /\ n.target = r.target /\ n.device = r.device
        /\ n.sensor = r.sensor /\ IsWrite(n, V)
    BY <2>1, ExecutedFields
  <2>4. RequestInv(n, V)
    BY <2>1, <2>3 DEF RequestInv, InPlace
  <2>5. image' \in [Cells -> V]
    BY <1>6, <2>1 DEF Execute, ServerInv, IsWrite
  <2> QED
    BY <1>6, <2>2, <2>4, <2>5, OneRequest DEF Execute
<1>7. ASSUME NEW w \in Writes, Acknowledge(w)
      PROVE  ServerInv(V)'
  <2> DEFINE n == [request[w] EXCEPT !.st = "acknowledged"]
  <2>1. request' = [request EXCEPT ![w] = n]
    BY <1>7 DEF Acknowledge
  <2>2. RequestInv(request[w], V) /\ IsWrite(request[w], V) /\ request[w].st = "sent"
    BY <1>7 DEF Acknowledge, ServerInv, RequestInv
  <2>3. RequestInv(n, V)
    <3>1. /\ n.st = "acknowledged" /\ n.target = request[w].target
          /\ n.device = request[w].device
          /\ n.sensor = request[w].sensor /\ IsWrite(n, V)
      BY <2>2 DEF IsWrite
    <3> QED
      BY <2>2, <3>1 DEF RequestInv, InPlace, Stages
  <2> QED
    BY <1>7, <2>1, <2>3, OneRequest DEF Acknowledge, ServerInv
<1>8. ASSUME NEW w \in Writes, Failed(w)
      PROVE  ServerInv(V)'
  <2>1. UNCHANGED configVars /\ image' \in [Cells -> V]
    BY <1>8 DEF Failed, ServerInv
  <2>2. CASE request[w].st = "pending"
    <3> DEFINE n == [st |-> "refused", code |-> "ServerDeviceFailure"]
    <3>1. request' = [request EXCEPT ![w] = n]
      BY <1>8, <2>2 DEF Failed
    <3>2. RequestInv(n, V)
      BY DEF RequestInv, Stages
    <3> QED
      BY <2>1, <3>1, <3>2, OneRequest
  <2>3. CASE request[w].st = "sent"
    <3> DEFINE r == request[w]
               n == [r EXCEPT !.st = "failed"]
    <3>1. request' = [request EXCEPT ![w] = n]
      BY <1>8, <2>3 DEF Failed
    <3>2. RequestInv(r, V) /\ IsWrite(r, V)
      BY <2>3 DEF ServerInv, RequestInv
    <3>3. /\ n.st = "failed" /\ n.target = r.target /\ n.device = r.device
          /\ n.sensor = r.sensor /\ IsWrite(n, V)
      BY <3>2 DEF IsWrite
    <3>4. RequestInv(n, V)
      BY <2>3, <3>2, <3>3 DEF RequestInv, InPlace, Stages
    <3> QED
      BY <2>1, <3>1, <3>4, OneRequest
  <2> QED
    BY <1>8, <2>2, <2>3 DEF Failed
<1>9. CASE UNCHANGED vars
  BY <1>9 DEF vars, ServerInv, RequestInv, InPlace
<1> QED
  BY <1>1, <1>2, <1>3, <1>4, <1>5, <1>6, <1>7, <1>8, <1>9 DEF Next

\* The invariant holds of every configuration and every order of requests,
\* additions, executions and restarts.
THEOREM ServerInvariant == Spec => []ServerInv(Words \cup {0})
<1>1. Init => ServerInv(Words \cup {0})
  BY ServerInvInit
<1>2. ServerInv(Words \cup {0}) /\ ConfigInv /\ [Next]_vars
        => ServerInv(Words \cup {0})'
  <2> DEFINE V == Words \cup {0}
  <2>1. Words \subseteq V
    OBVIOUS
  <2> HIDE DEF V
  <2>2. ServerInv(V) /\ ConfigInv /\ [Next]_vars => ServerInv(V)'
    BY <2>1, ServerInvStep
  <2> QED
    BY <2>2 DEF V
<1> QED
  BY <1>1, <1>2, ServerRunsConfig, ConfigInvariant, PTL DEF Spec

\* The state has its types and no device has more registers than validate
\* allows, while masters write and operators add registers.
THEOREM ServerTypes == Spec => []TypeOK
<1>1. ServerInv(Words \cup {0}) /\ ConfigInv => TypeOK
  <2> SUFFICES ASSUME ServerInv(Words \cup {0}), ConfigInv PROVE TypeOK
    OBVIOUS
  <2>1. ConfigTypeOK
    BY DEF ConfigInv, ConfigTypeOK, Valid, RegistersValid
  <2>2. \A w \in Writes : request[w].st \in Stages
    BY DEF ServerInv, RequestInv
  <2> QED
    BY <2>1, <2>2 DEF TypeOK, ServerInv, Stages, Cells
<1> QED
  BY <1>1, ServerInvariant, ServerRunsConfig, ConfigInvariant, PTL

\* What WriteHitsItsSensor says of a step.
IsHit(p) == /\ At(config, p).access = "read_write"
            /\ \E w \in Writes : /\ request[w].st \in {"sent", "failed"}
                                 /\ ~ request[w].executed
                                 /\ request[w].device = p[1]
                                 /\ request[w].sensor = At(config, p).sensor

Hits == image' # image /\ ~ FromBefore =>
          \A p \in Places(config) :
            Claim(p[1], At(config, p)) \cap Changed # {} => IsHit(p)

LEMMA StepHits ==
  ASSUME NEW V, ServerInv(V), ConfigInv, WordsDisjoint, [Next]_vars
  PROVE  Hits
<1> SUFFICES ASSUME Next, image' # image, ~ FromBefore,
                    NEW p \in Places(config),
                    Claim(p[1], At(config, p)) \cap Changed # {}
             PROVE  IsHit(p)
  BY DEF vars, Hits
<1>1. PICK w \in Writes : Execute(w)
  BY DEF Next, Master, Submit, Forward, Acknowledge, Failed, StopServer
<1> DEFINE r == request[w]
<1>2. /\ RequestInv(r, V)
      /\ r.st \in {"sent", "failed", "lost"}
      /\ ~ r.executed
      /\ request' = [request EXCEPT ![w].executed = TRUE]
      /\ image' = [image EXCEPT ![r.target] = r.words[1]]
  BY <1>1 DEF Execute, ServerInv
<1>3. r.st \in {"sent", "failed"}
  <2>1. request'[w] # r
    <3>1. r.target \in Cells /\ IsWrite(r, V)
      BY <1>2 DEF RequestInv
    <3>2. PICK n : n = [r EXCEPT !.executed = TRUE]
      OBVIOUS
    <3>3. request'[w] = n
      BY <1>2, <3>2 DEF ServerInv
    <3>4. n.executed = TRUE
      BY <3>1, <3>2 DEF IsWrite
    <3> QED
      BY <1>2, <3>3, <3>4
  <2> QED
    BY <1>2, <2>1 DEF FromBefore
<1>4. PICK i \in DOMAIN config.regs[r.device] :
        /\ config.regs[r.device][i].sensor = r.sensor
        /\ config.regs[r.device][i].access = "read_write"
        /\ r.target = <<r.device, config.regs[r.device][i].area,
                        config.regs[r.device][i].addr>>
        /\ r.device \in DeviceSet
  BY <1>2, <1>3 DEF RequestInv, InPlace
<1> DEFINE g == config.regs[r.device][i]
<1>0. PICK d \in DeviceSet : \E j \in DOMAIN config.regs[d] : p = <<d, j>>
  BY DEF Places
<1>5. PICK j \in DOMAIN config.regs[d] : p = <<d, j>>
  BY <1>0
<1> DEFINE h == config.regs[d][j]
<1>6. At(config, p) = h /\ p[1] = d
  BY <1>5 DEF At
<1>7. g \in Register /\ h \in Register
  <2>1. config.regs[d] \in Seq(Register) /\ config.regs[r.device] \in Seq(Register)
    BY <1>4 DEF ConfigInv, Config
  <2> QED
    BY <1>4, <1>5, <2>1
<1>8. r.target \in Claim(d, h)
  <2>1. PICK c : c \in Claim(d, h) /\ c \in Changed
    BY <1>6
  <2>2. c = r.target
    BY <1>2, <2>1 DEF Changed
  <2> QED
    BY <2>1, <2>2
<1>9. PICK a \in h.addr..(h.addr + h.words - 1) : r.target = <<d, h.area, a>>
  BY <1>8 DEF Claim
<1>10. d = r.device /\ h.area = g.area /\ a = g.addr
  BY <1>4, <1>9
<1>11. i = j
  <2> SUFFICES ASSUME i # j PROVE FALSE
    OBVIOUS
  <2>1. g.addr \in g.addr..(g.addr + g.words - 1)
    BY <1>7, LimitsAssumption DEF Register
  <2>2. <<g.area, g.addr>> \in {<<g.area, b>> : b \in g.addr..(g.addr + g.words - 1)}
    BY <2>1
  <2>3. <<g.area, g.addr>> \in {<<h.area, b>> : b \in h.addr..(h.addr + h.words - 1)}
    BY <1>9, <1>10
  <2>4. i \in DOMAIN config.regs[d] /\ g = config.regs[d][i]
    BY <1>10
  <2>5. {<<g.area, b>> : b \in g.addr..(g.addr + g.words - 1)}
          \cap {<<h.area, b>> : b \in h.addr..(h.addr + h.words - 1)} = {}
    BY <1>5, <2>4 DEF WordsDisjoint
  <2> QED
    BY <2>2, <2>3, <2>5
<1> QED
  BY <1>2, <1>3, <1>4, <1>6, <1>10, <1>11 DEF IsHit

\* A write that was resolved in this life of the gateway changes its own,
\* writable register and no other, whatever was added in the meantime and
\* however late the device executes it.
THEOREM WritesHitTheirSensor == Spec => WriteHitsItsSensor
<1>1. ServerInv(Words \cup {0}) /\ ConfigInv /\ WordsDisjoint /\ [Next]_vars => [Hits]_vars
  <2> DEFINE V == Words \cup {0}
  <2> HIDE DEF V
  <2>1. ServerInv(V) /\ ConfigInv /\ WordsDisjoint /\ [Next]_vars => Hits
    BY StepHits
  <2> QED
    BY <2>1 DEF V
<1>2. [][Hits]_vars => WriteHitsItsSensor
  BY PTL DEF WriteHitsItsSensor, Hits, IsHit
<1> QED
  BY <1>1, <1>2, ServerInvariant, ServerRunsConfig, ConfigInvariant, RegistersApart,
     PTL DEF Spec

-----------------------------------------------------------------------------
(* The address table *)

\* What a slot can name as its device.
Owners == DeviceSet \cup {""}

Slot == [device : Owners, sensor : Sensors, words : {1, 2}, word : {0, 1},
         access : {"read", "read_write"}]

\* The slots of the registers of a device, those of the devices, and those of
\* the computed sensors.
RegisterParts(c, d, area) ==
  [i \in DOMAIN c.regs[d] |->
     IF c.regs[d][i].area = area THEN Slots(d, c.regs[d][i]) ELSE <<>>]

DeviceParts(c, area) == [i \in DOMAIN Devices |-> DeviceSlots(c, Devices[i], area)]

ComputedPart(c, j) ==
  Slots("", [sensor |-> c.computed[j].sensor, words |-> 2, access |-> "read"])

ComputedParts(c) == [j \in DOMAIN c.computed |-> ComputedPart(c, j)]

\* The slots of one sensor.
LEMMA SlotsOfSensor ==
  ASSUME NEW d \in Owners, NEW r, r.sensor \in Sensors,
         r.words \in {1, 2}, r.access \in {"read", "read_write"}
  PROVE  /\ Slots(d, r) \in Seq(Slot)
         /\ Len(Slots(d, r)) = r.words
         /\ \A k \in 1..r.words : /\ Slots(d, r)[k].device = d
                                  /\ Slots(d, r)[k].sensor = r.sensor
                                  /\ Slots(d, r)[k].words = r.words
                                  /\ Slots(d, r)[k].word = k - 1
                                  /\ Slots(d, r)[k].access = r.access
<1> DEFINE slot(k) == [device |-> d, sensor |-> r.sensor, words |-> r.words,
                       word |-> k - 1, access |-> r.access]
           W == r.words
           t == Slots(d, r)
<1>1. W \in Nat /\ \A k \in 1..W : k - 1 \in {0, 1}
  <2>1. W = 1 \/ W = 2
    OBVIOUS
  <2> HIDE DEF W
  <2> QED
    BY <2>1
<1>2. \A k \in 1..W : slot(k) \in Slot
  BY <1>1 DEF Slot
<1>3. t = [k \in 1..W |-> slot(k)]
  BY DEF Slots
<1>4. \A k \in 1..W :
        /\ slot(k).device = d /\ slot(k).sensor = r.sensor /\ slot(k).words = W
        /\ slot(k).word = k - 1 /\ slot(k).access = r.access
  OBVIOUS
<1> HIDE DEF slot, W, t
<1>5. t \in Seq(Slot) /\ Len(t) = W /\ \A k \in 1..W : t[k] = slot(k)
  BY <1>1, <1>2, <1>3
<1> QED
  BY <1>4, <1>5 DEF t, W

\* Registers and computed sensors have the fields that their slots are made of.
LEMMA ConfigFields ==
  ASSUME NEW c \in Config
  PROVE  /\ \A d \in DeviceSet : c.regs[d] \in Seq(Register)
         /\ \A d \in DeviceSet : \A i \in DOMAIN c.regs[d] :
              /\ c.regs[d][i].sensor \in Sensors /\ c.regs[d][i].words \in {1, 2}
              /\ c.regs[d][i].access \in {"read", "read_write"}
         /\ c.computed \in Seq([sensor : Sensors, inputs : Seq(Sensors)])
         /\ \A j \in DOMAIN c.computed : c.computed[j].sensor \in Sensors
<1>1. \A d \in DeviceSet : c.regs[d] \in Seq(Register)
  BY DEF Config
<1>2. ASSUME NEW d \in DeviceSet, NEW i \in DOMAIN c.regs[d]
      PROVE  /\ c.regs[d][i].sensor \in Sensors /\ c.regs[d][i].words \in {1, 2}
             /\ c.regs[d][i].access \in {"read", "read_write"}
  <2>1. c.regs[d][i] \in Register
    BY <1>1
  <2> QED
    BY <2>1 DEF Register
<1>3. c.computed \in Seq([sensor : Sensors, inputs : Seq(Sensors)])
  BY DEF Config
<1>4. ASSUME NEW j \in DOMAIN c.computed PROVE c.computed[j].sensor \in Sensors
  <2> DEFINE R == [sensor : Sensors, inputs : Seq(Sensors)]
  <2>1. c.computed[j] \in R
    <3>1. c.computed \in Seq(R)
      BY <1>3
    <3> HIDE DEF R
    <3> QED
      BY <3>1
  <2> QED
    BY <2>1
<1> QED
  BY <1>1, <1>2, <1>3, <1>4

\* What the slots of one computed sensor are.
LEMMA ComputedPartFields ==
  ASSUME NEW c \in Config, NEW j \in DOMAIN c.computed
  PROVE  /\ ComputedPart(c, j) \in Seq(Slot)
         /\ Len(ComputedPart(c, j)) = 2
         /\ \A k \in 1..2 : /\ ComputedPart(c, j)[k].device = ""
                            /\ ComputedPart(c, j)[k].sensor = c.computed[j].sensor
                            /\ ComputedPart(c, j)[k].word = k - 1
<1> DEFINE r == [sensor |-> c.computed[j].sensor, words |-> 2, access |-> "read"]
<1>1. c.computed[j].sensor \in Sensors
  BY ConfigFields
<1>2. /\ r.sensor = c.computed[j].sensor /\ r.words = 2 /\ r.access = "read"
      /\ ComputedPart(c, j) = Slots("", r)
  BY DEF ComputedPart
<1> HIDE DEF r
<1> DEFINE none == ""
           part == Slots(none, r)
<1>3. none \in Owners
  BY DEF Owners
<1> HIDE DEF none
<1>4. r.sensor \in Sensors /\ r.words \in {1, 2} /\ r.access \in {"read", "read_write"}
  BY <1>1, <1>2
<1>5. /\ part \in Seq(Slot) /\ Len(part) = r.words
      /\ \A k \in 1..r.words : /\ part[k].device = none
                               /\ part[k].sensor = r.sensor
                               /\ part[k].word = k - 1
  BY <1>3, <1>4, SlotsOfSensor
<1> HIDE DEF part
<1>6. part = ComputedPart(c, j)
  BY <1>2 DEF part, none
<1> QED
  BY <1>2, <1>5, <1>6 DEF none

\* The table is made of parts.
LEMMA TableParts ==
  ASSUME NEW c \in Config, NEW area
  PROVE  /\ \A d \in DeviceSet :
              /\ RegisterParts(c, d, area) \in Seq(Seq(Slot))
              /\ DeviceSlots(c, d, area) \in Seq(Slot)
              /\ DeviceSlots(c, d, area) = FlattenSeq(RegisterParts(c, d, area))
              /\ \E off : Parts(RegisterParts(c, d, area), off, DeviceSlots(c, d, area))
         /\ DeviceParts(c, area) \in Seq(Seq(Slot))
         /\ RegisterSlots(c, area) \in Seq(Slot)
         /\ \E off : Parts(DeviceParts(c, area), off, RegisterSlots(c, area))
         /\ ComputedParts(c) \in Seq(Seq(Slot))
         /\ ComputedSlots(c) \in Seq(Slot)
         /\ \E off : Parts(ComputedParts(c), off, ComputedSlots(c))
<1>1. ASSUME NEW d \in DeviceSet
      PROVE  /\ RegisterParts(c, d, area) \in Seq(Seq(Slot))
             /\ DeviceSlots(c, d, area) \in Seq(Slot)
             /\ DeviceSlots(c, d, area) = FlattenSeq(RegisterParts(c, d, area))
             /\ \E off : Parts(RegisterParts(c, d, area), off, DeviceSlots(c, d, area))
  <2> DEFINE seqs == RegisterParts(c, d, area)
             part(i) == IF c.regs[d][i].area = area THEN Slots(d, c.regs[d][i]) ELSE <<>>
  <2>1. ASSUME NEW i \in DOMAIN c.regs[d] PROVE part(i) \in Seq(Slot)
    <3> DEFINE r == c.regs[d][i]
    <3>1. r.sensor \in Sensors /\ r.words \in {1, 2} /\ r.access \in {"read", "read_write"}
      BY ConfigFields
    <3> HIDE DEF r
    <3>2. d \in Owners
      BY DEF Owners
    <3>3. Slots(d, r) \in Seq(Slot)
      BY <3>1, <3>2, SlotsOfSensor
    <3> QED
      BY <3>3 DEF r
  <2>2. c.regs[d] \in Seq(Register) /\ seqs = [i \in DOMAIN c.regs[d] |-> part(i)]
    BY ConfigFields DEF RegisterParts
  <2>3. DeviceSlots(c, d, area) = FlattenSeq(seqs)
    BY DEF DeviceSlots, RegisterParts
  <2>4. seqs \in Seq(Seq(Slot))
    <3> DEFINE Q == Seq(Slot)
    <3>1. \A i \in DOMAIN c.regs[d] : part(i) \in Q
      BY <2>1
    <3> HIDE DEF seqs, part, Q
    <3>2. seqs \in Seq(Q)
      BY <2>2, <3>1
    <3> QED
      BY <3>2 DEF Q
  <2> HIDE DEF seqs
  <2> QED
    BY <2>3, <2>4, Flattened DEF seqs
<1>2. /\ DeviceParts(c, area) \in Seq(Seq(Slot))
      /\ RegisterSlots(c, area) = FlattenSeq(DeviceParts(c, area))
  <2>1. \A i \in DOMAIN Devices : Devices[i] \in DeviceSet
    BY DEF DeviceSet
  <2>2. Devices \in Seq(DeviceSet)
    BY DevicesAreDistinct
  <2> DEFINE Q == Seq(Slot)
  <2>3. \A i \in DOMAIN Devices : DeviceSlots(c, Devices[i], area) \in Q
    BY <1>1, <2>1
  <2> HIDE DEF Q
  <2>4. DeviceParts(c, area) \in Seq(Q)
    BY <2>2, <2>3 DEF DeviceParts
  <2> QED
    BY <2>4 DEF Q, RegisterSlots, DeviceParts
<1>3. /\ ComputedParts(c) \in Seq(Seq(Slot))
      /\ ComputedSlots(c) = FlattenSeq(ComputedParts(c))
  <2> DEFINE Q == Seq(Slot)
             R == [sensor : Sensors, inputs : Seq(Sensors)]
  <2>1. \A j \in DOMAIN c.computed : ComputedPart(c, j) \in Q
    BY ComputedPartFields
  <2>2. c.computed \in Seq(R)
    BY ConfigFields
  <2> HIDE DEF Q, R
  <2>3. ComputedParts(c) \in Seq(Q)
    BY <2>1, <2>2 DEF ComputedParts
  <2> QED
    BY <2>3 DEF Q, ComputedSlots, ComputedParts, ComputedPart
<1>4. /\ RegisterSlots(c, area) \in Seq(Slot)
      /\ \E off : Parts(DeviceParts(c, area), off, RegisterSlots(c, area))
  BY <1>2, Flattened
<1>5. /\ ComputedSlots(c) \in Seq(Slot)
      /\ \E off : Parts(ComputedParts(c), off, ComputedSlots(c))
  BY <1>3, Flattened
<1> QED
  BY <1>1, <1>2, <1>3, <1>4, <1>5

\* A place is a device with the number of a register of it.
LEMMA PlaceFields ==
  ASSUME NEW c
  PROVE  /\ \A p \in Places(c) : /\ p[1] \in DeviceSet /\ p[2] \in DOMAIN c.regs[p[1]]
                                 /\ p = <<p[1], p[2]>>
                                 /\ At(c, p) = c.regs[p[1]][p[2]]
         /\ \A d \in DeviceSet : \A i \in DOMAIN c.regs[d] : <<d, i>> \in Places(c)
  BY DEF Places, At

\* Where the first word of each register and of each computed sensor stands, and
\* that nothing else is in the table: its positions, which are one more than its
\* addresses.
Standing(c, area, T, at, ct) ==
  /\ at \in [Places(c) -> Nat] /\ ct \in [DOMAIN c.computed -> Nat]
  /\ \A p \in Places(c) : At(c, p).area = area =>
       \A k \in 1..At(c, p).words :
         /\ at[p] + k \in 1..Len(T)
         /\ T[at[p] + k].sensor = At(c, p).sensor /\ T[at[p] + k].word = k - 1
  /\ area = "input" => \A j \in DOMAIN c.computed : \A k \in 1..2 :
       /\ ct[j] + k \in 1..Len(T)
       /\ T[ct[j] + k].sensor = c.computed[j].sensor /\ T[ct[j] + k].word = k - 1
  /\ \A n \in 1..Len(T) :
       \/ \E p \in Places(c) : /\ At(c, p).area = area
                               /\ \E k \in 1..At(c, p).words : n = at[p] + k
       \/ /\ area = "input"
          /\ \E j \in DOMAIN c.computed : \E k \in 1..2 : n = ct[j] + k

\* The same of the slots of registers alone, and of computed sensors alone.
RegistersAt(c, area, T, at) ==
  /\ at \in [Places(c) -> Nat]
  /\ \A p \in Places(c) : At(c, p).area = area =>
       \A k \in 1..At(c, p).words :
         /\ at[p] + k \in 1..Len(T)
         /\ T[at[p] + k].sensor = At(c, p).sensor /\ T[at[p] + k].word = k - 1
  /\ \A n \in 1..Len(T) :
       \E p \in Places(c) : /\ At(c, p).area = area
                            /\ \E k \in 1..At(c, p).words : n = at[p] + k

ComputedAt(c, T, ct) ==
  /\ ct \in [DOMAIN c.computed -> Nat]
  /\ \A j \in DOMAIN c.computed : \A k \in 1..2 :
       /\ ct[j] + k \in 1..Len(T)
       /\ T[ct[j] + k].sensor = c.computed[j].sensor /\ T[ct[j] + k].word = k - 1
  /\ \A n \in 1..Len(T) : \E j \in DOMAIN c.computed : \E k \in 1..2 : n = ct[j] + k

\* The slots of the registers.
LEMMA RegistersStand ==
  ASSUME NEW c \in Config, NEW area
  PROVE  \E at : RegistersAt(c, area, RegisterSlots(c, area), at)
<1> DEFINE T == RegisterSlots(c, area)
           D == DeviceParts(c, area)
           rp(d) == RegisterParts(c, d, area)
           ds(d) == DeviceSlots(c, d, area)
           idx(d) == CHOOSE i \in DOMAIN Devices : Devices[i] = d
           doff(d) == CHOOSE o : Parts(rp(d), o, ds(d))
<1>1. PICK off : Parts(D, off, T)
  BY TableParts
<1>2. ASSUME NEW d \in DeviceSet
      PROVE  /\ Parts(rp(d), doff(d), ds(d))
             /\ idx(d) \in 1..Len(Devices) /\ Devices[idx(d)] = d
             /\ idx(d) \in 1..Len(D) /\ D[idx(d)] = ds(d)
             /\ off[idx(d) - 1] \in Nat
  <2>1. Parts(rp(d), doff(d), ds(d))
    <3>1. \E o : Parts(rp(d), o, ds(d))
      BY TableParts
    <3> HIDE DEF rp, ds
    <3> QED
      BY <3>1
  <2>2. idx(d) \in DOMAIN Devices /\ Devices[idx(d)] = d
    BY DEF DeviceSet
  <2>3. Devices \in Seq(DeviceSet)
    BY DevicesAreDistinct
  <2>4. D \in Seq(Seq(Slot)) /\ D = [i \in DOMAIN Devices |-> DeviceSlots(c, Devices[i], area)]
    BY TableParts DEF DeviceParts
  <2> HIDE DEF idx, doff
  <2>5. idx(d) \in 1..Len(Devices) /\ idx(d) \in 1..Len(D) /\ D[idx(d)] = ds(d)
    BY <2>2, <2>3, <2>4
  <2>6. off[idx(d) - 1] \in Nat
    <3>1. idx(d) - 1 \in 0..Len(D)
      BY <2>4, <2>5
    <3> HIDE DEF D
    <3> QED
      BY <1>1, <3>1 DEF Parts
  <2> QED
    BY <2>1, <2>2, <2>5, <2>6
<1>3. ASSUME NEW d \in DeviceSet, NEW i \in DOMAIN c.regs[d]
      PROVE  /\ i \in 1..Len(rp(d)) /\ doff(d)[i - 1] \in Nat
             /\ rp(d)[i] = IF c.regs[d][i].area = area THEN Slots(d, c.regs[d][i])
                           ELSE <<>>
  <2>1. c.regs[d] \in Seq(Register) /\ rp(d) \in Seq(Seq(Slot))
    BY ConfigFields, TableParts
  <2>2. DOMAIN rp(d) = DOMAIN c.regs[d]
    BY DEF RegisterParts
  <2>3. i \in 1..Len(rp(d)) /\ i - 1 \in 0..Len(rp(d))
    <3> HIDE DEF rp
    <3> QED
      BY <2>1, <2>2
  <2>4. doff(d)[i - 1] \in Nat
    <3> HIDE DEF rp, doff, ds
    <3> QED
      BY <1>2, <2>1, <2>3, PartElement
  <2> QED
    BY <2>3, <2>4 DEF RegisterParts
<1> DEFINE at == [p \in Places(c) |-> off[idx(p[1]) - 1] + doff(p[1])[p[2] - 1]]
<1> HIDE DEF idx, doff, T, D, rp, ds
<1>4. ASSUME NEW d \in DeviceSet, NEW i \in DOMAIN c.regs[d]
      PROVE  at[<<d, i>>] = off[idx(d) - 1] + doff(d)[i - 1]
  <2>1. <<d, i>> \in Places(c)
    BY PlaceFields
  <2> QED
    BY <2>1
<1>5. at \in [Places(c) -> Nat]
  <2>1. ASSUME NEW p \in Places(c) PROVE off[idx(p[1]) - 1] + doff(p[1])[p[2] - 1] \in Nat
    <3>1. p[1] \in DeviceSet /\ p[2] \in DOMAIN c.regs[p[1]]
      BY PlaceFields
    <3>2. off[idx(p[1]) - 1] \in Nat /\ doff(p[1])[p[2] - 1] \in Nat
      BY <1>2, <1>3, <3>1
    <3> QED
      BY <3>2
  <2> QED
    BY <2>1
<1> HIDE DEF at
<1>6. ASSUME NEW d \in DeviceSet, NEW i \in DOMAIN c.regs[d], c.regs[d][i].area = area,
             NEW k \in 1..c.regs[d][i].words
      PROVE  /\ at[<<d, i>>] + k \in 1..Len(T)
             /\ T[at[<<d, i>>] + k].sensor = c.regs[d][i].sensor
             /\ T[at[<<d, i>>] + k].word = k - 1
  <2> DEFINE r == c.regs[d][i]
             s == Slots(d, r)
             j == doff(d)[i - 1] + k
  <2>1. /\ Len(s) = r.words /\ s[k].sensor = r.sensor /\ s[k].word = k - 1
        /\ r.words \in {1, 2}
    <3>1. r.sensor \in Sensors /\ r.words \in {1, 2} /\ r.access \in {"read", "read_write"}
      BY ConfigFields
    <3>2. d \in Owners /\ k \in 1..r.words
      BY DEF Owners
    <3> HIDE DEF r
    <3> QED
      BY <3>1, <3>2, SlotsOfSensor
  <2>2. rp(d)[i] = s /\ i \in 1..Len(rp(d)) /\ doff(d)[i - 1] \in Nat
    BY <1>3, <1>6
  <2>3. k \in 1..Len(rp(d)[i]) /\ k \in Nat
    BY <2>1, <2>2
  <2>4. j \in 1..Len(ds(d)) /\ ds(d)[j] = s[k]
    <3> HIDE DEF r, s
    <3> QED
      BY <1>2, <2>2, <2>3 DEF Parts
  <2>5. off[idx(d) - 1] + j \in 1..Len(T) /\ T[off[idx(d) - 1] + j] = ds(d)[j]
    <3>1. D \in Seq(Seq(Slot)) /\ idx(d) \in 1..Len(D) /\ D[idx(d)] = ds(d)
      BY <1>2, TableParts DEF D
    <3> HIDE DEF r, s, j
    <3> QED
      BY <1>1, <2>4, <3>1, PartElement
  <2>6. at[<<d, i>>] + k = off[idx(d) - 1] + j
    BY <1>2, <1>4, <2>2, <2>3
  <2> HIDE DEF s, j
  <2> QED
    BY <2>1, <2>4, <2>5, <2>6
<1>7. ASSUME NEW n \in 1..Len(T)
      PROVE  \E d \in DeviceSet : \E i \in DOMAIN c.regs[d] :
               /\ c.regs[d][i].area = area
               /\ \E k \in 1..c.regs[d][i].words : n = at[<<d, i>>] + k
  <2>1. PICK x \in 1..Len(D) : \E j \in 1..Len(D[x]) : n = off[x - 1] + j
    BY <1>1 DEF Parts
  <2>2. PICK j \in 1..Len(D[x]) : n = off[x - 1] + j
    BY <2>1
  <2>3. PICK d \in DeviceSet : x = idx(d) /\ D[x] = ds(d)
    <3>1. x \in DOMAIN Devices
      <4>1. D \in Seq(Seq(Slot)) /\ DOMAIN D = DOMAIN Devices
        BY TableParts DEF D, DeviceParts
      <4> QED
        BY <4>1
    <3>2. Devices[x] \in DeviceSet
      BY <3>1 DEF DeviceSet
    <3>3. idx(Devices[x]) = x
      <4> DEFINE d == Devices[x]
      <4>1. idx(d) \in DOMAIN Devices /\ Devices[idx(d)] = Devices[x]
        BY <3>1 DEF idx
      <4> HIDE DEF d
      <4> QED
        BY <3>1, <4>1, DevicesAreDistinct DEF d
    <3> QED
      BY <1>2, <3>2, <3>3
  <2>4. PICK i \in 1..Len(rp(d)) : \E k \in 1..Len(rp(d)[i]) : j = doff(d)[i - 1] + k
    <3>1. j \in 1..Len(ds(d))
      BY <2>3
    <3> QED
      BY <1>2, <3>1 DEF Parts
  <2>5. PICK k \in 1..Len(rp(d)[i]) : j = doff(d)[i - 1] + k
    BY <2>4
  <2>6. i \in DOMAIN c.regs[d]
    <3>1. rp(d) \in Seq(Seq(Slot)) /\ DOMAIN rp(d) = DOMAIN c.regs[d]
      BY TableParts DEF rp, RegisterParts
    <3> QED
      BY <3>1
  <2> DEFINE r == c.regs[d][i]
  <2>7. r.area = area /\ k \in 1..r.words
    <3>1. rp(d)[i] = IF r.area = area THEN Slots(d, r) ELSE <<>>
      BY <1>3, <2>6
    <3>2. r.area = area
      <4>1. rp(d)[i] # <<>>
        BY <2>5
      <4> QED
        BY <3>1, <4>1
    <3>3. Len(Slots(d, r)) = r.words
      <4>1. r.sensor \in Sensors /\ r.words \in {1, 2} /\ r.access \in {"read", "read_write"}
        BY <2>6, ConfigFields
      <4>2. d \in Owners
        BY DEF Owners
      <4> HIDE DEF r
      <4> QED
        BY <4>1, <4>2, SlotsOfSensor
    <3> QED
      BY <3>1, <3>2, <3>3
  <2>8. n = at[<<d, i>>] + k
    <3>1. at[<<d, i>>] = off[idx(d) - 1] + doff(d)[i - 1]
      BY <1>4, <2>6
    <3>2. off[idx(d) - 1] \in Nat /\ doff(d)[i - 1] \in Nat /\ k \in Int
      BY <1>2, <1>3, <2>6, <2>7
    <3> DEFINE a == off[idx(d) - 1]
               b == doff(d)[i - 1]
    <3>3. n = a + j /\ j = b + k /\ at[<<d, i>>] = a + b
      BY <2>2, <2>3, <2>5, <3>1
    <3>4. a \in Nat /\ b \in Nat /\ k \in Int
      BY <3>2
    <3> HIDE DEF a, b
    <3> QED
      BY <3>3, <3>4
  <2> QED
    BY <2>6, <2>7, <2>8
<1>8. ASSUME NEW p \in Places(c), At(c, p).area = area, NEW k \in 1..At(c, p).words
      PROVE  /\ at[p] + k \in 1..Len(T)
             /\ T[at[p] + k].sensor = At(c, p).sensor /\ T[at[p] + k].word = k - 1
  <2>1. /\ p[1] \in DeviceSet /\ p[2] \in DOMAIN c.regs[p[1]] /\ p = <<p[1], p[2]>>
        /\ At(c, p) = c.regs[p[1]][p[2]]
    BY PlaceFields
  <2> QED
    BY <1>6, <1>8, <2>1
<1>9. ASSUME NEW n \in 1..Len(T)
      PROVE  \E p \in Places(c) : /\ At(c, p).area = area
                                  /\ \E k \in 1..At(c, p).words : n = at[p] + k
  <2>1. PICK d \in DeviceSet : \E i \in DOMAIN c.regs[d] :
               /\ c.regs[d][i].area = area
               /\ \E k \in 1..c.regs[d][i].words : n = at[<<d, i>>] + k
    BY <1>7
  <2>2. PICK i \in DOMAIN c.regs[d] :
               /\ c.regs[d][i].area = area
               /\ \E k \in 1..c.regs[d][i].words : n = at[<<d, i>>] + k
    BY <2>1
  <2>3. <<d, i>> \in Places(c) /\ At(c, <<d, i>>) = c.regs[d][i]
    BY PlaceFields DEF At
  <2> QED
    BY <2>2, <2>3
<1> QED
  <2>1. RegistersAt(c, area, T, at)
    BY <1>5, <1>8, <1>9 DEF RegistersAt
  <2> QED
    BY <2>1 DEF T

\* The slots of the computed sensors.
LEMMA ComputedStand ==
  ASSUME NEW c \in Config
  PROVE  \E ct : ComputedAt(c, ComputedSlots(c), ct)
<1> DEFINE T == ComputedSlots(c)
           D == ComputedParts(c)
<1>1. PICK off : Parts(D, off, T)
  BY TableParts
<1>2. /\ D \in Seq(Seq(Slot)) /\ DOMAIN D = DOMAIN c.computed
      /\ \A j \in DOMAIN c.computed : D[j] = ComputedPart(c, j)
  BY TableParts DEF ComputedParts
<1> HIDE DEF D, T
<1>3. DOMAIN c.computed = 1..Len(D)
  BY <1>2
<1>4. ASSUME NEW j \in 1..Len(D)
      PROVE  /\ off[j - 1] \in Nat
             /\ \A k \in 1..Len(D[j]) :
                  off[j - 1] + k \in 1..Len(T) /\ T[off[j - 1] + k] = D[j][k]
  <2>1. D \in Seq(Seq(Slot))
    BY <1>2
  <2>2. off[j - 1] \in Nat
    <3>1. j - 1 \in 0..Len(D)
      BY <2>1
    <3> QED
      BY <1>1, <3>1 DEF Parts
  <2>3. ASSUME NEW k \in 1..Len(D[j])
        PROVE  off[j - 1] + k \in 1..Len(T) /\ T[off[j - 1] + k] = D[j][k]
    BY <1>1, <2>1, PartElement
  <2> QED
    BY <2>2, <2>3
<1> DEFINE ct == [j \in DOMAIN c.computed |-> off[j - 1]]
<1>5. ASSUME NEW j \in DOMAIN c.computed
      PROVE  /\ ct[j] = off[j - 1] /\ off[j - 1] \in Nat
             /\ \A k \in 1..2 : ct[j] + k \in 1..Len(T) /\ T[ct[j] + k] = D[j][k]
  <2>1. j \in 1..Len(D) /\ Len(D[j]) = 2
    BY <1>2, <1>3, ComputedPartFields
  <2> QED
    BY <1>4, <2>1
<1>6. ct \in [DOMAIN c.computed -> Nat]
  BY <1>5
<1>7. ASSUME NEW j \in DOMAIN c.computed, NEW k \in 1..2
      PROVE  /\ ct[j] + k \in 1..Len(T)
             /\ T[ct[j] + k].sensor = c.computed[j].sensor
             /\ T[ct[j] + k].word = k - 1
  <2>1. D[j][k].sensor = c.computed[j].sensor /\ D[j][k].word = k - 1
    BY <1>2, ComputedPartFields
  <2> QED
    BY <1>5, <2>1
<1>8. ASSUME NEW n \in 1..Len(T)
      PROVE  \E j \in DOMAIN c.computed : \E k \in 1..2 : n = ct[j] + k
  <2>1. PICK j \in 1..Len(D) : \E k \in 1..Len(D[j]) : n = off[j - 1] + k
    BY <1>1 DEF Parts
  <2>2. j \in DOMAIN c.computed /\ Len(D[j]) = 2
    <3>1. j \in DOMAIN c.computed /\ D[j] = ComputedPart(c, j)
      BY <1>2, <1>3
    <3> QED
      BY <3>1, ComputedPartFields
  <2> QED
    BY <1>5, <2>1, <2>2
<1> HIDE DEF ct
<1>9. ComputedAt(c, T, ct)
  BY <1>6, <1>7, <1>8 DEF ComputedAt
<1> QED
  BY <1>9 DEF T

\* Every table has its words in places of their own.
LEMMA TableStands ==
  ASSUME NEW c \in Config, NEW area
  PROVE  /\ Table(c, area) \in Seq(Slot)
         /\ \E at, ct : Standing(c, area, Table(c, area), at, ct)
<1> DEFINE A == RegisterSlots(c, area)
           B == IF area = "input" THEN ComputedSlots(c) ELSE <<>>
           T == Table(c, area)
<1>1. A \in Seq(Slot) /\ B \in Seq(Slot) /\ T = A \o B
  BY TableParts DEF Table
<1>2. PICK at : RegistersAt(c, area, A, at)
  BY RegistersStand
<1>3. PICK cs : /\ cs \in [DOMAIN c.computed -> Nat]
                /\ area = "input" => ComputedAt(c, B, cs)
                /\ area # "input" => B = <<>>
  <2>1. PICK cs : ComputedAt(c, ComputedSlots(c), cs)
    BY ComputedStand
  <2>2. cs \in [DOMAIN c.computed -> Nat]
    BY <2>1 DEF ComputedAt
  <2> QED
    BY <2>1, <2>2
<1> HIDE DEF A, B, T
<1>4. /\ Len(A) \in Nat /\ Len(B) \in Nat /\ Len(T) = Len(A) + Len(B)
      /\ \A n \in 1..Len(A) : n \in 1..Len(T) /\ T[n] = A[n]
      /\ \A n \in 1..Len(B) : Len(A) + n \in 1..Len(T) /\ T[Len(A) + n] = B[n]
      /\ \A n \in 1..Len(T) : n \in 1..Len(A) \/ n - Len(A) \in 1..Len(B)
  BY <1>1
<1> DEFINE ct == [j \in DOMAIN c.computed |-> Len(A) + cs[j]]
<1>5. ct \in [DOMAIN c.computed -> Nat]
  BY <1>3, <1>4
<1>6. ASSUME NEW j \in DOMAIN c.computed, NEW k \in 1..2
      PROVE  ct[j] + k = Len(A) + (cs[j] + k)
  <2>1. cs[j] \in Nat /\ ct[j] = Len(A) + cs[j]
    BY <1>3
  <2> HIDE DEF ct
  <2> QED
    BY <1>4, <2>1
<1> HIDE DEF ct
<1>7. ASSUME area = "input", NEW j \in DOMAIN c.computed, NEW k \in 1..2
      PROVE  /\ ct[j] + k \in 1..Len(T)
             /\ T[ct[j] + k].sensor = c.computed[j].sensor /\ T[ct[j] + k].word = k - 1
  <2>1. cs[j] + k \in 1..Len(B) /\ B[cs[j] + k].sensor = c.computed[j].sensor
        /\ B[cs[j] + k].word = k - 1
    BY <1>3, <1>7 DEF ComputedAt
  <2> QED
    BY <1>4, <1>6, <2>1
<1>8. ASSUME NEW n \in 1..Len(T)
      PROVE  \/ \E p \in Places(c) : /\ At(c, p).area = area
                                     /\ \E k \in 1..At(c, p).words : n = at[p] + k
             \/ /\ area = "input"
                /\ \E j \in DOMAIN c.computed : \E k \in 1..2 : n = ct[j] + k
  <2>1. CASE n \in 1..Len(A)
    BY <1>2, <2>1 DEF RegistersAt
  <2>2. CASE n - Len(A) \in 1..Len(B)
    <3>1. /\ area = "input"
          /\ \E j \in DOMAIN c.computed : \E k \in 1..2 : n - Len(A) = cs[j] + k
      <4>1. B # <<>>
        BY <2>2
      <4> QED
        BY <1>3, <2>2, <4>1 DEF ComputedAt
    <3>2. PICK j \in DOMAIN c.computed : \E k \in 1..2 : n - Len(A) = cs[j] + k
      BY <3>1
    <3>3. PICK k \in 1..2 : n - Len(A) = cs[j] + k
      BY <3>2
    <3>4. n = ct[j] + k
      <4>1. cs[j] \in Nat /\ n \in Int /\ k \in Int
        BY <1>3, <1>4
      <4> QED
        BY <1>4, <1>6, <3>3, <4>1
    <3> QED
      BY <3>1, <3>4
  <2> QED
    BY <1>4, <2>1, <2>2
<1>9. ASSUME NEW p \in Places(c), At(c, p).area = area, NEW k \in 1..At(c, p).words
      PROVE  /\ at[p] + k \in 1..Len(T)
             /\ T[at[p] + k].sensor = At(c, p).sensor /\ T[at[p] + k].word = k - 1
  BY <1>2, <1>4, <1>9 DEF RegistersAt
<1>10. T \in Seq(Slot)
  BY <1>1
<1>11. at \in [Places(c) -> Nat]
  BY <1>2 DEF RegistersAt
<1>12. Standing(c, area, T, at, ct)
  BY <1>5, <1>7, <1>8, <1>9, <1>11 DEF Standing
<1> QED
  BY <1>10, <1>12 DEF T

\* Who has the word at a place of a table.
LEMMA WhoseWord ==
  ASSUME NEW c \in Config, UniqueSensors(c), NEW area, NEW T, NEW at, NEW ct,
         Standing(c, area, T, at, ct), NEW n \in 1..Len(T)
  PROVE  /\ \A p \in Places(c) : T[n].sensor = At(c, p).sensor =>
              /\ At(c, p).area = area
              /\ \E k \in 1..At(c, p).words : n = at[p] + k /\ T[n].word = k - 1
         /\ \A j \in DOMAIN c.computed : T[n].sensor = c.computed[j].sensor =>
              /\ area = "input"
              /\ \E k \in 1..2 : n = ct[j] + k /\ T[n].word = k - 1
<1>1. \A p \in Places(c) : At(c, p).sensor \in KnownSensors(c)
  BY DEF KnownSensors
<1>2. \A j \in DOMAIN c.computed : c.computed[j].sensor \in Ids(c.computed)
  BY DEF Ids
<1>3. \/ \E p \in Places(c) : /\ At(c, p).area = area
                              /\ \E k \in 1..At(c, p).words : n = at[p] + k
      \/ area = "input" /\ \E j \in DOMAIN c.computed : \E k \in 1..2 : n = ct[j] + k
  BY DEF Standing
<1>4. CASE \E p \in Places(c) : /\ At(c, p).area = area
                                /\ \E k \in 1..At(c, p).words : n = at[p] + k
  <2>1. PICK p \in Places(c) : /\ At(c, p).area = area
                               /\ \E k \in 1..At(c, p).words : n = at[p] + k
    BY <1>4
  <2>2. PICK k \in 1..At(c, p).words : n = at[p] + k
    BY <2>1
  <2>3. T[n].sensor = At(c, p).sensor /\ T[n].word = k - 1
    BY <2>1, <2>2 DEF Standing
  <2>4. \A q \in Places(c) : T[n].sensor = At(c, q).sensor => q = p
    BY <2>3 DEF UniqueSensors
  <2>5. \A j \in DOMAIN c.computed : T[n].sensor # c.computed[j].sensor
    BY <1>1, <1>2, <2>3 DEF UniqueSensors
  <2> QED
    BY <2>1, <2>2, <2>3, <2>4, <2>5
<1>5. CASE area = "input" /\ \E j \in DOMAIN c.computed : \E k \in 1..2 : n = ct[j] + k
  <2>1. PICK j \in DOMAIN c.computed : \E k \in 1..2 : n = ct[j] + k
    BY <1>5
  <2>2. PICK k \in 1..2 : n = ct[j] + k
    BY <2>1
  <2>3. T[n].sensor = c.computed[j].sensor /\ T[n].word = k - 1
    BY <1>5, <2>2 DEF Standing
  <2>4. \A i \in DOMAIN c.computed : T[n].sensor = c.computed[i].sensor => i = j
    BY <2>3 DEF UniqueSensors
  <2>5. \A q \in Places(c) : T[n].sensor # At(c, q).sensor
    BY <1>1, <1>2, <2>3 DEF UniqueSensors
  <2> QED
    BY <1>5, <2>2, <2>3, <2>4, <2>5
<1> QED
  BY <1>3, <1>4, <1>5

\* A sensor whose words stand from a place on, and nowhere else, has the one run
\* of addresses.
StandsAt(T, sensor, w, a) ==
  /\ \A k \in 1..w : /\ a + k \in 1..Len(T)
                      /\ T[a + k].sensor = sensor /\ T[a + k].word = k - 1
  /\ \A n \in 1..Len(T) : T[n].sensor = sensor =>
       \E k \in 1..w : n = a + k /\ T[n].word = k - 1

HasRun(T, sensor, w) ==
  \E n \in 0..Len(T) : \A k \in 0..(w - 1) : Addresses(T, sensor, k) = {n + k}

LEMMA RunOfAddresses ==
  ASSUME NEW T, Len(T) \in Nat, NEW sensor, NEW a \in Nat, NEW w, w = 1 \/ w = 2,
         StandsAt(T, sensor, w, a)
  PROVE  HasRun(T, sensor, w)
<1>1. a \in 0..Len(T)
  <2>1. a + 1 \in 1..Len(T)
    BY DEF StandsAt
  <2> QED
    BY <2>1
<1>2. ASSUME NEW k \in 0..(w - 1)
      PROVE  Addresses(T, sensor, k) = {a + k}
  <2>1. k + 1 \in 1..w /\ (k + 1) - 1 = k /\ k \in Int /\ (a + k) + 1 = a + (k + 1)
    OBVIOUS
  <2>2. a + k \in Addresses(T, sensor, k)
    <3>1. /\ (a + k) + 1 \in 1..Len(T)
          /\ T[(a + k) + 1].sensor = sensor /\ T[(a + k) + 1].word = k
      BY <2>1 DEF StandsAt
    <3>2. a + k \in 0..(Len(T) - 1)
      BY <2>1, <3>1
    <3> QED
      BY <3>1, <3>2 DEF Addresses
  <2>3. ASSUME NEW n \in Addresses(T, sensor, k)
        PROVE  n = a + k
    <3>1. n \in 0..(Len(T) - 1) /\ T[n + 1].sensor = sensor /\ T[n + 1].word = k
      BY DEF Addresses
    <3>2. n \in Int /\ n + 1 \in 1..Len(T)
      BY <3>1
    <3>3. PICK i \in 1..w : n + 1 = a + i /\ T[n + 1].word = i - 1
      BY <3>1, <3>2 DEF StandsAt
    <3>4. i \in Int /\ i - 1 = k
      BY <3>1, <3>3
    <3> QED
      BY <2>1, <3>2, <3>3, <3>4
  <2> QED
    BY <2>2, <2>3
<1> QED
  BY <1>1, <1>2 DEF HasRun

\* The table of a valid configuration has one address per word.
LEMMA TableAddresses ==
  ASSUME NEW c \in Config, UniqueSensors(c), NEW area
  PROVE  /\ \A p \in Places(c) :
              IF area # At(c, p).area
              THEN Addresses(Table(c, area), At(c, p).sensor, 0) = {}
              ELSE HasRun(Table(c, area), At(c, p).sensor, At(c, p).words)
         /\ \A j \in DOMAIN c.computed :
              IF area # "input"
              THEN Addresses(Table(c, area), c.computed[j].sensor, 0) = {}
              ELSE HasRun(Table(c, area), c.computed[j].sensor, 2)
<1> DEFINE T == Table(c, area)
<1>1. T \in Seq(Slot) /\ \E at, ct : Standing(c, area, T, at, ct)
  BY TableStands
<1>2. PICK at, ct : Standing(c, area, T, at, ct)
  BY <1>1
<1> HIDE DEF T
<1>3. Len(T) \in Nat
  BY <1>1
<1>4. ASSUME NEW n \in 1..Len(T)
      PROVE  /\ \A p \in Places(c) : T[n].sensor = At(c, p).sensor =>
                  /\ At(c, p).area = area
                  /\ \E k \in 1..At(c, p).words : n = at[p] + k /\ T[n].word = k - 1
             /\ \A j \in DOMAIN c.computed : T[n].sensor = c.computed[j].sensor =>
                  /\ area = "input"
                  /\ \E k \in 1..2 : n = ct[j] + k /\ T[n].word = k - 1
  BY <1>2, WhoseWord
<1>5. ASSUME NEW n \in Int, n \in 0..(Len(T) - 1) PROVE n + 1 \in 1..Len(T)
  BY <1>3, <1>5
<1>6. ASSUME NEW p \in Places(c)
      PROVE  IF area # At(c, p).area THEN Addresses(T, At(c, p).sensor, 0) = {}
             ELSE HasRun(T, At(c, p).sensor, At(c, p).words)
  <2>1. CASE At(c, p).area = area
    <3> DEFINE w == At(c, p).words
               s == At(c, p).sensor
               a == at[p]
    <3>1. a \in Nat
      BY <1>2 DEF Standing
    <3>2. w = 1 \/ w = 2
      <4>1. p[1] \in DeviceSet /\ p[2] \in DOMAIN c.regs[p[1]] /\ At(c, p) = c.regs[p[1]][p[2]]
        BY PlaceFields
      <4> QED
        BY <4>1, ConfigFields
    <3>3. StandsAt(T, s, w, a)
      BY <1>2, <1>4, <2>1 DEF Standing, StandsAt
    <3> HIDE DEF w, s, a
    <3>4. HasRun(T, s, w)
      BY <1>3, <3>1, <3>2, <3>3, RunOfAddresses
    <3> QED
      BY <2>1, <3>4 DEF w, s
  <2>2. CASE At(c, p).area # area
    BY <1>4, <1>5, <2>2 DEF Addresses
  <2> QED
    BY <2>1, <2>2
<1>7. ASSUME NEW j \in DOMAIN c.computed
      PROVE  IF area # "input" THEN Addresses(T, c.computed[j].sensor, 0) = {}
             ELSE HasRun(T, c.computed[j].sensor, 2)
  <2>1. CASE area = "input"
    <3> DEFINE s == c.computed[j].sensor
               a == ct[j]
    <3>1. a \in Nat
      BY <1>2 DEF Standing
    <3>2. StandsAt(T, s, 2, a)
      BY <1>2, <1>4, <2>1 DEF Standing, StandsAt
    <3> HIDE DEF s, a
    <3>3. HasRun(T, s, 2)
      BY <1>3, <3>1, <3>2, RunOfAddresses
    <3> QED
      BY <2>1, <3>3 DEF s
  <2>2. CASE area # "input"
    BY <1>4, <1>5, <2>2 DEF Addresses
  <2> QED
    BY <2>1, <2>2
<1> QED
  BY <1>6, <1>7 DEF T

\* The table of the configuration in force.
LEMMA ValidTable == ConfigInv => OneAddressPerWord
<1> SUFFICES ASSUME ConfigInv PROVE OneAddressPerWord
  OBVIOUS
<1>1. config \in Config /\ UniqueSensors(config)
  BY DEF ConfigInv, Valid
<1> DEFINE Entries == {[area |-> At(config, p).area, sensor |-> At(config, p).sensor,
                        words |-> At(config, p).words] : p \in Places(config)}
                      \cup {[area |-> "input", sensor |-> id, words |-> 2] :
                              id \in Ids(config.computed)}
<1>2. ASSUME NEW area \in Areas, NEW e \in Entries
      PROVE  IF area # e.area THEN Addresses(Table(config, area), e.sensor, 0) = {}
             ELSE HasRun(Table(config, area), e.sensor, e.words)
  <2>1. CASE \E p \in Places(config) :
               e = [area |-> At(config, p).area, sensor |-> At(config, p).sensor,
                    words |-> At(config, p).words]
    <3>1. PICK p \in Places(config) :
               e = [area |-> At(config, p).area, sensor |-> At(config, p).sensor,
                    words |-> At(config, p).words]
      BY <2>1
    <3>2. e.area = At(config, p).area /\ e.sensor = At(config, p).sensor
          /\ e.words = At(config, p).words
      BY <3>1
    <3> QED
      BY <1>1, <3>2, TableAddresses
  <2>2. CASE \E id \in Ids(config.computed) :
               e = [area |-> "input", sensor |-> id, words |-> 2]
    <3>1. PICK id \in Ids(config.computed) :
               e = [area |-> "input", sensor |-> id, words |-> 2]
      BY <2>2
    <3>2. PICK j \in DOMAIN config.computed : id = config.computed[j].sensor
      BY DEF Ids
    <3>3. e.area = "input" /\ e.sensor = config.computed[j].sensor /\ e.words = 2
      BY <3>1, <3>2
    <3> QED
      BY <1>1, <3>3, TableAddresses
  <2> QED
    BY <2>1, <2>2
<1> QED
  BY <1>2 DEF OneAddressPerWord, HasRun

\* A master that reads the two words of a 32-bit sensor, of a register or of a
\* computed one, gets both halves of that sensor, whatever has been added.
THEOREM WordsHaveAddresses == Spec => []OneAddressPerWord
  BY ServerRunsConfig, ConfigInvariant, ValidTable, PTL

-----------------------------------------------------------------------------
(* What an added register does to the table *)

\* What one sensor is given in the slots of an area.
LEMMA SlotsOfDevice ==
  ASSUME NEW c \in Config, NEW area, NEW d \in DeviceSet,
         NEW n \in 1..Len(DeviceSlots(c, d, area))
  PROVE  /\ DeviceSlots(c, d, area)[n].device = d
         /\ DeviceSlots(c, d, area)[n].sensor \in KnownSensors(c)
<1> DEFINE seqs == RegisterParts(c, d, area)
           all == DeviceSlots(c, d, area)
<1>1. PICK off : Parts(seqs, off, all)
  BY TableParts
<1>2. seqs \in Seq(Seq(Slot)) /\ c.regs[d] \in Seq(Register) /\ DOMAIN seqs = DOMAIN c.regs[d]
  BY TableParts, ConfigFields DEF RegisterParts
<1>3. \A k \in DOMAIN c.regs[d] :
        seqs[k] = IF c.regs[d][k].area = area THEN Slots(d, c.regs[d][k]) ELSE <<>>
  BY DEF RegisterParts
<1> HIDE DEF seqs, all
<1>4. PICK k \in 1..Len(seqs) : \E j \in 1..Len(seqs[k]) : n = off[k - 1] + j
  BY <1>1 DEF Parts, all
<1>5. PICK j \in 1..Len(seqs[k]) : n = off[k - 1] + j
  BY <1>4
<1>6. all[n] = seqs[k][j]
  BY <1>1, <1>5 DEF Parts
<1>7. k \in DOMAIN c.regs[d]
  BY <1>2
<1>8. seqs[k] = Slots(d, c.regs[d][k])
  <2>1. seqs[k] # <<>>
    BY <1>5
  <2> QED
    BY <1>3, <1>7, <2>1
<1> DEFINE r == c.regs[d][k]
<1>9. /\ r.sensor \in Sensors /\ r.words \in {1, 2} /\ r.access \in {"read", "read_write"}
      /\ r.sensor \in KnownSensors(c)
  <2>1. <<d, k>> \in Places(c) /\ At(c, <<d, k>>) = r
    BY <1>7, PlaceFields
  <2> QED
    BY <1>7, <2>1, ConfigFields DEF KnownSensors
<1>10. d \in Owners
  BY DEF Owners
<1> DEFINE sl == Slots(d, r)
<1>11. seqs[k] = sl
  BY <1>8
<1> HIDE DEF r
<1>12. Len(sl) = r.words /\ \A i \in 1..r.words : sl[i].device = d /\ sl[i].sensor = r.sensor
  BY <1>9, <1>10, SlotsOfSensor
<1> HIDE DEF sl
<1>13. all[n].device = d /\ all[n].sensor = r.sensor
  BY <1>5, <1>6, <1>11, <1>12
<1> QED
  BY <1>9, <1>13 DEF all

\* Behind those of the registers stand only slots of computed sensors.
LEMMA SlotsOfComputed ==
  ASSUME NEW c \in Config, NEW n \in 1..Len(ComputedSlots(c))
  PROVE  ComputedSlots(c)[n].sensor \in Ids(c.computed)
<1> DEFINE all == ComputedSlots(c)
<1>1. PICK cs : ComputedAt(c, all, cs)
  BY ComputedStand
<1> HIDE DEF all
<1>2. PICK j \in DOMAIN c.computed : \E k \in 1..2 : n = cs[j] + k
  BY <1>1 DEF ComputedAt, all
<1>3. PICK k \in 1..2 : n = cs[j] + k
  BY <1>2
<1>4. all[n].sensor = c.computed[j].sensor
  BY <1>1, <1>3 DEF ComputedAt
<1> QED
  BY <1>4 DEF Ids, all

\* A register is added behind those of its device.
Behind(r, area) == IF r.area = area THEN r.words ELSE 0

\* These are the slots that a device has more.
Extended(c, n, device, area, e) ==
  \A d \in DeviceSet : DeviceSlots(n, d, area) =
    IF d = device THEN DeviceSlots(c, d, area) \o e ELSE DeviceSlots(c, d, area)

LEMMA DeviceGrows ==
  ASSUME NEW c \in Config, NEW q, q.register \in Register, q.device \in DeviceSet,
         NEW n \in Config, n = WithRegister(c, q), NEW area
  PROVE  /\ n.computed = c.computed
         /\ \E e \in Seq(Slot) : /\ Len(e) = Behind(q.register, area)
                                 /\ Extended(c, n, q.device, area, e)
<1> DEFINE r == q.register
           x == q.device
           e == IF r.area = area THEN Slots(x, r) ELSE <<>>
<1>1. n.computed = c.computed /\ n.regs = [c.regs EXCEPT ![x] = Append(@, r)]
  BY DEF WithRegister, Config
<1>2. c.regs \in [DeviceSet -> Seq(Register)]
  BY DEF Config
<1>3. n.regs[x] = Append(c.regs[x], r) /\ \A d \in DeviceSet : d # x => n.regs[d] = c.regs[d]
  BY <1>1, <1>2
<1>4. c.regs[x] \in Seq(Register) /\ r \in Register /\ x \in Owners
  BY <1>2 DEF Owners
<1> HIDE DEF r, x
<1>5. e \in Seq(Slot) /\ Len(e) = Behind(r, area)
  <2>1. r.sensor \in Sensors /\ r.words \in {1, 2} /\ r.access \in {"read", "read_write"}
    BY <1>4 DEF Register
  <2>2. Slots(x, r) \in Seq(Slot) /\ Len(Slots(x, r)) = r.words
    BY <1>4, <2>1, SlotsOfSensor
  <2>3. CASE r.area = area
    BY <2>2, <2>3 DEF Behind
  <2>4. CASE r.area # area
    <3>1. e = <<>>
      BY <2>4
    <3> QED
      BY <2>4, <3>1 DEF Behind
  <2> QED
    BY <2>3, <2>4
<1>6. RegisterParts(n, x, area) = Append(RegisterParts(c, x, area), e)
  <2> DEFINE part(g) == IF g.area = area THEN Slots(x, g) ELSE <<>>
             old == c.regs[x]
             new == n.regs[x]
  <2>1. old \in Seq(Register) /\ new = Append(old, r)
    BY <1>3, <1>4
  <2>2. /\ RegisterParts(c, x, area) = [i \in DOMAIN old |-> part(old[i])]
        /\ RegisterParts(n, x, area) = [i \in DOMAIN new |-> part(new[i])]
        /\ e = part(r)
    BY DEF RegisterParts
  <2> HIDE DEF part, old, new, e
  <2>3. [i \in DOMAIN new |-> part(new[i])] = Append([i \in DOMAIN old |-> part(old[i])], part(r))
    BY <2>1
  <2> QED
    BY <2>2, <2>3
<1> HIDE DEF e
<1>7. DeviceSlots(n, x, area) = DeviceSlots(c, x, area) \o e
  <2>1. x \in DeviceSet
    BY DEF x
  <2>2. /\ RegisterParts(c, x, area) \in Seq(Seq(Slot))
        /\ DeviceSlots(c, x, area) = FlattenSeq(RegisterParts(c, x, area))
        /\ DeviceSlots(n, x, area) = FlattenSeq(RegisterParts(n, x, area))
    BY <2>1, TableParts
  <2> QED
    BY <1>5, <1>6, <2>2, FlattenAppended
<1>8. ASSUME NEW d \in DeviceSet, d # x
      PROVE  DeviceSlots(n, d, area) = DeviceSlots(c, d, area)
  BY <1>3, <1>8 DEF DeviceSlots
<1> QED
  BY <1>1, <1>5, <1>7, <1>8 DEF r, x, Extended

\* The table after the addition.
LEMMA TableGrows ==
  ASSUME NEW c \in Config, UniqueSensors(c), NEW q, q.register \in Register,
         q.device \in DeviceSet, NEW n \in Config, n = WithRegister(c, q), NEW area
  PROVE  MovedUp(c, Table(c, area), Table(n, area), q.device, Behind(q.register, area))
<1> DEFINE w == Behind(q.register, area)
           d == q.device
           R == RegisterSlots(c, area)
           T == RegisterSlots(n, area)
           D == DeviceParts(c, area)
           E == DeviceParts(n, area)
           C == IF area = "input" THEN ComputedSlots(c) ELSE <<>>
<1>0. /\ n.computed = c.computed
      /\ \E e \in Seq(Slot) : Len(e) = w /\ Extended(c, n, d, area, e)
  <2> HIDE DEF R, T, D, E, C
  <2> QED
    BY DeviceGrows
<1>1. PICK e \in Seq(Slot) :
        /\ Len(e) = w
        /\ \A x \in DeviceSet :
             DeviceSlots(n, x, area) =
               IF x = d THEN DeviceSlots(c, x, area) \o e ELSE DeviceSlots(c, x, area)
  BY <1>0 DEF Extended
<1>2. n.computed = c.computed
  BY <1>0
<1>3. /\ R \in Seq(Slot) /\ T \in Seq(Slot) /\ C \in Seq(Slot)
      /\ D \in Seq(Seq(Slot)) /\ E \in Seq(Seq(Slot))
  <2>1. R \in Seq(Slot) /\ D \in Seq(Seq(Slot)) /\ ComputedSlots(c) \in Seq(Slot)
    BY TableParts
  <2>2. T \in Seq(Slot) /\ E \in Seq(Seq(Slot))
    BY TableParts
  <2>3. C \in Seq(Slot)
    BY <2>1
  <2> QED
    BY <2>1, <2>2, <2>3
<1>4. Table(c, area) = R \o C /\ Table(n, area) = T \o C
  BY <1>2 DEF Table, ComputedSlots
<1>5. PICK roff, soff : Parts(D, roff, R) /\ Parts(E, soff, T)
  BY TableParts
<1>6. /\ Devices \in Seq(DeviceSet) /\ DOMAIN Devices = 1..Len(Devices)
      /\ \A i, j \in DOMAIN Devices : Devices[i] = Devices[j] => i = j
      /\ \A i \in DOMAIN Devices : Devices[i] \in DeviceSet
  BY DevicesAreDistinct
<1>7. PICK x \in DOMAIN Devices : Devices[x] = d
  BY DEF DeviceSet
<1>8. DOMAIN D = DOMAIN Devices /\ DOMAIN E = DOMAIN Devices /\ Len(D) = Len(Devices)
      /\ \A i \in DOMAIN Devices : /\ D[i] = DeviceSlots(c, Devices[i], area)
                                   /\ E[i] = DeviceSlots(n, Devices[i], area)
  BY <1>3, <1>6 DEF DeviceParts
<1> HIDE DEF w, R, T, D, E, C, d
<1>9. Grown(D, E, x, e)
  <2>1. Len(E) = Len(D) /\ x \in 1..Len(D)
    BY <1>3, <1>6, <1>8
  <2>2. ASSUME NEW i \in 1..Len(D)
        PROVE  E[i] = IF i = x THEN D[i] \o e ELSE D[i]
    <3>1. i \in DOMAIN Devices /\ Devices[i] \in DeviceSet
      BY <1>6, <1>8
    <3>2. Devices[i] = d <=> i = x
      BY <1>6, <1>7, <3>1
    <3> QED
      BY <1>1, <1>8, <3>1, <3>2
  <2> QED
    BY <2>1, <2>2 DEF Grown
<1>10. /\ Len(T) = Len(R) + w
       /\ \A k \in 1..Len(D) : \A j \in 1..Len(D[k]) :
            LET m == roff[k - 1] + j + (IF k > x THEN w ELSE 0)
            IN  m \in 1..Len(T) /\ T[m] = R[roff[k - 1] + j]
  BY <1>1, <1>3, <1>5, <1>9, GrownPart, SMTT(60)
<1> DEFINE old == R \o C
           new == T \o C
<1>11. /\ Len(R) \in Nat /\ Len(C) \in Nat /\ Len(T) \in Nat /\ w \in Nat
       /\ DOMAIN old = 1..(Len(R) + Len(C)) /\ DOMAIN new = 1..(Len(T) + Len(C))
       /\ \A m \in 1..Len(R) : old[m] = R[m]
       /\ \A m \in 1..Len(T) : new[m] = T[m]
       /\ \A m \in 1..Len(C) : old[Len(R) + m] = C[m] /\ new[Len(T) + m] = C[m]
  BY <1>1, <1>3
<1>12. ASSUME NEW i \in DOMAIN old
       PROVE  LET m == i + (IF IsLater(c, old[i], d) THEN w ELSE 0)
              IN  m \in DOMAIN new /\ new[m] = old[i]
  <2> HIDE DEF old, new
  <2>0. i \in Nat
    BY <1>11
  <2>1. CASE i \in 1..Len(R)
    <3>1. PICK k \in 1..Len(D) : \E j \in 1..Len(D[k]) : i = roff[k - 1] + j
      BY <1>5, <2>1 DEF Parts
    <3>2. PICK j \in 1..Len(D[k]) : i = roff[k - 1] + j
      BY <3>1
    <3>3. old[i] = R[i] /\ R[i] = D[k][j]
      BY <1>5, <1>11, <2>1, <3>2 DEF Parts
    <3>4. k \in DOMAIN Devices /\ Devices[k] \in DeviceSet
          /\ D[k] = DeviceSlots(c, Devices[k], area)
      BY <1>6, <1>8
    <3>5. old[i].device = Devices[k] /\ old[i].sensor \in KnownSensors(c)
      <4> DEFINE y == Devices[k]
      <4>1. y \in DeviceSet /\ j \in 1..Len(DeviceSlots(c, y, area))
            /\ old[i] = DeviceSlots(c, y, area)[j]
        BY <3>3, <3>4
      <4> HIDE DEF y
      <4>2. old[i].device = y /\ old[i].sensor \in KnownSensors(c)
        BY <4>1, SlotsOfDevice
      <4> QED
        BY <4>2 DEF y
    <3>6. old[i].sensor \notin Ids(c.computed)
      BY <3>5 DEF UniqueSensors
    <3>7. IsLater(c, old[i], d) <=> k > x
      <4>1. k \in Nat /\ x \in Nat
        BY <1>6, <3>4
      <4>2. ASSUME k > x PROVE IsLater(c, old[i], d)
        <5>1. x < k
          BY <4>1, <4>2
        <5> QED
          BY <1>7, <3>4, <3>5, <5>1 DEF IsLater
      <4>3. ASSUME IsLater(c, old[i], d) PROVE k > x
        <5>1. PICK a, b \in DOMAIN Devices : a < b /\ Devices[a] = d /\ Devices[b] = Devices[k]
          BY <3>5, <3>6, <4>3 DEF IsLater
        <5>2. a = x /\ b = k
          BY <1>6, <1>7, <3>4, <5>1
        <5> QED
          BY <4>1, <5>1, <5>2
      <4> QED
        BY <4>2, <4>3
    <3> DEFINE m == i + (IF k > x THEN w ELSE 0)
    <3>8. m \in 1..Len(T) /\ T[m] = R[i]
      BY <1>10, <3>2
    <3>9. m \in DOMAIN new /\ new[m] = old[i]
      <4> HIDE DEF m
      <4>1. m \in 1..(Len(T) + Len(C))
        BY <1>11, <3>8
      <4> QED
        BY <1>11, <3>3, <3>8, <4>1
    <3> QED
      BY <3>7, <3>9
  <2>2. CASE i \notin 1..Len(R)
    <3> DEFINE j == i - Len(R)
    <3>1. j \in 1..Len(C) /\ i = Len(R) + j
      BY <1>11, <2>2
    <3> HIDE DEF j
    <3>2. old[i] = C[j] /\ new[Len(T) + j] = C[j]
      BY <1>11, <3>1
    <3>3. C[j].sensor \in Ids(c.computed)
      <4>1. C # <<>>
        BY <3>1
      <4>2. C = ComputedSlots(c)
        BY <4>1 DEF C
      <4> QED
        BY <3>1, <4>2, SlotsOfComputed
    <3>4. IsLater(c, old[i], d)
      BY <3>2, <3>3 DEF IsLater
    <3>5. i + w = Len(T) + j /\ i + w \in DOMAIN new
      BY <1>10, <1>11, <3>1
    <3> QED
      BY <3>2, <3>4, <3>5
  <2> QED
    BY <2>1, <2>2
<1> QED
  BY <1>4, <1>12 DEF MovedUp, w, d

\* A step that adds a register adds just that one.
LEMMA AddedIsNew ==
  ASSUME ConfigInv, NEW x \in Additions, HotAdd(x), NEW q \in Additions,
         ~ Has(config, q), Has(config', q)
  PROVE  /\ q.device \in DeviceSet /\ q.device = x.device /\ q.register = x.register
         /\ config' \in Config /\ config' = WithRegister(config, x)
<1>1. /\ config \in Config /\ config' = WithRegister(config, x) /\ x.device \in DeviceSet
      /\ x.register \in Register /\ Addable(config, x)
  BY AdditionsAssumption DEF HotAdd, Accepted, Addable, ConfigInv
<1>2. config' \in Config
  BY <1>1, WithRegisterTyped
<1>3. /\ config.regs \in [DeviceSet -> Seq(Register)]
      /\ config'.regs = [config.regs EXCEPT ![x.device] = Append(@, x.register)]
  BY <1>1 DEF WithRegister, Config
<1>4. q.device \in DeviceSet
  BY DEF Has
<1>5. PICK i \in 1..Len(config'.regs[q.device]) : config'.regs[q.device][i] = q.register
  BY DEF Has, Contains
<1>6. \A k \in 1..Len(config.regs[q.device]) : config.regs[q.device][k] # q.register
  BY <1>4 DEF Has, Contains
<1>7. CASE q.device = x.device
  <2> DEFINE s == config.regs[q.device]
  <2>1. s \in Seq(Register) /\ config'.regs[q.device] = Append(s, x.register)
    BY <1>3, <1>4, <1>7
  <2> HIDE DEF s
  <2>2. i = Len(s) + 1
    BY <1>5, <1>6, <2>1 DEF s
  <2>3. q.register = x.register
    BY <1>5, <2>1, <2>2
  <2> QED
    BY <1>1, <1>2, <1>4, <1>7, <2>3
<1>8. CASE q.device # x.device
  <2>1. config'.regs[q.device] = config.regs[q.device]
    BY <1>3, <1>4, <1>8
  <2> QED
    BY <1>5, <1>6, <2>1
<1> QED
  BY <1>7, <1>8

\* What MovesOnlyLater asks of a step.
Moves ==
  revision' > revision =>
    \A q \in Additions : ~ Has(config, q) /\ Has(config', q) =>
      \A area \in Areas :
        MovedUp(config, Table(config, area), Table(config', area), q.device,
                IF area = q.register.area THEN q.register.words ELSE 0)

LEMMA StepMoves == ConfigInv /\ [ConfigNext]_configVars => Moves
<1> SUFFICES ASSUME ConfigInv, [ConfigNext]_configVars, revision' > revision,
                    NEW q \in Additions, ~ Has(config, q), Has(config', q),
                    NEW area \in Areas
             PROVE  MovedUp(config, Table(config, area), Table(config', area), q.device,
                            IF area = q.register.area THEN q.register.words ELSE 0)
  BY DEF Moves
<1>1. revision \in Nat /\ ~ (revision > revision) /\ ~ (0 > revision)
  BY DEF ConfigInv
<1>2. PICK x \in Additions : HotAdd(x)
  <2>1. revision' # revision /\ revision' # 0
    BY <1>1
  <2>2. ~ Stop /\ ~ Load /\ ~ UNCHANGED configVars
    BY <2>1 DEF Stop, Load, configVars
  <2> QED
    BY <2>2 DEF ConfigNext
<1>3. /\ q.device \in DeviceSet /\ q.device = x.device /\ q.register = x.register
      /\ config' \in Config /\ config' = WithRegister(config, x)
  BY <1>2, AddedIsNew
<1>4. /\ config \in Config /\ UniqueSensors(config)
      /\ x.register \in Register /\ x.device \in DeviceSet
  BY <1>3, AdditionsAssumption DEF ConfigInv, Valid
<1>5. MovedUp(config, Table(config, area), Table(config', area), x.device,
              Behind(x.register, area))
  <2>1. PICK n : n = config'
    OBVIOUS
  <2>2. MovedUp(config, Table(config, area), Table(n, area), x.device,
                Behind(x.register, area))
    BY <1>3, <1>4, <2>1, TableGrows
  <2> QED
    BY <2>1, <2>2
<1>6. Behind(x.register, area) = IF area = q.register.area THEN q.register.words ELSE 0
  BY <1>3 DEF Behind
<1> QED
  BY <1>3, <1>5, <1>6

\* An added register moves the addresses of later devices and of computed
\* sensors in its area up by its width, and no others: true of any devices and
\* registers, and of the registers an operator adds while masters write.
THEOREM AdditionsMoveLater == Spec => MovesOnlyLater
<1>1. [][Moves]_vars => MovesOnlyLater
  BY PTL DEF MovesOnlyLater, Moves
<1>2. ConfigInv /\ [ConfigNext]_configVars => [Moves]_vars
  BY StepMoves
<1> QED
  BY <1>1, <1>2, ServerRunsConfig, ConfigInvariant, PTL DEF ConfigSpec

-----------------------------------------------------------------------------
(* The Redfish service *)


\* A step is one of the server, or a PATCH is accepted or refused.
LEMMA RedfishSteps ==
  ASSUME [RedfishNext]_redfishVars
  PROVE  \/ [Next]_vars
         \/ \E w \in Writes, d \in DeviceSet, s \in Sensors,
               v \in {<<>>} \cup {<<x>> : x \in Readings} : Patch(w, d, s, v)
<1>1. CASE \E q \in Additions : HotAdd(q) /\ UNCHANGED <<request, image, store>>
  BY <1>1 DEF Next
<1>2. CASE StopServer /\ store' = EmptyStore
  BY <1>2 DEF Next
<1>3. CASE Load /\ UNCHANGED <<request, image, store>>
  BY <1>3 DEF Next
<1>4. CASE \E w \in Writes : /\ Master(w) \/ Forward(w) \/ Execute(w)
                                \/ Acknowledge(w) \/ Failed(w)
                             /\ UNCHANGED store
  BY <1>4 DEF Next
<1>5. ASSUME NEW d \in DeviceSet, Poll(d)
      PROVE  UNCHANGED vars
  BY <1>5 DEF Poll, configVars, vars
<1>6. CASE UNCHANGED redfishVars
  BY <1>6 DEF redfishVars, vars
<1> QED
  BY <1>1, <1>2, <1>3, <1>4, <1>5, <1>6 DEF RedfishNext

\* A PATCH changes its request at most.
LEMMA PatchChanges ==
  ASSUME NEW w, NEW d, NEW s, NEW v, Patch(w, d, s, v)
  PROVE  UNCHANGED configVars /\ UNCHANGED image /\ up
  BY DEF Patch

\* With both services every behaviour is one of HotConfig.
THEOREM RedfishRunsConfig == RedfishSpec => ConfigSpec
<1>1. RedfishInit => ConfigInit
  BY DEF RedfishInit, Init
<1>2. [RedfishNext]_redfishVars => [ConfigNext]_configVars
  <2> SUFFICES ASSUME [RedfishNext]_redfishVars PROVE [ConfigNext]_configVars
    OBVIOUS
  <2>1. CASE [Next]_vars
    BY <2>1, ServerConfigStep
  <2>2. CASE ~ [Next]_vars
    BY <2>2, RedfishSteps, PatchChanges
  <2> QED
    BY <2>1, <2>2
<1> QED
  BY <1>1, <1>2, PTL DEF RedfishSpec, ConfigSpec

\* With PATCH requests too, registers share no word, a file that was written
\* whole loads, and every word has its address.
THEOREM RedfishConfigValid ==
  RedfishSpec => [](WordsDisjoint /\ FileLoads /\ OneAddressPerWord)
  BY RedfishRunsConfig, RegistersApart, WholeFilesLoad, ConfigInvariant,
     ValidTable, PTL

\* An added register moves the addresses of later devices and of computed
\* sensors in its area, and no others, whatever is patched meanwhile.
THEOREM RedfishAdditionsMove == RedfishSpec => MovesOnlyLater
<1>1. [][Moves]_vars => MovesOnlyLater
  BY PTL DEF MovesOnlyLater, Moves
<1>2. ConfigInv /\ [ConfigNext]_configVars => [Moves]_vars
  BY StepMoves
<1> QED
  BY <1>1, <1>2, RedfishRunsConfig, ConfigInvariant, PTL DEF ConfigSpec

-----------------------------------------------------------------------------
(* Where writes go *)

\* The words that writes can carry.
Carried == Words \cup (0..Top) \cup {0, 1}

\* The way back through a scale gives a fraction.
LEMMA FractionTyped ==
  ASSUME NEW c, NEW s \in Sensors, NEW reading \in Int
  PROVE  LET raw == ReverseScale(c, s, reading) IN
         raw.num \in Int /\ raw.den \in Nat \ {0}
<1>1. /\ Unit \in Nat \ {0} /\ Factor[s] \in Int /\ Offset[s] \in Int
  BY ScaleAssumption
<1>2. ASSUME NEW num \in Int, NEW den \in Int \ {0}, NEW short
      PROVE  LET q == Quotient(num, den, short) IN q.num \in Int /\ q.den \in Nat \ {0}
  BY DEF Quotient
<1>3. CASE s \in c.pipes \ Late /\ Factor[s] # 0
  <2>1. ReverseScale(c, s, reading)
          = Quotient(reading - Offset[s], Factor[s], <<s, reading>> \in Short)
    BY <1>3 DEF ReverseScale
  <2>2. reading - Offset[s] \in Int /\ Factor[s] \in Int \ {0}
    BY <1>1, <1>3
  <2> QED
    BY <1>2, <2>1, <2>2
<1>4. CASE ~ (s \in c.pipes \ Late /\ Factor[s] # 0)
  <2>1. ReverseScale(c, s, reading) = Quotient(reading, Unit, FALSE)
    BY <1>4 DEF ReverseScale
  <2>2. Unit \in Int \ {0}
    BY <1>1
  <2> QED
    BY <1>2, <2>1, <2>2
<1> QED
  BY <1>3, <1>4

\* What PATCH sends is a word.
LEMMA RawWordTyped ==
  ASSUME NEW area, NEW c, NEW s \in Sensors, NEW reading \in Int
  PROVE  RawWord(area, ReverseScale(c, s, reading)) \in Carried
<1> DEFINE raw == ReverseScale(c, s, reading)
<1>1. raw.num \in Int /\ raw.den \in Nat \ {0}
  BY FractionTyped
<1> HIDE DEF raw
<1>2. CASE area = "coil" \/ raw.num <= 0
  <2>1. RawWord(area, raw) \in {0, 1}
    BY <1>2 DEF RawWord
  <2> QED
    BY <2>1 DEF Carried, raw
<1>3. CASE ~ (area = "coil" \/ raw.num <= 0)
  <2> DEFINE x == Truncated(raw)
             m == IF raw.short THEN raw.num - 1 ELSE raw.num
  <2>1. m \in Nat
    BY <1>1, <1>3
  <2> HIDE DEF m
  <2>2. m \div raw.den \in Nat
    BY <1>1, <2>1
  <2>3. x \in Nat
    BY <2>2 DEF m, Truncated
  <2>4. RawWord(area, raw) = IF x > Top THEN Top ELSE x
    BY <1>3 DEF RawWord
  <2> HIDE DEF x
  <2>5. RawWord(area, raw) \in 0..Top
    BY <2>3, <2>4, ScaleAssumption
  <2> QED
    BY <2>5 DEF Carried, raw
<1> QED
  BY <1>2, <1>3

\* A PATCH that waits for its device has the device of its URL.
IsPatch(r) == r.st \in {"pending", "sent"} /\ r.by = "redfish" =>
                "url" \in DOMAIN r /\ r.url = r.device

PatchInv == \A w \in Writes : IsPatch(request[w])

RedfishInv == ServerInv(Carried) /\ PatchInv

\* What is forwarded or executed is the same PATCH.
LEMMA SamePatch ==
  ASSUME NEW V, NEW r, IsWrite(r, V), IsPatch(r), r.st \in {"pending", "sent"},
         NEW n, NEW t,
         n = [r EXCEPT !.executed = TRUE] \/ n = [r EXCEPT !.st = "sent", !.target = t]
  PROVE  IsPatch(n)
<1>1. "by" \in DOMAIN r /\ "device" \in DOMAIN r /\ r = [f \in DOMAIN r |-> r[f]]
  BY DEF IsWrite, Fields
<1>2. CASE n = [r EXCEPT !.executed = TRUE]
  BY <1>1, <1>2 DEF IsPatch
<1>3. CASE n = [r EXCEPT !.st = "sent", !.target = t]
  BY <1>1, <1>3 DEF IsPatch
<1> QED
  BY <1>2, <1>3

\* Steps of the server keep it.
LEMMA PatchInvStep ==
  ASSUME NEW V, ServerInv(V), PatchInv, [Next]_vars
  PROVE  PatchInv'
<1> SUFFICES ASSUME NEW x \in Writes PROVE IsPatch(request'[x])
  BY DEF PatchInv, IsPatch
<1>1. IsPatch(request[x]) /\ RequestInv(request[x], V)
  BY DEF PatchInv, ServerInv
<1>2. DOMAIN request = Writes
  BY DEF ServerInv
<1>3. CASE UNCHANGED request
  BY <1>1, <1>3
<1>4. CASE StopServer
  <2>1. request'[x] = CASE request[x].st \in {"pending", "acknowledged"} -> [st |-> "dropped"]
                        [] request[x].st \in {"sent", "failed"} ->
                             [request[x] EXCEPT !.st = "lost"]
                        [] OTHER -> request[x]
    BY <1>4 DEF StopServer
  <2>2. CASE request[x].st \in {"pending", "acknowledged"}
    BY <2>1, <2>2 DEF IsPatch
  <2>3. CASE request[x].st \in {"sent", "failed"}
    <3>1. IsWrite(request[x], V) /\ request'[x] = [request[x] EXCEPT !.st = "lost"]
      BY <1>1, <2>1, <2>3 DEF RequestInv
    <3>2. request'[x].st = "lost"
      BY <3>1 DEF IsWrite, Fields
    <3> QED
      BY <3>2 DEF IsPatch
  <2>4. CASE request[x].st \notin {"pending", "acknowledged", "sent", "failed"}
    BY <1>1, <2>1, <2>4
  <2> QED
    BY <2>2, <2>3, <2>4
<1>5. ASSUME NEW w \in Writes, Master(w)
      PROVE  IsPatch(request'[x])
  <2>1. PICK fc, addr, words : Submit(w, fc, addr, words)
    BY <1>5 DEF Master
  <2>2. CASE x # w
    <3>1. request'[x] = request[x]
      BY <1>2, <2>1, <2>2 DEF Submit
    <3> QED
      BY <1>1, <3>1
  <2>3. CASE x = w
    <3>1. CASE Exception(fc, addr) # ""
      <4>1. request'[w] = [st |-> "refused", code |-> Exception(fc, addr)]
        BY <1>2, <2>1, <3>1 DEF Submit
      <4> QED
        BY <2>3, <4>1 DEF IsPatch
    <3>2. CASE Exception(fc, addr) = ""
      <4> DEFINE slot == Table(config, AreaOf(fc))[addr + 1]
                 r == Pending(fc, addr, words, slot.device, slot.sensor)
      <4>1. request'[w] = r
        BY <1>2, <2>1, <3>2 DEF Submit
      <4>2. r.by = "modbus"
        BY DEF Pending
      <4> HIDE DEF r
      <4> QED
        BY <2>3, <4>1, <4>2 DEF IsPatch
    <3> QED
      BY <3>1, <3>2
  <2> QED
    BY <2>2, <2>3
<1>6. ASSUME NEW w \in Writes, Forward(w)
      PROVE  IsPatch(request'[x])
  <2>1. CASE x # w
    <3>1. request'[x] = request[x]
      BY <1>2, <1>6, <2>1 DEF Forward
    <3> QED
      BY <1>1, <3>1
  <2>2. CASE x = w
    <3>1. IsWrite(request[x], V) /\ request[x].st = "pending"
      BY <1>1, <1>6, <2>2 DEF Forward, RequestInv
    <3>2. PICK t : request' = [request EXCEPT ![x].st = "sent", ![x].target = t]
      BY <1>6, <2>2 DEF Forward
    <3>3. request'[x] = [request[x] EXCEPT !.st = "sent", !.target = t]
      BY <1>2, <3>2
    <3> QED
      BY <1>1, <3>1, <3>3, SamePatch
  <2> QED
    BY <2>1, <2>2
<1>7. ASSUME NEW w \in Writes, Execute(w)
      PROVE  IsPatch(request'[x])
  <2>1. CASE x # w
    BY <1>1, <1>7, <2>1 DEF Execute
  <2>2. CASE x = w
    <3>1. IsWrite(request[x], V) /\ request[x].st \in {"sent", "failed", "lost"}
      BY <1>1, <1>7, <2>2 DEF Execute, RequestInv
    <3>2. request'[x] = [request[x] EXCEPT !.executed = TRUE]
      BY <1>2, <1>7, <2>2 DEF Execute
    <3>3. CASE request[x].st = "sent"
      BY <1>1, <3>1, <3>2, <3>3, SamePatch
    <3>4. CASE request[x].st # "sent"
      <4>1. request'[x].st = request[x].st
        BY <3>1, <3>2 DEF IsWrite, Fields
      <4> QED
        BY <3>1, <3>4, <4>1 DEF IsPatch
    <3> QED
      BY <3>3, <3>4
  <2> QED
    BY <2>1, <2>2
<1>8. ASSUME NEW w \in Writes, Acknowledge(w) \/ Failed(w)
      PROVE  IsPatch(request'[x])
  <2>1. CASE x # w
    <3>1. request'[x] = request[x]
      BY <1>2, <1>8, <2>1 DEF Acknowledge, Failed
    <3> QED
      BY <1>1, <3>1
  <2>2. CASE x = w
    <3>1. CASE request[x].st = "sent"
      <4>1. IsWrite(request[x], V)
        BY <1>1, <3>1 DEF RequestInv
      <4>2. \/ request'[x] = [request[x] EXCEPT !.st = "acknowledged"]
            \/ request'[x] = [request[x] EXCEPT !.st = "failed"]
        BY <1>2, <1>8, <2>2, <3>1 DEF Acknowledge, Failed
      <4>3. request'[x].st \in {"acknowledged", "failed"}
        BY <4>1, <4>2 DEF IsWrite, Fields
      <4> QED
        BY <4>3 DEF IsPatch
    <3>2. CASE request[x].st # "sent"
      <4>1. request'[x] = [st |-> "refused", code |-> "ServerDeviceFailure"]
        BY <1>2, <1>8, <2>2, <3>2 DEF Acknowledge, Failed
      <4> QED
        BY <4>1 DEF IsPatch
    <3> QED
      BY <3>1, <3>2
  <2> QED
    BY <2>1, <2>2
<1> QED
  BY <1>3, <1>4, <1>5, <1>6, <1>7, <1>8 DEF Next, vars

\* A PATCH that is accepted fits the devices, and has their URL.
LEMMA PatchKeeps ==
  ASSUME RedfishInv, NEW w \in Writes, NEW d \in DeviceSet, NEW s \in Sensors,
         NEW v \in {<<>>} \cup {<<x>> : x \in Readings}, Patch(w, d, s, v)
  PROVE  RedfishInv'
<1>1. ServerInv(Carried) /\ PatchInv
  BY DEF RedfishInv
<1>2. UNCHANGED configVars /\ image' \in [Cells -> Carried] /\ up
  BY <1>1, PatchChanges DEF ServerInv
<1>3. PICK r : /\ RequestInv(r, Carried) /\ IsPatch(r)
               /\ request' = [request EXCEPT ![w] = r]
  <2>1. ASSUME NEW code
        PROVE  RequestInv(Refusal(code), Carried) /\ IsPatch(Refusal(code))
    BY DEF Refusal, RequestInv, IsPatch, Stages
  <2>2. CASE v = <<>> \/ Find(Views(config, store), s) = {}
    BY <2>1, <2>2 DEF Patch
  <2>3. CASE ~ (v = <<>> \/ Find(Views(config, store), s) = {})
    <3>1. PICK u \in Find(Views(config, store), s) :
             request' = [request EXCEPT ![w] =
               IF u.computed \/ u.access # "read_write" \/ u.area \notin {"holding", "coil"}
               THEN Refusal("405")
               ELSE PendingPatch(d, v[1], IF u.area = "coil" THEN "coil" ELSE "word",
                      RawWord(u.area, ReverseScale(config, s, v[1])), Routed(d, s), s)]
      BY <2>3 DEF Patch
    <3> DEFINE word == RawWord(u.area, ReverseScale(config, s, v[1]))
               fc == IF u.area = "coil" THEN "coil" ELSE "word"
               reading == v[1]
               p == PendingPatch(d, reading, fc, word, d, s)
    <3>2. word \in Carried
      <4>1. v[1] \in Int
        BY <2>3, ScaleAssumption
      <4> QED
        BY <4>1, RawWordTyped
    <3>3. RequestInv(p, Carried) /\ IsPatch(p)
      <4> HIDE DEF word, fc, reading
      <4>1. /\ p.st = "pending" /\ p.url = d /\ p.device = d /\ p.words[1] = word
            /\ "url" \in DOMAIN p /\ Fields \subseteq DOMAIN p
            /\ p = [f \in DOMAIN p |-> p[f]]
        BY DEF PendingPatch, Fields
      <4> HIDE DEF p
      <4>2. IsWrite(p, Carried)
        BY <3>2, <4>1 DEF IsWrite
      <4> QED
        BY <1>2, <4>1, <4>2 DEF RequestInv, IsPatch, Stages
    <3>4. request' = [request EXCEPT ![w] = p] \/ request' = [request EXCEPT ![w] = Refusal("405")]
      BY <3>1 DEF Routed
    <3> QED
      BY <2>1, <3>3, <3>4
  <2> QED
    BY <2>2, <2>3
<1>4. ServerInv(Carried)'
  BY <1>1, <1>2, <1>3, OneRequest
<1>5. PatchInv'
  <2> SUFFICES ASSUME NEW x \in Writes PROVE IsPatch(request'[x])
    BY DEF PatchInv, IsPatch
  <2>1. DOMAIN request = Writes /\ IsPatch(request[x])
    BY <1>1 DEF ServerInv, PatchInv
  <2>2. request'[x] = r \/ request'[x] = request[x]
    BY <1>3, <2>1
  <2> QED
    BY <1>3, <2>1, <2>2
<1> QED
  BY <1>4, <1>5 DEF RedfishInv

\* The invariant of the server, with PATCH requests beside the writes of masters.
THEOREM RedfishInvariant == RedfishSpec => []RedfishInv
<1>1. RedfishInit => RedfishInv
  <2> SUFFICES ASSUME RedfishInit PROVE RedfishInv
    OBVIOUS
  <2>1. Init /\ 0 \in Carried
    BY DEF RedfishInit, Carried
  <2>2. ServerInv(Carried)
    BY <2>1, ServerInvInit
  <2>3. PatchInv
    BY <2>1 DEF Init, Idle, PatchInv, IsPatch
  <2> QED
    BY <2>2, <2>3 DEF RedfishInv
<1>2. RedfishInv /\ ConfigInv /\ [RedfishNext]_redfishVars => RedfishInv'
  <2> SUFFICES ASSUME RedfishInv, ConfigInv, [RedfishNext]_redfishVars
               PROVE  RedfishInv'
    OBVIOUS
  <2>1. CASE [Next]_vars
    <3>1. ServerInv(Carried) /\ PatchInv /\ Words \subseteq Carried
      BY DEF RedfishInv, Carried
    <3>2. ServerInv(Carried)'
      BY <2>1, <3>1, ServerInvStep
    <3>3. PatchInv'
      BY <2>1, <3>1, PatchInvStep
    <3> QED
      BY <3>2, <3>3 DEF RedfishInv
  <2>2. CASE ~ [Next]_vars
    BY <2>2, RedfishSteps, PatchKeeps
  <2> QED
    BY <2>1, <2>2
<1> QED
  BY <1>1, <1>2, RedfishRunsConfig, ConfigInvariant, PTL DEF RedfishSpec

\* Writes of masters and PATCH requests hit the register they were resolved to,
\* and no other.
THEOREM RedfishWritesHit == RedfishSpec => WriteHitsItsSensor
<1>1. RedfishInv /\ ConfigInv /\ WordsDisjoint /\ [RedfishNext]_redfishVars => [Hits]_vars
  <2> SUFFICES ASSUME RedfishInv, ConfigInv, WordsDisjoint, [RedfishNext]_redfishVars
               PROVE  [Hits]_vars
    OBVIOUS
  <2>1. CASE [Next]_vars
    BY <2>1, StepHits DEF RedfishInv
  <2>2. CASE ~ [Next]_vars
    BY <2>2, RedfishSteps, PatchChanges DEF Hits
  <2> QED
    BY <2>1, <2>2
<1>2. [][Hits]_vars => WriteHitsItsSensor
  BY PTL DEF WriteHitsItsSensor, Hits, IsHit
<1> QED
  BY <1>1, <1>2, RedfishInvariant, RedfishRunsConfig, ConfigInvariant, RegistersApart,
     PTL DEF RedfishSpec
-----------------------------------------------------------------------------
(* The views *)

RegisterView(c, st, p) ==
  View(c, st, p[1], At(c, p).sensor, FALSE, At(c, p).area, At(c, p).access)

ComputedView(c, st, j) ==
  View(c, st, "", c.computed[j].sensor, TRUE, "input", "read")

AllViews(c, st) == {RegisterView(c, st, p) : p \in Places(c)}
                   \cup {ComputedView(c, st, j) : j \in DOMAIN c.computed}

\* There is a view of each register and of each computed sensor, and no other.
LEMMA ViewsAre ==
  ASSUME NEW c \in Config, NEW st
  PROVE  /\ Views(c, st) \in Seq(AllViews(c, st))
         /\ ToSet(Views(c, st)) = AllViews(c, st)
<1> DEFINE S == AllViews(c, st)
           Q == Seq(S)
           view(d, k) == View(c, st, d, c.regs[d][k].sensor, FALSE, c.regs[d][k].area,
                              c.regs[d][k].access)
           part(d) == [k \in DOMAIN c.regs[d] |-> view(d, k)]
           parts == [i \in DOMAIN Devices |-> part(Devices[i])]
           rest == [j \in DOMAIN c.computed |-> ComputedView(c, st, j)]
<1>1. Views(c, st) = FlattenSeq(parts) \o rest
  BY Zenon DEF Views, ComputedView
<1>2. ASSUME NEW d \in DeviceSet, NEW k \in DOMAIN c.regs[d]
      PROVE  /\ <<d, k>> \in Places(c) /\ view(d, k) = RegisterView(c, st, <<d, k>>)
             /\ view(d, k) \in S
  <2>1. <<d, k>> \in Places(c)
    BY PlaceFields
  <2>2. At(c, <<d, k>>) = c.regs[d][k]
    BY DEF At
  <2>3. view(d, k) = RegisterView(c, st, <<d, k>>)
    BY <2>2 DEF RegisterView
  <2> QED
    BY <2>1, <2>3 DEF AllViews
<1>3. ASSUME NEW d \in DeviceSet
      PROVE  /\ part(d) \in Q
             /\ \A x : x \in ToSet(part(d)) <=> \E k \in DOMAIN c.regs[d] : x = view(d, k)
  <2>1. c.regs[d] \in Seq(Register)
    BY ConfigFields
  <2>2. \A k \in DOMAIN c.regs[d] : view(d, k) \in S
    BY <1>2
  <2> HIDE DEF S, view
  <2>3. part(d) \in Seq(S)
    BY <2>1, <2>2
  <2> QED
    BY <2>3 DEF ToSet
<1>4. rest \in Seq(S) /\ ToSet(rest) = {ComputedView(c, st, j) : j \in DOMAIN c.computed}
  <2>1. c.computed \in Seq([sensor : Sensors, inputs : Seq(Sensors)])
    BY ConfigFields
  <2>2. \A j \in DOMAIN c.computed : ComputedView(c, st, j) \in S
    BY DEF AllViews
  <2>3. PICK n \in Nat : DOMAIN c.computed = 1..n
    BY <2>1
  <2>4. rest \in Seq(S)
    <3> DEFINE cv(j) == ComputedView(c, st, j)
    <3>1. \A j \in 1..n : cv(j) \in S
      BY <2>2, <2>3
    <3> HIDE DEF S, cv
    <3>2. [j \in 1..n |-> cv(j)] \in Seq(S)
      BY <3>1
    <3> QED
      BY <2>3, <3>2 DEF cv
  <2> QED
    BY <2>4 DEF ToSet
<1>5. parts \in Seq(Q) /\ DOMAIN parts = DOMAIN Devices
  <2>1. Devices \in Seq(DeviceSet) /\ \A i \in DOMAIN Devices : Devices[i] \in DeviceSet
    BY DevicesAreDistinct DEF DeviceSet
  <2>2. \A i \in DOMAIN Devices : part(Devices[i]) \in Q
    BY <1>3, <2>1
  <2> HIDE DEF Q, part
  <2> QED
    BY <2>1, <2>2
<1> DEFINE all == FlattenSeq(parts)
<1>6. /\ all \in Seq(S)
      /\ \A x : x \in ToSet(all) <=> \E i \in 1..Len(parts) : x \in ToSet(parts[i])
  <2> HIDE DEF S, parts
  <2> QED
    BY <1>5, FlattenMembers
<1>7. ASSUME NEW x
      PROVE  x \in ToSet(all) <=> \E p \in Places(c) : x = RegisterView(c, st, p)
  <2>1. DOMAIN parts = 1..Len(parts)
    <3> HIDE DEF parts, Q
    <3> QED
      BY <1>5
  <2>2. x \in ToSet(all) <=>
          \E i \in DOMAIN Devices : x \in ToSet(part(Devices[i]))
    BY <1>5, <1>6, <2>1
  <2>3. x \in ToSet(all) <=> \E d \in DeviceSet : x \in ToSet(part(d))
    BY <2>2 DEF DeviceSet
  <2>4. x \in ToSet(all) <=> \E d \in DeviceSet : \E k \in DOMAIN c.regs[d] : x = view(d, k)
    BY <1>3, <2>3
  <2> HIDE DEF all, view
  <2>5. x \in ToSet(all) <=> \E d \in DeviceSet : \E k \in DOMAIN c.regs[d] :
                               x = RegisterView(c, st, <<d, k>>)
    BY <1>2, <2>4
  <2>6. ASSUME NEW p \in Places(c)
        PROVE  \E d \in DeviceSet : \E k \in DOMAIN c.regs[d] : p = <<d, k>>
    BY PlaceFields
  <2>7. ASSUME NEW d \in DeviceSet, NEW k \in DOMAIN c.regs[d]
        PROVE  <<d, k>> \in Places(c)
    BY PlaceFields
  <2> QED
    BY <2>5, <2>6, <2>7
<1>8. ToSet(all \o rest) = ToSet(all) \cup ToSet(rest) /\ all \o rest \in Seq(S)
  <2> HIDE DEF all, rest, S
  <2> QED
    BY <1>4, <1>6, JoinedMembers
<1>9. ToSet(all) = {RegisterView(c, st, p) : p \in Places(c)}
  BY <1>7
<1> QED
  BY <1>1, <1>4, <1>8, <1>9 DEF AllViews

\* What its view says of a sensor.
LEMMA ViewFields ==
  ASSUME NEW c, NEW st
  PROVE  /\ \A p \in Places(c) : /\ RegisterView(c, st, p).sensor = At(c, p).sensor
                                 /\ RegisterView(c, st, p).device = p[1]
                                 /\ RegisterView(c, st, p).computed = FALSE
         /\ \A j \in DOMAIN c.computed :
              /\ ComputedView(c, st, j).sensor = c.computed[j].sensor
              /\ ComputedView(c, st, j).device = ""
              /\ ComputedView(c, st, j).computed = TRUE
  BY DEF RegisterView, ComputedView, View

\* No two views have the same identifier.
LEMMA ViewsDiffer ==
  ASSUME NEW c \in Config, UniqueSensors(c), NEW st,
         NEW u \in AllViews(c, st), NEW v \in AllViews(c, st), u.sensor = v.sensor
  PROVE  u = v
<1>1. \A p \in Places(c) : At(c, p).sensor \in KnownSensors(c)
  BY DEF KnownSensors
<1>2. \A j \in DOMAIN c.computed : c.computed[j].sensor \in Ids(c.computed)
  BY DEF Ids
<1>3. /\ \A p \in Places(c) : RegisterView(c, st, p).sensor = At(c, p).sensor
      /\ \A j \in DOMAIN c.computed :
           ComputedView(c, st, j).sensor = c.computed[j].sensor
  BY DEF RegisterView, ComputedView, View
<1>4. \A p \in Places(c) : \A j \in DOMAIN c.computed :
        At(c, p).sensor # c.computed[j].sensor
  BY <1>1, <1>2 DEF UniqueSensors
<1>5. CASE \E p \in Places(c) : u = RegisterView(c, st, p)
  <2>1. PICK p \in Places(c) : u = RegisterView(c, st, p)
    BY <1>5
  <2>2. u.sensor = At(c, p).sensor
    BY <2>1, <1>3
  <2>3. \A j \in DOMAIN c.computed : v # ComputedView(c, st, j)
    BY <1>4, <2>2, <1>3
  <2>4. PICK q \in Places(c) : v = RegisterView(c, st, q)
    BY <2>3 DEF AllViews
  <2>5. v.sensor = At(c, q).sensor
    BY <2>4, <1>3
  <2>6. p = q
    BY <2>2, <2>5 DEF UniqueSensors
  <2> QED
    BY <2>1, <2>4, <2>6
<1>6. CASE \E j \in DOMAIN c.computed : u = ComputedView(c, st, j)
  <2>1. PICK j \in DOMAIN c.computed : u = ComputedView(c, st, j)
    BY <1>6
  <2>2. u.sensor = c.computed[j].sensor
    BY <2>1, <1>3
  <2>3. \A p \in Places(c) : v # RegisterView(c, st, p)
    BY <1>4, <2>2, <1>3
  <2>4. PICK i \in DOMAIN c.computed : v = ComputedView(c, st, i)
    BY <2>3 DEF AllViews
  <2>5. v.sensor = c.computed[i].sensor
    BY <2>4, <1>3
  <2>6. j = i
    BY <2>2, <2>5 DEF UniqueSensors
  <2> QED
    BY <2>1, <2>4, <2>6
<1> QED
  BY <1>5, <1>6 DEF AllViews

\* A search among views of which no two have the same identifier finds the one
\* there is.
LEMMA FindsTheView ==
  ASSUME NEW S, NEW q \in Seq(S), NEW v \in ToSet(q),
         \A u \in ToSet(q) : u.sensor = v.sensor => u = v
  PROVE  Find(q, v.sensor) = {v}
<1> DEFINE s == v.sensor
           T == {i \in DOMAIN q : q[i].sensor = s}
           J == {j \in DOMAIN q : /\ q[j].sensor = s
                                  /\ \A k \in 1..(j - 1) : q[k].sensor # s}
<1>1. DOMAIN q = 1..Len(q) /\ Len(q) \in Nat
  OBVIOUS
<1>2. T # {} /\ T \subseteq Nat
  BY <1>1 DEF ToSet
<1>3. \A i \in T : q[i] = v
  BY DEF ToSet
<1>4. PICK x \in T : \A y \in T : x <= y
  <2> HIDE DEF T
  <2> QED
    BY <1>2, LeastMember
<1>5. x \in J
  <2>1. ASSUME NEW k \in 1..(x - 1) PROVE q[k].sensor # s
    <3>1. k \in DOMAIN q /\ ~ (x <= k)
      BY <1>1, <1>4
    <3> QED
      BY <1>4, <3>1
  <2> QED
    BY <1>4, <2>1
<1>6. J \subseteq T
  OBVIOUS
<1>7. Find(q, s) = {q[i] : i \in J}
  BY DEF Find
<1> HIDE DEF J, T
<1>8. {q[i] : i \in J} = {v}
  BY <1>3, <1>5, <1>6
<1> QED
  BY <1>7, <1>8

\* A chassis shows what belongs to its device or is computed.
LEMMA ChassisMembers ==
  ASSUME NEW S, NEW views \in Seq(S), NEW d
  PROVE  /\ ChassisViews(views, d) \in Seq(S)
         /\ ToSet(ChassisViews(views, d)) =
              {v \in ToSet(views) : v.device = d \/ v.computed}
<1> DEFINE T == {v \in ToSet(views) : v.device = d \/ v.computed}
<1>1. ASSUME NEW i \in DOMAIN views
      PROVE  views[i] \in T <=> views[i].device = d \/ views[i].computed
  <2>1. views[i] \in ToSet(views)
    BY DEF ToSet
  <2> QED
    BY Zenon, <2>1
<1>2. ChassisViews(views, d) = Chosen(views, T)
  <2>1. \A i \in DOMAIN views :
          (IF views[i].device = d \/ views[i].computed THEN <<views[i]>> ELSE <<>>)
            = (IF views[i] \in T THEN <<views[i]>> ELSE <<>>)
    BY Zenon, <1>1
  <2> HIDE DEF T
  <2>2. [i \in DOMAIN views |-> IF views[i].device = d \/ views[i].computed
                                THEN <<views[i]>> ELSE <<>>]
          = [i \in DOMAIN views |-> IF views[i] \in T THEN <<views[i]>> ELSE <<>>]
    BY Zenon, <2>1
  <2> QED
    BY Zenon, <2>2 DEF ChassisViews, Chosen
<1>3. T = ToSet(views) \cap T
  OBVIOUS
<1> HIDE DEF T
<1>4. Chosen(views, T) \in Seq(S) /\ ToSet(Chosen(views, T)) = T
  BY <1>3, ChosenMembers
<1> QED
  BY <1>2, <1>4 DEF T

\* A view in Thermal or Power is one of the same chassis.
LEMMA KindMembers ==
  ASSUME NEW S, NEW views \in Seq(S), NEW d, NEW kind
  PROVE  /\ OfKind(views, d, kind) \in Seq(S)
         /\ ToSet(OfKind(views, d, kind)) \subseteq ToSet(ChassisViews(views, d))
<1> DEFINE q == ChassisViews(views, d)
           T == {v \in ToSet(q) : KindOf[v.sensor] = kind}
<1>1. q \in Seq(S)
  BY ChassisMembers
<1> HIDE DEF q
<1>2. ASSUME NEW i \in DOMAIN q
      PROVE  q[i] \in T <=> KindOf[q[i].sensor] = kind
  BY DEF ToSet
<1> HIDE DEF T
<1>3. [i \in DOMAIN q |-> IF KindOf[q[i].sensor] = kind THEN <<q[i]>> ELSE <<>>]
        = [i \in DOMAIN q |-> IF q[i] \in T THEN <<q[i]>> ELSE <<>>]
  BY <1>2
<1>4. OfKind(views, d, kind) = Chosen(q, T)
  BY Zenon, <1>3 DEF OfKind, Chosen, q
<1>5. Chosen(q, T) \in Seq(S) /\ ToSet(Chosen(q, T)) \subseteq ToSet(q)
  BY <1>1, ChosenMembers
<1> QED
  BY <1>4, <1>5 DEF q

\* The links of a chassis lead to the view, and the view found is this one.
Reached(views, d, v) == /\ <<d, v.sensor>> \in ToSet(SensorCollection(views, d))
                        /\ Sensor(views, d, v.sensor) = {v}

\* A valid configuration has every sensor in its place.
LEMMA ValidViews ==
  ASSUME NEW c \in Config, UniqueSensors(c), NEW st, NEW d,
         NEW v \in ToSet(ChassisViews(Views(c, st), d))
  PROVE  Reached(Views(c, st), d, v)
<1> DEFINE S == AllViews(c, st)
           views == Views(c, st)
           q == ChassisViews(views, d)
<1>1. views \in Seq(S) /\ ToSet(views) = S
  BY ViewsAre
<1>2. q \in Seq(S) /\ ToSet(q) \subseteq ToSet(views)
  <2> HIDE DEF S, views
  <2> QED
    BY <1>1, ChassisMembers
<1>3. \A u \in ToSet(q) : u.sensor = v.sensor => u = v
  <2>1. \A u \in ToSet(q) : u \in S
    BY <1>1, <1>2
  <2> HIDE DEF q, views
  <2> QED
    BY <2>1, ViewsDiffer DEF q, views
<1>4. Find(q, v.sensor) = {v}
  <2> HIDE DEF S, q
  <2> QED
    BY <1>2, <1>3, FindsTheView DEF q
<1>5. <<d, v.sensor>> \in ToSet(SensorCollection(views, d))
  <2>1. PICK i \in DOMAIN q : v = q[i]
    BY DEF ToSet
  <2>2. SensorCollection(views, d) = [j \in DOMAIN q |-> <<d, q[j].sensor>>]
    BY Zenon DEF SensorCollection
  <2> HIDE DEF q, views
  <2>3. /\ i \in DOMAIN SensorCollection(views, d)
        /\ SensorCollection(views, d)[i] = <<d, v.sensor>>
    BY <2>1, <2>2
  <2> QED
    BY <2>3 DEF ToSet
<1> QED
  BY <1>4, <1>5 DEF Sensor, Reached

\* Every sensor of a valid configuration is reached along the links.
LEMMA ValidLinks == ConfigInv => EverySensorReachable
<1> SUFFICES ASSUME ConfigInv PROVE EverySensorReachable
  OBVIOUS
<1> DEFINE views == Views(config, store)
<1>1. config \in Config /\ UniqueSensors(config)
  BY DEF ConfigInv, Valid
<1>2. views \in Seq(AllViews(config, store))
  BY <1>1, ViewsAre
<1>3. ASSUME NEW d, NEW v \in ToSet(ChassisViews(views, d))
      PROVE  /\ <<d, v.sensor>> \in ToSet(SensorCollection(views, d))
             /\ Sensor(views, d, v.sensor) = {v}
  BY <1>1, ValidViews DEF Reached
<1> HIDE DEF views
<1>4. ASSUME NEW v \in ToSet(views), NEW d \in {e \in ToSet(ChassisCollection) :
                                                  v.computed \/ v.device = e}
      PROVE  /\ <<d, v.sensor>> \in ToSet(SensorCollection(views, d))
             /\ Sensor(views, d, v.sensor) = {v}
  <2>1. v \in ToSet(ChassisViews(views, d))
    <3>1. v \in {u \in ToSet(views) : u.device = d \/ u.computed}
      BY Zenon
    <3> QED
      BY <1>2, <3>1, ChassisMembers
  <2> QED
    BY <1>3, <2>1
<1>5. ASSUME NEW d \in DeviceSet,
             NEW v \in ToSet(Thermal(views, d).temps \o Thermal(views, d).fans \o Power(views, d))
      PROVE  /\ Sensor(views, d, v.sensor) = {v}
             /\ State(v)[1] = "Enabled" => ChassisState(views, d)[1] = "Enabled"
  <2> DEFINE S == AllViews(config, store)
             t == Thermal(views, d).temps
             f == Thermal(views, d).fans
             p == Power(views, d)
             q == ToSet(ChassisViews(views, d))
  <2>1. /\ t \in Seq(S) /\ f \in Seq(S) /\ p \in Seq(S)
        /\ ToSet(t) \subseteq q /\ ToSet(f) \subseteq q /\ ToSet(p) \subseteq q
    <3>1. /\ t = OfKind(views, d, "Temperature") /\ f = OfKind(views, d, "Fan")
          /\ p = OfKind(views, d, "Voltage")
      BY DEF Thermal, Power
    <3> HIDE DEF t, f, p, q, S
    <3>2. \A kind : /\ OfKind(views, d, kind) \in Seq(S)
                    /\ ToSet(OfKind(views, d, kind)) \subseteq q
      BY <1>2, KindMembers DEF q, S
    <3> QED
      BY <3>1, <3>2
  <2> HIDE DEF t, f, p, S
  <2>2. t \o f \in Seq(S) /\ ToSet(t \o f) = ToSet(t) \cup ToSet(f)
    BY <2>1, JoinedMembers
  <2>3. ToSet(t \o f \o p) = ToSet(t) \cup ToSet(f) \cup ToSet(p)
    <3> DEFINE a == t \o f
    <3>1. a \in Seq(S) /\ ToSet(a) = ToSet(t) \cup ToSet(f)
      BY <2>2
    <3> HIDE DEF a
    <3>2. ToSet(a \o p) = ToSet(a) \cup ToSet(p)
      BY <2>1, <3>1, JoinedMembers
    <3> QED
      BY <3>1, <3>2 DEF a
  <2>4. v \in q
    BY <2>1, <2>3 DEF t, f, p
  <2>5. State(v)[1] = "Enabled" => v.reading # <<>>
    BY DEF State
  <2>6. v.reading # <<>> => ChassisState(views, d)[1] = "Enabled"
    BY <2>4 DEF ChassisState
  <2> QED
    BY <1>3, <2>4, <2>5, <2>6
<1> QED
  BY <1>4, <1>5 DEF EverySensorReachable, views

\* Whatever is added, fails to be saved or comes back with a restart, every
\* sensor is found from the root along the links.
THEOREM SensorsReachable == RedfishSpec => []EverySensorReachable
  BY RedfishRunsConfig, ConfigInvariant, ValidLinks, PTL

\* A request is acknowledged in a step that leaves the configuration alone.
LEMMA AcknowledgeStep ==
  ASSUME NEW V, ServerInv(V), [RedfishNext]_redfishVars, NEW w \in Writes,
         request[w].st = "sent", request'[w].st = "acknowledged"
  PROVE  config' = config
<1>1. request' # request
  OBVIOUS
<1>2. CASE StopServer
  <2>1. request'[w] = [request[w] EXCEPT !.st = "lost"]
    BY <1>2 DEF StopServer
  <2>2. IsWrite(request[w], V)
    BY DEF ServerInv, RequestInv
  <2>3. request'[w].st = "lost"
    BY <2>1, <2>2 DEF IsWrite, Fields
  <2> QED
    BY <2>3
<1>3. ASSUME NEW x \in Writes,
             Master(x) \/ Forward(x) \/ Execute(x) \/ Acknowledge(x) \/ Failed(x)
      PROVE  config' = config
  <2>1. UNCHANGED configVars
    BY <1>3 DEF Master, Submit, Forward, Execute, Acknowledge, Failed
  <2> QED
    BY <2>1 DEF configVars
<1>4. ASSUME NEW x, NEW d, NEW s, NEW v, Patch(x, d, s, v)
      PROVE  config' = config
  BY <1>4, PatchChanges DEF configVars
<1> QED
  BY <1>1, <1>2, <1>3, <1>4 DEF RedfishNext, Poll, configVars, redfishVars

\* A register is listed under its device.
LEMMA RegisterListed ==
  ASSUME NEW c \in Config, UniqueSensors(c), NEW st, NEW p \in Places(c)
  PROVE  Sensor(Views(c, st), p[1], At(c, p).sensor) # {}
<1> DEFINE S == AllViews(c, st)
           views == Views(c, st)
           v == RegisterView(c, st, p)
<1>1. v.sensor = At(c, p).sensor /\ v.device = p[1]
  BY DEF RegisterView, View
<1>2. v \in S
  BY DEF AllViews
<1> HIDE DEF v
<1>3. views \in Seq(S) /\ v \in ToSet(views)
  BY <1>2, ViewsAre
<1>4. v \in ToSet(ChassisViews(views, p[1]))
  <2> HIDE DEF S, views
  <2>1. v \in {u \in ToSet(views) : u.device = p[1] \/ u.computed}
    BY Zenon, <1>1, <1>3
  <2> QED
    BY <1>3, <2>1, ChassisMembers
<1>5. Sensor(views, p[1], v.sensor) = {v}
  <2> DEFINE d == p[1]
  <2>1. v \in ToSet(ChassisViews(Views(c, st), d))
    BY <1>4
  <2> HIDE DEF d
  <2>2. Sensor(Views(c, st), d, v.sensor) = {v}
    <3>1. Reached(Views(c, st), d, v)
      BY <2>1, ValidViews
    <3> QED
      BY <3>1 DEF Reached
  <2> QED
    BY <2>2 DEF d
<1> QED
  BY <1>1, <1>5

\* What PatchedSensorListed says of a step.
AnswerFinds(w) ==
  request[w].st = "sent" /\ request'[w].st = "acknowledged" /\ request[w].by = "redfish"
  => Sensor(Views(config', store'), request[w].url, request[w].sensor) # {}

\* The sensor of a PATCH is still listed under the device of its URL when the
\* device has answered: the handler can rely on it.
THEOREM PatchedStayListed == RedfishSpec => PatchedSensorListed
<1>1. RedfishInv /\ ConfigInv /\ [RedfishNext]_redfishVars
        => [\A w \in Writes : AnswerFinds(w)]_redfishVars
  <2> SUFFICES ASSUME RedfishInv, ConfigInv, [RedfishNext]_redfishVars, NEW w \in Writes,
                      request[w].st = "sent", request'[w].st = "acknowledged",
                      request[w].by = "redfish"
               PROVE  Sensor(Views(config', store'), request[w].url, request[w].sensor) # {}
    BY DEF AnswerFinds
  <2> DEFINE r == request[w]
  <2>1. ServerInv(Carried) /\ PatchInv
    BY DEF RedfishInv
  <2>2. config' = config
    BY <2>1, AcknowledgeStep
  <2>3. r.url = r.device /\ InPlace(r)
    BY <2>1 DEF PatchInv, IsPatch, ServerInv, RequestInv
  <2>4. PICK i \in DOMAIN config.regs[r.device] : config.regs[r.device][i].sensor = r.sensor
    BY <2>3 DEF InPlace
  <2>5. config \in Config /\ UniqueSensors(config)
    BY DEF ConfigInv, Valid
  <2>6. <<r.device, i>> \in Places(config) /\ At(config, <<r.device, i>>).sensor = r.sensor
    <3>1. r.device \in DeviceSet
      BY <2>3 DEF InPlace
    <3> QED
      BY <2>4, <3>1, PlaceFields DEF At
  <2> HIDE DEF r
  <2>7. \A st : \A p \in Places(config) :
          Sensor(Views(config, st), p[1], At(config, p).sensor) # {}
    BY <2>5, RegisterListed
  <2>8. Sensor(Views(config, store'), r.device, r.sensor) # {}
    BY <2>6, <2>7
  <2> QED
    BY <2>2, <2>3, <2>8 DEF r
<1>2. [][\A w \in Writes : AnswerFinds(w)]_redfishVars => PatchedSensorListed
  BY PTL DEF PatchedSensorListed, AnswerFinds
<1> QED
  BY <1>1, <1>2, RedfishInvariant, RedfishRunsConfig, ConfigInvariant, PTL
     DEF RedfishSpec

-----------------------------------------------------------------------------
(* What a poll stores *)

\* What the registers of a device make of the store.
AfterReads(d, st, regs) ==
  FoldLeft(LAMBDA acc, r : [acc EXCEPT ![r.sensor] = <<Polled(d, r)>>], st, regs)

\* No two registers of a list are of the same sensor.
Distinct(regs) == \A i, j \in DOMAIN regs : regs[i].sensor = regs[j].sensor => i = j

IsStored(st) == st = [s \in Sensors |-> st[s]]

\* What holds at first and after each step holds to the end.
LEMMA HoldsToTheEnd ==
  ASSUME NEW n \in Nat, NEW Holds, 0 \in Holds,
         \A k \in 0..(n - 1) : k \in Holds => k + 1 \in Holds
  PROVE  \A k \in 0..n : k \in Holds
BY IntervalInduction

\* Every register read so far has its value.
ReadSoFar(d, regs, k, st) ==
  /\ IsStored(st)
  /\ \A i \in 1..k : st[regs[i].sensor] = <<Polled(d, regs[i])>>

\* A poll stores what it read of each register.
LEMMA ReadsStored ==
  ASSUME NEW d, NEW st, IsStored(st), NEW regs \in Seq(Register),
         Distinct(regs)
  PROVE  /\ IsStored(AfterReads(d, st, regs))
         /\ \A i \in DOMAIN regs :
              AfterReads(d, st, regs)[regs[i].sensor] = <<Polled(d, regs[i])>>
<1> DEFINE n == Len(regs)
           Step(acc, i) == [acc EXCEPT ![regs[i].sensor] = <<Polled(d, regs[i])>>]
           Solved(g) == g = [T \in SUBSET DOMAIN regs |->
                               IF T = {} THEN st ELSE Step(g[T \ {Max(T)}], Max(T))]
           iter == CHOOSE g : Solved(g)
<1>1. DOMAIN regs = 1..n /\ n \in Nat
  OBVIOUS
<1>2. \A i \in 1..n : regs[i].sensor \in Sensors
  <2>1. \A i \in 1..n : regs[i] \in Register
    OBVIOUS
  <2> QED
    BY <2>1 DEF Register
<1>3. AfterReads(d, st, regs) = iter[DOMAIN regs]
  BY Zenon DEF AfterReads, FoldLeft, MapThenFoldSet
<1>4. \E g : Solved(g)
  <2> DEFINE V == {st[s] : s \in Sensors} \cup {<<Polled(d, regs[i])>> : i \in 1..n}
             S == [Sensors -> V]
             step == [p \in S \X (1..n) |-> Step(p[1], p[2])]
  <2>1. st \in S
    BY DEF IsStored
  <2>2. ASSUME NEW x \in S, NEW i \in 1..n PROVE Step(x, i) \in S
    OBVIOUS
  <2>3. step \in [S \X (1..n) -> S]
    <3> HIDE DEF S, n, Step
    <3> QED
      BY <2>2
  <2>4. PICK g \in [SUBSET (1..n) -> S] : Solves(g, n, st, step)
    <3> HIDE DEF S, n, step
    <3> QED
      BY <1>1, <2>1, <2>3, FoldSolution
  <2>5. ASSUME NEW T \in SUBSET (1..n), T # {}
        PROVE  step[<<g[T \ {Max(T)}], Max(T)>>] = Step(g[T \ {Max(T)}], Max(T))
    <3>1. Max(T) \in T
      <4> HIDE DEF n
      <4>1. T \subseteq 0..n
        BY <1>1
      <4> QED
        BY <1>1, <2>5, <4>1, MaxOfNumbers
    <3>2. Max(T) \in 1..n /\ g[T \ {Max(T)}] \in S
      <4> HIDE DEF S, n
      <4> QED
        BY <2>4, <3>1
    <3> HIDE DEF S, n, Step
    <3> QED
      BY <3>2
  <2>6. ASSUME NEW T \in SUBSET (1..n)
        PROVE  g[T] = IF T = {} THEN st ELSE Step(g[T \ {Max(T)}], Max(T))
    <3> HIDE DEF S, n, Step, step
    <3> QED
      BY <2>4, <2>5 DEF Solves
  <2>7. g = [T \in SUBSET (1..n) |-> g[T]]
    <3> HIDE DEF S, n
    <3> QED
      BY <2>4
  <2> HIDE DEF n, Step
  <2>8. Solved(g)
    BY <1>1, <2>6, <2>7
  <2> HIDE DEF Solved
  <2> QED
    BY <2>8
<1>5. Solved(iter)
  <2> HIDE DEF Solved
  <2> QED
    BY <1>4
<1> HIDE DEF iter
<1> DEFINE c == [k \in 0..n |-> iter[1..k]]
<1>6. iter[1..0] = st
  <2>1. 1..0 \in SUBSET DOMAIN regs /\ 1..0 = {}
    OBVIOUS
  <2> QED
    BY <1>5, <2>1
<1>7. ASSUME NEW k \in 0..(n - 1)
      PROVE  iter[1..(k + 1)] = Step(iter[1..k], k + 1)
  <2>1. /\ 1..(k + 1) \in SUBSET (1..n) /\ 1..(k + 1) # {}
        /\ (1..(k + 1)) \ {k + 1} = 1..k
        /\ Max(1..(k + 1)) = k + 1
    <3> HIDE DEF n
    <3> QED
      BY <1>1, FirstPositions
  <2> HIDE DEF n, Step
  <2> QED
    BY <1>1, <1>5, <2>1
<1> DEFINE Holds == {k \in 0..n : ReadSoFar(d, regs, k, iter[1..k])}
<1>8. 0 \in Holds
  BY <1>1, <1>6 DEF ReadSoFar
<1>9. ASSUME NEW k \in 0..(n - 1), k \in Holds PROVE k + 1 \in Holds
  <2>1. PICK x : x = iter[1..k]
    OBVIOUS
  <2>2. PICK y : y = iter[1..(k + 1)]
    OBVIOUS
  <2>3. k + 1 \in 1..n /\ k + 1 \in 0..n /\ k \in Nat
    BY <1>1
  <2>4. /\ IsStored(x) /\ y = [x EXCEPT ![regs[k + 1].sensor] = <<Polled(d, regs[k + 1])>>]
        /\ \A i \in 1..k : x[regs[i].sensor] = <<Polled(d, regs[i])>>
    BY <1>7, <1>9, <2>1, <2>2 DEF ReadSoFar
  <2>5. IsStored(y) /\ y[regs[k + 1].sensor] = <<Polled(d, regs[k + 1])>>
    BY <1>2, <2>3, <2>4 DEF IsStored
  <2>6. ASSUME NEW i \in 1..k PROVE y[regs[i].sensor] = <<Polled(d, regs[i])>>
    <3>1. i \in 1..n /\ i # k + 1
      BY <1>1, <2>3
    <3>2. regs[i].sensor # regs[k + 1].sensor
      BY <1>1, <2>3, <3>1 DEF Distinct
    <3>3. regs[i].sensor \in Sensors
      BY <1>2, <3>1
    <3> QED
      BY <2>4, <3>2, <3>3 DEF IsStored
  <2>7. \A i \in 1..(k + 1) : i \in 1..k \/ i = k + 1
    BY <2>3
  <2>8. ReadSoFar(d, regs, k + 1, y)
    BY <2>5, <2>6, <2>7 DEF ReadSoFar
  <2> QED
    BY <2>2, <2>3, <2>8
<1>10. n \in Holds
  <2> HIDE DEF Holds, n
  <2>1. \A k \in 0..n : k \in Holds
    BY <1>1, <1>8, <1>9, HoldsToTheEnd
  <2> QED
    BY <1>1, <2>1
<1>11. ReadSoFar(d, regs, n, iter[1..n])
  BY <1>10
<1> HIDE DEF n
<1> QED
  BY <1>1, <1>3, <1>11 DEF ReadSoFar

\* What a computed sensor makes of the store.
Computes(st, c) ==
  IF \A i \in DOMAIN c.inputs : st[c.inputs[i]] # <<>>
  THEN [st EXCEPT ![c.sensor] = <<0>>] ELSE st

\* Sensors that are not among those evaluated so far have the value from before.
OthersKept(st, sensors, k, now) ==
  /\ IsStored(now)
  /\ \A s \in Sensors : (\A i \in 1..k : sensors[i].sensor # s) => now[s] = st[s]

\* Computed sensors change no other.
LEMMA ComputedApart ==
  ASSUME NEW st, IsStored(st), NEW X, NEW sensors \in Seq(X)
  PROVE  /\ IsStored(RunComputed(st, sensors))
         /\ \A s \in Sensors : (\A i \in DOMAIN sensors : sensors[i].sensor # s) =>
              RunComputed(st, sensors)[s] = st[s]
<1> DEFINE n == Len(sensors)
           Step(acc, i) == Computes(acc, sensors[i])
           Solved(g) == g = [T \in SUBSET DOMAIN sensors |->
                               IF T = {} THEN st ELSE Step(g[T \ {Max(T)}], Max(T))]
           iter == CHOOSE g : Solved(g)
<1>1. DOMAIN sensors = 1..n /\ n \in Nat
  OBVIOUS
<1>3. RunComputed(st, sensors) = iter[DOMAIN sensors]
  BY Zenon DEF RunComputed, FoldLeft, MapThenFoldSet, Computes
<1>4. \E g : Solved(g)
  <2> DEFINE V == {st[s] : s \in Sensors} \cup {<<0>>}
             S == [Sensors -> V]
             step == [p \in S \X (1..n) |-> Step(p[1], p[2])]
  <2>1. st \in S
    BY DEF IsStored
  <2>2. ASSUME NEW x \in S, NEW i \in 1..n PROVE Step(x, i) \in S
    BY DEF Computes
  <2>3. step \in [S \X (1..n) -> S]
    <3> HIDE DEF S, n, Step
    <3> QED
      BY <2>2
  <2>4. PICK g \in [SUBSET (1..n) -> S] : Solves(g, n, st, step)
    <3> HIDE DEF S, n, step
    <3> QED
      BY <1>1, <2>1, <2>3, FoldSolution
  <2>5. ASSUME NEW T \in SUBSET (1..n), T # {}
        PROVE  step[<<g[T \ {Max(T)}], Max(T)>>] = Step(g[T \ {Max(T)}], Max(T))
    <3>1. Max(T) \in T
      <4> HIDE DEF n
      <4>1. T \subseteq 0..n
        BY <1>1
      <4> QED
        BY <1>1, <2>5, <4>1, MaxOfNumbers
    <3>2. Max(T) \in 1..n /\ g[T \ {Max(T)}] \in S
      <4> HIDE DEF S, n
      <4> QED
        BY <2>4, <3>1
    <3> HIDE DEF S, n, Step
    <3> QED
      BY <3>2
  <2>6. ASSUME NEW T \in SUBSET (1..n)
        PROVE  g[T] = IF T = {} THEN st ELSE Step(g[T \ {Max(T)}], Max(T))
    <3> HIDE DEF S, n, Step, step
    <3> QED
      BY <2>4, <2>5 DEF Solves
  <2>7. g = [T \in SUBSET (1..n) |-> g[T]]
    <3> HIDE DEF S, n
    <3> QED
      BY <2>4
  <2> HIDE DEF n, Step
  <2>8. Solved(g)
    BY <1>1, <2>6, <2>7
  <2> HIDE DEF Solved
  <2> QED
    BY <2>8
<1>5. Solved(iter)
  <2> HIDE DEF Solved
  <2> QED
    BY <1>4
<1> HIDE DEF iter
<1>6. iter[1..0] = st
  <2>1. 1..0 \in SUBSET DOMAIN sensors /\ 1..0 = {}
    OBVIOUS
  <2> QED
    BY <1>5, <2>1
<1>7. ASSUME NEW k \in 0..(n - 1)
      PROVE  iter[1..(k + 1)] = Step(iter[1..k], k + 1)
  <2>1. /\ 1..(k + 1) \in SUBSET (1..n) /\ 1..(k + 1) # {}
        /\ (1..(k + 1)) \ {k + 1} = 1..k
        /\ Max(1..(k + 1)) = k + 1
    <3> HIDE DEF n
    <3> QED
      BY <1>1, FirstPositions
  <2> HIDE DEF n, Step
  <2> QED
    BY <1>1, <1>5, <2>1
<1> DEFINE Holds == {k \in 0..n : OthersKept(st, sensors, k, iter[1..k])}
<1>8. 0 \in Holds
  BY <1>1, <1>6 DEF OthersKept
<1>9. ASSUME NEW k \in 0..(n - 1), k \in Holds PROVE k + 1 \in Holds
  <2>1. PICK x : x = iter[1..k]
    OBVIOUS
  <2>2. PICK y : y = iter[1..(k + 1)]
    OBVIOUS
  <2>3. k + 1 \in 1..n /\ k + 1 \in 0..n /\ k \in Nat
    BY <1>1
  <2>4. OthersKept(st, sensors, k, x) /\ y = Computes(x, sensors[k + 1])
    BY <1>7, <1>9, <2>1, <2>2
  <2>5. IsStored(y) /\ \A s \in Sensors : s # sensors[k + 1].sensor => y[s] = x[s]
    BY <2>4 DEF OthersKept, IsStored, Computes
  <2>6. \A i \in 1..k : i \in 1..(k + 1)
    BY <2>3
  <2>7. k + 1 \in 1..(k + 1)
    BY <2>3
  <2>8. OthersKept(st, sensors, k + 1, y)
    BY <2>4, <2>5, <2>6, <2>7 DEF OthersKept
  <2> QED
    BY <2>2, <2>3, <2>8
<1>10. n \in Holds
  <2> HIDE DEF Holds, n
  <2>1. \A k \in 0..n : k \in Holds
    BY <1>1, <1>8, <1>9, HoldsToTheEnd
  <2> QED
    BY <1>1, <2>1
<1>11. OthersKept(st, sensors, n, iter[1..n])
  BY <1>10
<1> HIDE DEF n
<1> QED
  BY <1>1, <1>3, <1>11 DEF OthersKept

\* A poll stores what it reads of every register, whatever is computed then.
LEMMA PollReads ==
  ASSUME ConfigInv, IsStored(store), NEW d \in DeviceSet, Poll(d)
  PROVE  /\ IsStored(store')
         /\ \A i \in DOMAIN config.regs[d] :
              store'[config.regs[d][i].sensor] = <<Polled(d, config.regs[d][i])>>
<1> DEFINE q == config.computed
           regs == config.regs[d]
           read == AfterReads(d, store, regs)
           order == BuildOrder(q)
<1>1. config \in Config /\ UniqueSensors(config) /\ Acyclic(q)
  BY DEF ConfigInv, Valid, ComputedValid
<1>2. q \in Lists(Sensors)
  BY <1>1 DEF Lists, Config, UniqueSensors
<1>3. regs \in Seq(Register)
  BY <1>1 DEF Config
<1>4. \A i \in DOMAIN regs : /\ <<d, i>> \in Places(config)
                             /\ At(config, <<d, i>>) = regs[i]
  BY PlaceFields
<1>5. Distinct(regs)
  <2> SUFFICES ASSUME NEW i \in DOMAIN regs, NEW j \in DOMAIN regs,
                      regs[i].sensor = regs[j].sensor
               PROVE  i = j
    BY DEF Distinct
  <2>1. <<d, i>> = <<d, j>>
    BY <1>1, <1>4 DEF UniqueSensors
  <2> QED
    BY <2>1
<1>6. /\ IsStored(read)
      /\ \A i \in DOMAIN regs : read[regs[i].sensor] = <<Polled(d, regs[i])>>
  <2> HIDE DEF regs
  <2> QED
    BY <1>3, <1>5, ReadsStored
<1>7. order \in Lists(Sensors) /\ Elements(order) = Elements(q)
  <2> HIDE DEF q
  <2> QED
    BY <1>1, <1>2, BuildSorts
<1>8. order \in Seq([sensor : Sensors, inputs : Seq(Sensors)])
  <2> HIDE DEF order
  <2> QED
    BY <1>7 DEF Lists
<1>9. \A j \in DOMAIN order : order[j].sensor \in Ids(q)
  <2> SUFFICES ASSUME NEW j \in DOMAIN order PROVE order[j].sensor \in Ids(q)
    OBVIOUS
  <2>1. order[j] \in Elements(q)
    <3> HIDE DEF order, q
    <3> QED
      BY <1>7 DEF Elements
  <2> HIDE DEF order, q
  <2> QED
    BY <2>1 DEF Elements, Ids
<1>10. \A i \in DOMAIN regs : /\ regs[i].sensor \in Sensors
                              /\ regs[i].sensor \notin Ids(q)
  <2> SUFFICES ASSUME NEW i \in DOMAIN regs
               PROVE  regs[i].sensor \in Sensors /\ regs[i].sensor \notin Ids(q)
    OBVIOUS
  <2>1. regs[i] \in Register
    <3> HIDE DEF regs
    <3> QED
      BY <1>3
  <2>2. regs[i].sensor \in KnownSensors(config)
    BY <1>4 DEF KnownSensors
  <2> HIDE DEF regs
  <2> QED
    BY <1>1, <2>1, <2>2 DEF Register, UniqueSensors
<1>11. store' = RunComputed(read, order)
  BY DEF Poll, AfterReads
<1>12. /\ IsStored(RunComputed(read, order))
       /\ \A s \in Sensors : (\A j \in DOMAIN order : order[j].sensor # s) =>
            RunComputed(read, order)[s] = read[s]
  <2> HIDE DEF read, order
  <2> QED
    BY <1>6, <1>8, ComputedApart
<1> PICK out : out = store'
  OBVIOUS
<1>13. /\ IsStored(out)
       /\ \A s \in Sensors : (\A j \in DOMAIN order : order[j].sensor # s) =>
            out[s] = read[s]
  BY <1>11, <1>12
<1>14. \A i \in DOMAIN regs : out[regs[i].sensor] = <<Polled(d, regs[i])>>
  <2> HIDE DEF regs, order, read, q
  <2> QED
    BY <1>6, <1>9, <1>10, <1>13
<1> QED
  BY <1>13, <1>14 DEF IsStored

-----------------------------------------------------------------------------
(* PATCH and back *)

\* A product grows with its factors.
LEMMA ProductsGrow ==
  ASSUME NEW a \in Nat, NEW b \in Nat, NEW f \in Nat, a <= b
  PROVE  a * f <= b * f /\ a * f \in Nat
<1>1. PICK c \in Nat : b = a + c
  <2>1. b - a \in Nat /\ b = a + (b - a)
    OBVIOUS
  <2> QED
    BY <2>1
<1>2. b * f = a * f + c * f
  BY <1>1
<1>3. a * f \in Nat /\ c * f \in Nat
  OBVIOUS
<1> QED
  BY <1>2, <1>3

\* A quotient is the largest number whose product is not larger.
LEMMA QuotientIsLargest ==
  ASSUME NEW m \in Nat, NEW f \in Nat \ {0}
  PROVE  /\ m \div f \in Nat
         /\ (m \div f) * f <= m
         /\ \A x \in Nat : x * f <= m => x <= m \div f
<1> DEFINE y == m \div f
           z == m % f
<1>1. y \in Nat /\ z \in 0..(f - 1) /\ m = f * y + z
  OBVIOUS
<1> HIDE DEF y, z
<1>2. y * f <= m
  BY <1>1
<1>3. ASSUME NEW x \in Nat, x * f <= m PROVE x <= y
  <2> SUFFICES ASSUME y + 1 <= x PROVE FALSE
    BY <1>1
  <2>1. y + 1 \in Nat
    BY <1>1
  <2>2. (y + 1) * f <= x * f
    BY <2>1, ProductsGrow
  <2>3. (y + 1) * f = y * f + f
    BY <1>1
  <2>4. y * f \in Nat /\ f * y = y * f /\ x * f \in Nat
    BY <1>1
  <2>5. y * f + f <= m
    BY <2>2, <2>3, <2>4, <1>3
  <2> QED
    BY <1>1, <2>4, <2>5
<1> QED
  BY <1>1, <1>2, <1>3 DEF y

\* What is written is the number whose reading is asked for, rounded down to a
\* word.
LEMMA RoundedDown ==
  ASSUME NEW num \in Int, NEW f \in Nat \ {0}, NEW w,
         w = IF num <= 0 THEN 0 ELSE IF num \div f > Top THEN Top ELSE num \div f
  PROVE  /\ w \in 0..Top
         /\ w * f <= num \/ w = 0
         /\ \A x \in 0..Top : x * f <= num => x * f <= w * f
<1>1. Top \in Nat
  BY ScaleAssumption
<1>2. CASE num <= 0
  <2>1. w = 0 /\ w * f = 0
    BY <1>2
  <2>2. ASSUME NEW x \in 0..Top, x * f <= num PROVE x * f <= w * f
    BY <1>2, <2>1, <2>2
  <2> QED
    BY <1>1, <2>1, <2>2
<1>3. CASE ~ (num <= 0)
  <2> DEFINE y == num \div f
  <2>1. /\ y \in Nat /\ y * f <= num
        /\ \A x \in Nat : x * f <= num => x <= y
    BY <1>3, QuotientIsLargest
  <2>2. w = IF y > Top THEN Top ELSE y
    BY <1>3
  <2> HIDE DEF y
  <2>3. w \in 0..Top /\ w <= y
    BY <1>1, <2>1, <2>2
  <2>4. w * f <= num
    <3>1. w * f <= y * f /\ w * f \in Nat /\ y * f \in Nat
      BY <2>1, <2>3, ProductsGrow
    <3> QED
      BY <2>1, <3>1
  <2>5. ASSUME NEW x \in 0..Top, x * f <= num PROVE x * f <= w * f
    <3>1. x <= y
      BY <2>1, <2>5
    <3>2. x <= w
      BY <1>1, <2>1, <2>2, <3>1
    <3> QED
      BY <2>3, <3>2, ProductsGrow
  <2> QED
    BY <2>3, <2>4, <2>5
<1> QED
  BY <1>2, <1>3

\* What a PATCH asked for, and what a poll shows of the word that it sent.
BackAs(area, s, asked, shown) ==
  LET zero == Shown(s, 0)
      Shows == {Shown(s, n) : n \in 0..Top}
      Missed(x) == x = asked /\ s \in config.pipes /\ <<s, asked>> \in Short
  IN  IF area = "coil"
      THEN \/ shown = zero <=> asked = zero
           \/ Shown(s, 1) = zero
      ELSE /\ shown \in Shows
           /\ Between(zero, shown, asked) \/ shown = zero
           /\ \A x \in Shows : Between(zero, x, asked) /\ ~ Missed(x)
                                 => Between(zero, x, shown)

\* A scale is a line: o is what it shows for 0, and g for each step.
OnLine(s, asked, g, o) ==
  LET raw == ReverseScale(config, s, asked) IN
  /\ g \in Int /\ o \in Int
  /\ \A n \in Int : Shown(s, n) = n * g + o
  /\ g > 0 => raw.num = asked - o /\ raw.den = g
  /\ g < 0 => raw.num = o - asked /\ raw.den = -g
  /\ g # 0 => raw.short = (s \in config.pipes /\ <<s, asked>> \in Short)

LEMMA ScaleIsLine ==
  ASSUME NEW s \in Sensors, s \notin Late, NEW asked \in Int
  PROVE  \E g, o : OnLine(s, asked, g, o)
<1>1. Unit \in Nat \ {0} /\ Factor[s] \in Int /\ Offset[s] \in Int
  BY ScaleAssumption
<1>2. CASE s \notin config.pipes
  <2>1. \A n \in Int : Shown(s, n) = n * Unit + 0
    BY <1>1, <1>2 DEF Shown, Physical
  <2>2. ReverseScale(config, s, asked) = [num |-> asked, den |-> Unit, short |-> FALSE]
    BY <1>1, <1>2 DEF ReverseScale, Quotient
  <2>3. Unit > 0 /\ asked - 0 = asked
    BY <1>1
  <2>4. OnLine(s, asked, Unit, 0)
    <3>1. PICK raw : raw = ReverseScale(config, s, asked)
      OBVIOUS
    <3>2. raw.num = asked - 0 /\ raw.den = Unit /\ raw.short = FALSE
      BY <2>2, <2>3, <3>1
    <3>3. Unit \in Int /\ 0 \in Int /\ ~ Unit < 0
      BY <1>1
    <3>4. raw.short = (s \in config.pipes /\ <<s, asked>> \in Short)
      BY <1>2, <3>2
    <3> QED
      BY <2>1, <3>1, <3>2, <3>3, <3>4 DEF OnLine
  <2> QED
    BY <2>4
<1>3. CASE s \in config.pipes
  <2> DEFINE g == Factor[s]
             o == Offset[s]
  <2>1. \A n \in Int : Shown(s, n) = n * g + o
    BY <1>3 DEF Shown, Physical
  <2>2. g # 0 => ReverseScale(config, s, asked)
                   = Quotient(asked - o, g, <<s, asked>> \in Short)
    BY <1>3 DEF ReverseScale
  <2>3. g \in Int /\ o \in Int
    BY <1>1
  <2>4. PICK short : short = (<<s, asked>> \in Short)
    OBVIOUS
  <2> HIDE DEF g, o
  <2>5. ASSUME g > 0
        PROVE  ReverseScale(config, s, asked) = [num |-> asked - o, den |-> g, short |-> short]
    BY <2>2, <2>3, <2>4, <2>5 DEF Quotient
  <2>6. ASSUME g < 0
        PROVE  ReverseScale(config, s, asked) = [num |-> o - asked, den |-> -g, short |-> short]
    <3>1. -(asked - o) = o - asked /\ ~ g > 0 /\ g # 0
      BY <2>3, <2>6
    <3> QED
      BY <2>2, <2>4, <3>1 DEF Quotient
  <2>7. g # 0 => g > 0 \/ g < 0
    BY <2>3
  <2>8. short = (s \in config.pipes /\ <<s, asked>> \in Short)
    BY <1>3, <2>4
  <2>9. /\ g > 0 => /\ ReverseScale(config, s, asked).num = asked - o
                    /\ ReverseScale(config, s, asked).den = g
        /\ g < 0 => /\ ReverseScale(config, s, asked).num = o - asked
                    /\ ReverseScale(config, s, asked).den = -g
        /\ g # 0 => ReverseScale(config, s, asked).short = short
    BY <2>5, <2>6, <2>7
  <2>10. OnLine(s, asked, g, o)
    BY <2>1, <2>3, <2>8, <2>9 DEF OnLine
  <2> QED
    BY <2>10
<1> QED
  BY <1>2, <1>3

\* The point that is k away from o in the direction of g.
Along(o, g, k) == IF g > 0 THEN o + k ELSE o - k

\* One of two points is between o and the other if it is no further away.
LEMMA BetweenSteps ==
  ASSUME NEW o \in Int, NEW g \in Int, NEW a \in Nat, NEW b \in Int
  PROVE  /\ a <= b => Between(o, Along(o, g, a), Along(o, g, b))
         /\ Between(o, Along(o, g, a), Along(o, g, b)) => a = 0 \/ a <= b
BY DEF Between, Along

\* What RawWord makes of a fraction that falls short or not.
LEMMA WordSent ==
  ASSUME NEW area, NEW raw, raw.num \in Int, raw.den \in Nat \ {0},
         NEW m, m = IF raw.short THEN raw.num - 1 ELSE raw.num
  PROVE  RawWord(area, raw) =
           IF area = "coil" THEN IF raw.num = 0 THEN 0 ELSE 1
           ELSE IF m <= 0 THEN 0 ELSE IF m \div raw.den > Top THEN Top ELSE m \div raw.den
<1>1. PICK n \in Int, d \in Nat \ {0} : n = raw.num /\ d = raw.den
  OBVIOUS
<1>2. Top \in Nat /\ 0 \div d = 0
  BY ScaleAssumption
<1>3. m \in Int /\ (n <= 0 => m <= 0) /\ (~ n <= 0 /\ m <= 0 => m = 0)
  BY <1>1
<1>4. RawWord(area, raw) = IF area = "coil" THEN IF n = 0 THEN 0 ELSE 1
                           ELSE IF n <= 0 THEN 0
                           ELSE IF m \div d > Top THEN Top ELSE m \div d
  BY <1>1 DEF RawWord, Truncated
<1>5. n <= 0 => (IF m <= 0 THEN 0 ELSE IF m \div d > Top THEN Top ELSE m \div d) = 0
  BY <1>3
<1>6. ~ n <= 0 /\ m <= 0 => (IF m \div d > Top THEN Top ELSE m \div d) = 0
  BY <1>2, <1>3
<1> QED
  BY <1>1, <1>4, <1>5, <1>6

LEMMA BackAgain ==
  ASSUME NEW area, NEW s \in Sensors, s \notin Late, NEW asked \in Int, NEW w,
         w = RawWord(area, ReverseScale(config, s, asked))
  PROVE  BackAs(area, s, asked, Shown(s, w))
<1>1. PICK raw : raw = ReverseScale(config, s, asked)
  OBVIOUS
<1>2. raw.num \in Int /\ raw.den \in Nat \ {0} /\ Top \in Nat
  BY <1>1, FractionTyped, ScaleAssumption
<1>3. PICK m : m = IF raw.short THEN raw.num - 1 ELSE raw.num
  OBVIOUS
<1>4. /\ m \in Int /\ m <= raw.num
      /\ w = IF area = "coil" THEN IF raw.num = 0 THEN 0 ELSE 1
             ELSE IF m <= 0 THEN 0 ELSE IF m \div raw.den > Top THEN Top ELSE m \div raw.den
  BY <1>1, <1>2, <1>3, WordSent
<1>5. PICK g, o : OnLine(s, asked, g, o)
  BY ScaleIsLine
<1>6. g \in Int /\ o \in Int /\ \A n \in Int : Shown(s, n) = n * g + o
  BY <1>5 DEF OnLine
<1>7. Shown(s, 0) = o /\ Shown(s, 1) = g + o
  BY <1>6
<1>8. CASE area = "coil"
  <2>1. w = IF raw.num = 0 THEN 0 ELSE 1
    BY <1>4, <1>8
  <2>2. g # 0 => (raw.num = 0 <=> asked = o)
    BY <1>1, <1>5, <1>6 DEF OnLine
  <2>3. g # 0 => (Shown(s, w) = o <=> asked = o)
    BY <1>6, <1>7, <2>1, <2>2
  <2>4. g = 0 => Shown(s, 1) = o
    BY <1>6, <1>7
  <2> QED
    BY <1>7, <1>8, <2>3, <2>4 DEF BackAs
<1>9. CASE area # "coil"
  <2>1. w = IF m <= 0 THEN 0 ELSE IF m \div raw.den > Top THEN Top ELSE m \div raw.den
    BY <1>4, <1>9
  <2>2. /\ w \in 0..Top
        /\ w * raw.den <= m \/ w = 0
        /\ \A x \in 0..Top : x * raw.den <= m => x * raw.den <= w * raw.den
    BY <1>2, <1>4, <2>1, RoundedDown
  <2>3. Shown(s, w) \in {Shown(s, n) : n \in 0..Top}
    BY <2>2
  <2>4. CASE g = 0
    <3>1. \A n \in 0..Top : Shown(s, n) = o
      BY <1>2, <1>6, <2>4
    <3>2. Shown(s, w) = o /\ Between(o, o, o)
      BY <1>6, <2>2, <3>1 DEF Between
    <3> QED
      BY <1>7, <1>9, <2>3, <3>1, <3>2 DEF BackAs
  <2>5. CASE g # 0
    <3>1. PICK f \in Nat \ {0}, num \in Int : f = raw.den /\ num = raw.num
      BY <1>2
    <3>2. asked = Along(o, g, num) /\ f = IF g > 0 THEN g ELSE -g
      <4>1. CASE g > 0
        <5>1. num = asked - o /\ f = g
          BY <1>1, <1>5, <3>1, <4>1 DEF OnLine
        <5> QED
          BY <1>6, <4>1, <5>1 DEF Along
      <4>2. CASE g < 0
        <5>1. num = o - asked /\ f = -g
          BY <1>1, <1>5, <3>1, <4>2 DEF OnLine
        <5> QED
          BY <1>6, <4>2, <5>1 DEF Along
      <4> QED
        BY <1>6, <2>5, <4>1, <4>2
    <3>3. ASSUME NEW n \in 0..Top
          PROVE  n * f \in Nat /\ Shown(s, n) = Along(o, g, n * f)
      <4>1. n \in Nat /\ n * f \in Nat /\ Shown(s, n) = n * g + o
        BY <1>2, <1>6
      <4>2. CASE g > 0
        BY <1>6, <3>2, <4>1, <4>2 DEF Along
      <4>3. CASE ~ g > 0
        <5>1. n * g = -(n * f)
          BY <1>6, <3>2, <4>1, <4>3
        <5> QED
          BY <1>6, <4>1, <4>3, <5>1 DEF Along
      <4> QED
        BY <4>2, <4>3
    <3>4. w * f \in Nat /\ Shown(s, w) = Along(o, g, w * f)
      BY <2>2, <3>3
    <3>5. Between(o, Shown(s, w), asked) \/ Shown(s, w) = o
      <4>1. w * f <= num \/ w = 0
        BY <1>4, <2>2, <3>1, <3>4
      <4>2. w * f <= num => Between(o, Along(o, g, w * f), Along(o, g, num))
        BY <1>6, <3>4, BetweenSteps
      <4> QED
        BY <1>7, <3>2, <3>4, <4>1, <4>2
    <3>6. ASSUME NEW n \in 0..Top, Between(o, Shown(s, n), asked),
                 ~ (Shown(s, n) = asked /\ s \in config.pipes /\ <<s, asked>> \in Short)
          PROVE  Between(o, Shown(s, n), Shown(s, w))
      <4>1. n * f \in Nat /\ Shown(s, n) = Along(o, g, n * f)
        BY <3>3
      <4>2. n * f = 0 \/ n * f <= num
        BY <1>6, <3>2, <3>6, <4>1, BetweenSteps
      <4>3. raw.short => n * f # num
        <5>1. raw.short = (s \in config.pipes /\ <<s, asked>> \in Short)
          BY <1>1, <1>5, <2>5 DEF OnLine
        <5>2. raw.short => Shown(s, n) # asked
          BY <3>6, <5>1
        <5> QED
          BY <3>2, <4>1, <5>2
      <4>4. n * f = 0 \/ n * f <= m
        BY <1>3, <3>1, <4>1, <4>2, <4>3
      <4>5. n * f <= w * f
        BY <2>2, <3>1, <3>4, <4>4
      <4> QED
        BY <1>6, <3>4, <4>1, <4>5, BetweenSteps
    <3> QED
      BY <1>7, <1>9, <2>3, <3>5, <3>6 DEF BackAs
  <2> QED
    BY <2>4, <2>5
<1> QED
  BY <1>8, <1>9

\* A PATCH that was accepted and whose process still runs.
Patched(r) == r.st \in {"pending", "sent", "acknowledged", "failed"} /\ r.by = "redfish"

\* It carries the word of its reading, for the register of its sensor.
Carries(r, c) ==
  /\ "reading" \in DOMAIN r /\ r.reading \in Int
  /\ \E p \in Places(c) :
       /\ At(c, p).sensor = r.sensor
       /\ r.words[1] = RawWord(At(c, p).area, ReverseScale(c, r.sensor, r.reading))

\* All requests but one are still to come.
Alone(w, req) == \A x \in Writes \ {w} : req[x].st = "idle"

\* An executed write that was the only one is what its cell holds.
Stands(w, req, im) ==
  LET r == req[w] IN
  Alone(w, req) /\ r.st \in {"sent", "acknowledged", "failed"} /\ r.executed
    => im[r.target] = r.words[1]

RequestReads(w, req, im, c) ==
  /\ Patched(req[w]) => Carries(req[w], c)
  /\ req[w].st = "pending" => ~ req[w].executed
  /\ Stands(w, req, im)

ReadInv == /\ IsStored(store)
           /\ \A w \in Writes : RequestReads(w, request, image, config)

\* What a step makes of the request r that it moves on, and of the image.
Begins(r, n, c) == n.st = "pending" /\ ~ n.executed /\ (n.by = "redfish" => Carries(n, c))
Ends(r, n) == n.st = "refused"
IsSent(r, n) == r.st = "pending" /\ \E t : n = [r EXCEPT !.st = "sent", !.target = t]
IsAnswered(r, n) == r.st = "sent" /\ \E s \in {"acknowledged", "failed"} : n = [r EXCEPT !.st = s]
IsExecuted(r, n, im, jm) ==
  /\ r.st \in {"sent", "failed", "lost"} /\ n = [r EXCEPT !.executed = TRUE]
  /\ jm = [im EXCEPT ![r.target] = r.words[1]]

MovesOn(r, n, im, jm, c) ==
  \/ jm = im /\ (Begins(r, n, c) \/ Ends(r, n) \/ IsSent(r, n) \/ IsAnswered(r, n))
  \/ IsExecuted(r, n, im, jm)

\* A request that moves on is not idle, and carries what it did.
LEMMA MovedRequest ==
  ASSUME NEW V, NEW r, r.st \in {"pending", "sent", "acknowledged", "failed", "lost"} => IsWrite(r, V),
         NEW im, NEW jm, NEW c, NEW n, MovesOn(r, n, im, jm, c),
         Patched(r) => Carries(r, c)
  PROVE  n.st # "idle" /\ (Patched(n) => Carries(n, c))
<1>1. CASE Begins(r, n, c) \/ Ends(r, n)
  BY <1>1 DEF Begins, Ends, Patched
<1>2. CASE IsSent(r, n) \/ IsAnswered(r, n) \/ IsExecuted(r, n, im, jm)
  <2>1. r = [f \in DOMAIN r |-> r[f]] /\ Fields \subseteq DOMAIN r
    BY <1>2 DEF IsSent, IsAnswered, IsExecuted, IsWrite
  <2>2. /\ DOMAIN n = DOMAIN r
        /\ \A f \in DOMAIN r : f \notin {"st", "target", "executed"} => n[f] = r[f]
    BY <1>2, <2>1 DEF IsSent, IsAnswered, IsExecuted
  <2>3. n.st = r.st \/ n.st \in {"sent", "acknowledged", "failed"}
    BY <1>2, <2>1 DEF IsSent, IsAnswered, IsExecuted, Fields
  <2>4. r.st # "idle" /\ (Patched(n) => r.st \in {"pending", "sent", "acknowledged", "failed"})
    <3>1. CASE IsSent(r, n) \/ IsAnswered(r, n)
      BY <3>1 DEF IsSent, IsAnswered
    <3>2. CASE IsExecuted(r, n, im, jm)
      <4>1. n.st = r.st
        BY <2>1, <3>2 DEF IsExecuted, Fields
      <4> QED
        BY <3>2, <4>1 DEF IsExecuted, Patched
    <3> QED
      BY <1>2, <3>1, <3>2
  <2>5. n.by = r.by /\ n.sensor = r.sensor /\ n.words = r.words
    BY <2>1, <2>2 DEF Fields
  <2>6. "reading" \in DOMAIN r => "reading" \in DOMAIN n /\ n.reading = r.reading
    BY <2>2
  <2>7. Patched(n) => Patched(r)
    BY <2>4, <2>5 DEF Patched
  <2>8. Carries(r, c) => Carries(n, c)
    BY <2>5, <2>6 DEF Carries
  <2> QED
    BY <2>3, <2>4, <2>7, <2>8
<1> QED
  BY <1>1, <1>2 DEF MovesOn

\* What of it was executed stands in the image.
LEMMA MovedStands ==
  ASSUME NEW V, NEW im \in [Cells -> V], NEW r, RequestInv(r, V),
         r.st = "pending" => ~ r.executed,
         NEW alone,
         alone /\ r.st \in {"sent", "acknowledged", "failed"} /\ r.executed
           => im[r.target] = r.words[1],
         NEW jm, NEW c, NEW n, MovesOn(r, n, im, jm, c)
  PROVE  /\ n.st = "pending" => ~ n.executed
         /\ alone /\ n.st \in {"sent", "acknowledged", "failed"} /\ n.executed
              => jm[n.target] = n.words[1]
<1>1. CASE Begins(r, n, c) \/ Ends(r, n)
  BY <1>1 DEF Begins, Ends
<1>2. CASE IsSent(r, n)
  <2>1. IsWrite(r, V) /\ ~ r.executed
    BY <1>2 DEF IsSent, RequestInv
  <2>2. n.st = "sent" /\ n.executed = r.executed
    BY <1>2, <2>1 DEF IsSent, IsWrite, Fields
  <2> QED
    BY <2>1, <2>2
<1>3. CASE jm = im /\ IsAnswered(r, n)
  <2>1. IsWrite(r, V)
    BY <1>3 DEF IsAnswered, RequestInv
  <2>2. /\ n.st \in {"acknowledged", "failed"} /\ n.executed = r.executed
        /\ n.target = r.target /\ n.words = r.words /\ r.st = "sent"
    BY <1>3, <2>1 DEF IsAnswered, IsWrite, Fields
  <2> QED
    BY <1>3, <2>2
<1>4. CASE IsExecuted(r, n, im, jm)
  <2>1. IsWrite(r, V) /\ r.target \in Cells
    BY <1>4 DEF IsExecuted, RequestInv
  <2>2. n.st = r.st /\ n.target = r.target /\ n.words = r.words /\ r.st # "pending"
    BY <1>4, <2>1 DEF IsExecuted, IsWrite, Fields
  <2>3. jm[r.target] = r.words[1]
    BY <1>4, <2>1 DEF IsExecuted
  <2> QED
    BY <2>2, <2>3
<1> QED
  BY <1>1, <1>2, <1>3, <1>4 DEF MovesOn

\* A step that moves one request on keeps them all.
LEMMA OneMoves ==
  ASSUME NEW V, ServerInv(V), NEW c, NEW w \in Writes, NEW n, NEW jm,
         MovesOn(request[w], n, image, jm, c),
         \A x \in Writes : RequestReads(x, request, image, c),
         NEW req, req = [request EXCEPT ![w] = n]
  PROVE  \A x \in Writes : RequestReads(x, req, jm, c)
<1> DEFINE r == request[w]
<1>1. /\ RequestInv(r, V) /\ RequestReads(w, request, image, c) /\ image \in [Cells -> V]
      /\ DOMAIN request = Writes
  BY DEF ServerInv
<1>2. req[w] = n /\ \A x \in Writes \ {w} : req[x] = request[x]
  BY <1>1
<1>3. n.st # "idle" /\ (Patched(n) => Carries(n, c))
  <2>1. r.st \in {"pending", "sent", "acknowledged", "failed", "lost"} => IsWrite(r, V)
    BY <1>1 DEF RequestInv
  <2>2. Patched(r) => Carries(r, c)
    BY <1>1 DEF RequestReads
  <2> HIDE DEF r
  <2>3. MovesOn(r, n, image, jm, c)
    BY DEF r
  <2> QED
    BY <2>1, <2>2, <2>3, MovedRequest
<1>4. /\ n.st = "pending" => ~ n.executed
      /\ Alone(w, request) /\ n.st \in {"sent", "acknowledged", "failed"} /\ n.executed
           => jm[n.target] = n.words[1]
  <2> DEFINE alone == Alone(w, request)
  <2>1. /\ r.st = "pending" => ~ r.executed
        /\ alone /\ r.st \in {"sent", "acknowledged", "failed"} /\ r.executed
             => image[r.target] = r.words[1]
    BY <1>1 DEF RequestReads, Stands
  <2>2. MovesOn(r, n, image, jm, c)
    OBVIOUS
  <2> HIDE DEF r, alone
  <2>3. /\ n.st = "pending" => ~ n.executed
        /\ alone /\ n.st \in {"sent", "acknowledged", "failed"} /\ n.executed
             => jm[n.target] = n.words[1]
    BY <1>1, <2>1, <2>2, MovedStands
  <2> QED
    BY <2>3 DEF alone
<1>5. Alone(w, req) => Alone(w, request)
  BY <1>2 DEF Alone
<1>6. RequestReads(w, req, jm, c)
  BY <1>2, <1>3, <1>4, <1>5 DEF RequestReads, Stands
<1>7. ASSUME NEW x \in Writes, x # w PROVE RequestReads(x, req, jm, c)
  <2>1. ~ Alone(x, req)
    BY <1>2, <1>3, <1>7 DEF Alone
  <2>2. req[x] = request[x] /\ RequestReads(x, request, image, c)
    BY <1>2, <1>7
  <2> QED
    BY <2>1, <2>2 DEF RequestReads, Stands
<1> QED
  BY <1>6, <1>7

\* A request that carries the word of its reading does so when registers are added.
LEMMA AddingKeepsWords ==
  ASSUME ConfigInv, NEW q \in Additions, HotAdd(q), NEW r, Carries(r, config)
  PROVE  Carries(r, config')
<1>1. PICK p \in Places(config) :
        /\ At(config, p).sensor = r.sensor
        /\ r.words[1] = RawWord(At(config, p).area, ReverseScale(config, r.sensor, r.reading))
  BY DEF Carries
<1>2. /\ p[1] \in DeviceSet /\ p[2] \in DOMAIN config.regs[p[1]] /\ p = <<p[1], p[2]>>
      /\ At(config, p) = config.regs[p[1]][p[2]]
  BY PlaceFields
<1>3. /\ config \in Config /\ q.device \in DeviceSet /\ q.register \in Register
      /\ config' = WithRegister(config, q) /\ Addable(config, q)
  BY AdditionsAssumption DEF HotAdd, Accepted, Addable, ConfigInv
<1>4. /\ config.regs \in [DeviceSet -> Seq(Register)]
      /\ config'.regs = [config.regs EXCEPT ![q.device] = Append(@, q.register)]
      /\ config'.pipes = config.pipes \cup q.pipe
  BY <1>3 DEF WithRegister, Config
<1>5. PICK old : old = config.regs[p[1]]
  OBVIOUS
<1>6. PICK new : new = config'.regs[p[1]]
  OBVIOUS
<1>7. /\ old \in Seq(Register) /\ p[2] \in DOMAIN old
      /\ new = old \/ new = Append(old, q.register)
  BY <1>2, <1>4, <1>5, <1>6
<1>8. p[2] \in DOMAIN new /\ new[p[2]] = old[p[2]]
  BY <1>3, <1>7
<1>9. p \in Places(config') /\ At(config', p) = At(config, p)
  <2>1. <<p[1], p[2]>> \in Places(config')
    BY <1>2, <1>6, <1>8, PlaceFields
  <2> QED
    BY <1>2, <1>5, <1>6, <1>8, <2>1 DEF At
<1>10. r.sensor \in KnownSensors(config)
  BY <1>1 DEF KnownSensors
<1>11. r.sensor \notin q.pipe
  BY <1>3, <1>10 DEF Addable
<1>12. ReverseScale(config', r.sensor, r.reading) = ReverseScale(config, r.sensor, r.reading)
  BY <1>4, <1>11 DEF ReverseScale
<1> QED
  BY <1>1, <1>9, <1>12 DEF Carries

\* A PATCH is accepted with the word of its reading.
LEMMA PatchCarries ==
  ASSUME RedfishInv, ConfigInv, NEW w \in Writes, NEW d \in DeviceSet, NEW s \in Sensors,
         NEW v \in {<<>>} \cup {<<x>> : x \in Readings}, Patch(w, d, s, v)
  PROVE  \E n : /\ request' = [request EXCEPT ![w] = n]
                /\ Begins(request[w], n, config) \/ Ends(request[w], n)
<1>0. \A code : Ends(request[w], Refusal(code))
  BY DEF Ends, Refusal
<1>1. CASE v = <<>> \/ Find(Views(config, store), s) = {}
  <2>1. \/ request' = [request EXCEPT ![w] = Refusal("400")]
        \/ request' = [request EXCEPT ![w] = Refusal("404")]
    BY <1>1 DEF Patch
  <2> QED
    BY <1>0, <2>1
<1>2. CASE ~ (v = <<>> \/ Find(Views(config, store), s) = {})
  <2>1. PICK u \in Find(Views(config, store), s) :
           request' = [request EXCEPT ![w] =
             IF u.computed \/ u.access # "read_write" \/ u.area \notin {"holding", "coil"}
             THEN Refusal("405")
             ELSE PendingPatch(d, v[1], IF u.area = "coil" THEN "coil" ELSE "word",
                    RawWord(u.area, ReverseScale(config, s, v[1])), Routed(d, s), s)]
    BY <1>2 DEF Patch
  <2> DEFINE word == RawWord(u.area, ReverseScale(config, s, v[1]))
             fc == IF u.area = "coil" THEN "coil" ELSE "word"
             reading == v[1]
             n == PendingPatch(d, reading, fc, word, d, s)
  <2>2. CASE u.computed \/ u.access # "read_write" \/ u.area \notin {"holding", "coil"}
    <3>1. request' = [request EXCEPT ![w] = Refusal("405")]
      BY <2>1, <2>2
    <3> HIDE DEF n
    <3> QED
      BY <1>0, <3>1
  <2>3. CASE ~ (u.computed \/ u.access # "read_write" \/ u.area \notin {"holding", "coil"})
    <3>1. request' = [request EXCEPT ![w] = n]
      BY <2>1, <2>3 DEF Routed
    <3>2. u \in AllViews(config, store) /\ u.sensor = s
      <4>1. ToSet(Views(config, store)) = AllViews(config, store)
        BY ViewsAre DEF ConfigInv
      <4>2. u \in ToSet(Views(config, store)) /\ u.sensor = s
        BY DEF Find, ToSet
      <4> QED
        BY <4>1, <4>2
    <3>3. PICK p \in Places(config) : u = RegisterView(config, store, p)
      <4>1. \A j \in DOMAIN config.computed : u # ComputedView(config, store, j)
        BY <2>3, ViewFields
      <4> QED
        BY <3>2, <4>1 DEF AllViews
    <3>4. At(config, p).sensor = s /\ At(config, p).area = u.area
      BY <3>2, <3>3 DEF RegisterView, View
    <3>5. reading \in Int
      BY <1>2, ScaleAssumption
    <3>6. /\ n.st = "pending" /\ n.executed = FALSE /\ n.sensor = s
          /\ "reading" \in DOMAIN n /\ n.reading = reading /\ n.words[1] = word
      <4> HIDE DEF reading, word, fc
      <4> QED
        BY DEF PendingPatch
    <3>7. word = RawWord(At(config, p).area, ReverseScale(config, s, reading))
      BY <3>4
    <3> HIDE DEF n, word, reading
    <3>8. Begins(request[w], n, config)
      BY <3>4, <3>5, <3>6, <3>7 DEF Begins, Carries
    <3> QED
      BY <3>1, <3>8
  <2> QED
    BY <2>2, <2>3
<1> QED
  BY <1>1, <1>2

\* A step of the server other than an addition, a stop or a start moves one
\* request on.
LEMMA ServerMoves ==
  ASSUME NEW V, ServerInv(V), NEW w \in Writes,
         Master(w) \/ Forward(w) \/ Execute(w) \/ Acknowledge(w) \/ Failed(w)
  PROVE  \E n : /\ request' = [request EXCEPT ![w] = n]
                /\ MovesOn(request[w], n, image, image', config)
<1>1. RequestInv(request[w], V) /\ DOMAIN request = Writes
  BY DEF ServerInv
<1>2. CASE Master(w)
  <2>1. PICK fc, addr, words : Submit(w, fc, addr, words)
    BY <1>2 DEF Master
  <2>2. image' = image
    BY <2>1 DEF Submit
  <2>3. CASE Exception(fc, addr) # ""
    <3> DEFINE n == [st |-> "refused", code |-> Exception(fc, addr)]
    <3>1. request' = [request EXCEPT ![w] = n]
      BY <2>1, <2>3 DEF Submit
    <3>2. n.st = "refused"
      OBVIOUS
    <3> HIDE DEF n
    <3> QED
      BY <2>2, <3>1, <3>2 DEF MovesOn, Ends
  <2>4. CASE Exception(fc, addr) = ""
    <3> DEFINE slot == Table(config, AreaOf(fc))[addr + 1]
               n == Pending(fc, addr, words, slot.device, slot.sensor)
    <3>1. request' = [request EXCEPT ![w] = n]
      BY <2>1, <2>4 DEF Submit
    <3>2. n.st = "pending" /\ n.executed = FALSE /\ n.by = "modbus"
      BY DEF Pending
    <3> HIDE DEF n
    <3>3. Begins(request[w], n, config)
      BY <3>2 DEF Begins
    <3> QED
      BY <2>2, <3>1, <3>3 DEF MovesOn
  <2> QED
    BY <2>3, <2>4
<1>3. CASE Forward(w)
  <2>1. request[w].st = "pending" /\ image' = image
    BY <1>3 DEF Forward
  <2>2. PICK reg : request' = [request EXCEPT ![w].st = "sent", ![w].target = Target(w, reg)]
    BY <1>3 DEF Forward
  <2> DEFINE t == Target(w, reg)
             n == [request[w] EXCEPT !.st = "sent", !.target = t]
  <2>3. request' = [request EXCEPT ![w] = n]
    BY <1>1, <2>2
  <2>4. IsSent(request[w], n)
    BY <2>1 DEF IsSent
  <2> HIDE DEF n
  <2> QED
    BY <2>1, <2>3, <2>4 DEF MovesOn
<1>4. CASE Execute(w)
  <2> DEFINE n == [request[w] EXCEPT !.executed = TRUE]
  <2>1. request' = [request EXCEPT ![w] = n]
    BY <1>1, <1>4 DEF Execute
  <2>2. IsExecuted(request[w], n, image, image')
    BY <1>4 DEF IsExecuted, Execute
  <2> HIDE DEF n
  <2> QED
    BY <2>1, <2>2 DEF MovesOn
<1>5. CASE (Acknowledge(w) \/ Failed(w)) /\ request[w].st = "sent"
  <2>1. PICK s \in {"acknowledged", "failed"} : request' = [request EXCEPT ![w].st = s]
    BY <1>5 DEF Acknowledge, Failed
  <2> DEFINE n == [request[w] EXCEPT !.st = s]
  <2>2. request' = [request EXCEPT ![w] = n] /\ image' = image
    BY <1>1, <1>5, <2>1 DEF Acknowledge, Failed
  <2>3. IsAnswered(request[w], n)
    BY <1>5 DEF IsAnswered
  <2> HIDE DEF n
  <2> QED
    BY <2>2, <2>3 DEF MovesOn
<1>6. CASE (Acknowledge(w) \/ Failed(w)) /\ request[w].st # "sent"
  <2> DEFINE n == [st |-> "refused", code |-> "ServerDeviceFailure"]
  <2>1. request' = [request EXCEPT ![w] = n] /\ image' = image
    BY <1>6 DEF Acknowledge, Failed
  <2>2. Ends(request[w], n)
    BY DEF Ends
  <2> HIDE DEF n
  <2> QED
    BY <2>1, <2>2 DEF MovesOn
<1> QED
  BY <1>2, <1>3, <1>4, <1>5, <1>6

\* Every step keeps what is known of PATCH requests.
LEMMA ReadInvStep ==
  ASSUME RedfishInv, ConfigInv, ReadInv, [RedfishNext]_redfishVars
  PROVE  ReadInv'
<1>1. ServerInv(Carried) /\ IsStored(store)
      /\ \A w \in Writes : RequestReads(w, request, image, config)
  BY DEF RedfishInv, ReadInv
<1>2. ASSUME NEW q \in Additions, HotAdd(q), UNCHANGED <<request, image, store>>
      PROVE  ReadInv'
  <2>1. ASSUME NEW w \in Writes PROVE RequestReads(w, request, image, config')
    <3>1. RequestReads(w, request, image, config)
      BY <1>1
    <3>2. Carries(request[w], config) => Carries(request[w], config')
      BY <1>2, AddingKeepsWords
    <3> QED
      BY <3>1, <3>2 DEF RequestReads
  <2> QED
    BY <1>1, <1>2, <2>1 DEF ReadInv, IsStored
<1>3. CASE (StopServer /\ store' = EmptyStore) \/ (Load /\ UNCHANGED <<request, image, store>>)
  <2>1. ASSUME NEW w \in Writes
        PROVE  request'[w].st \notin {"pending", "sent", "acknowledged", "failed"}
    <3>1. RequestInv(request[w], Carried)
      BY <1>1 DEF ServerInv
    <3>2. CASE Load /\ UNCHANGED request
      BY <3>1, <3>2 DEF Load, RequestInv
    <3>3. CASE StopServer
      <4>1. request'[w] = CASE request[w].st \in {"pending", "acknowledged"} -> [st |-> "dropped"]
                            [] request[w].st \in {"sent", "failed"} ->
                                 [request[w] EXCEPT !.st = "lost"]
                            [] OTHER -> request[w]
        BY <3>3 DEF StopServer
      <4>2. CASE request[w].st \in {"pending", "acknowledged"}
        BY <4>1, <4>2
      <4>3. CASE request[w].st \in {"sent", "failed"}
        <5>1. IsWrite(request[w], Carried) /\ request'[w] = [request[w] EXCEPT !.st = "lost"]
          BY <3>1, <4>1, <4>3 DEF RequestInv
        <5>2. request'[w].st = "lost"
          BY <5>1 DEF IsWrite, Fields
        <5> QED
          BY <5>2
      <4>4. CASE request[w].st \notin {"pending", "sent", "acknowledged", "failed"}
        BY <4>1, <4>4
      <4> QED
        BY <4>2, <4>3, <4>4
    <3> QED
      BY <1>3, <3>2, <3>3
  <2>2. IsStored(store')
    BY <1>1, <1>3 DEF IsStored, EmptyStore
  <2>3. \A w \in Writes : RequestReads(w, request', image', config')
    BY <2>1 DEF RequestReads, Patched, Stands
  <2> QED
    BY <2>2, <2>3 DEF ReadInv, IsStored
<1>4. ASSUME NEW w \in Writes,
             Master(w) \/ Forward(w) \/ Execute(w) \/ Acknowledge(w) \/ Failed(w),
             UNCHANGED store
      PROVE  ReadInv'
  <2>1. config' = config
    BY <1>4 DEF Master, Submit, Forward, Execute, Acknowledge, Failed, configVars
  <2>2. PICK n : /\ request' = [request EXCEPT ![w] = n]
                 /\ MovesOn(request[w], n, image, image', config)
    BY <1>1, <1>4, ServerMoves
  <2>3. PICK req : req = request'
    OBVIOUS
  <2>4. PICK jm : jm = image'
    OBVIOUS
  <2>5. MovesOn(request[w], n, image, jm, config) /\ req = [request EXCEPT ![w] = n]
    BY <2>2, <2>3, <2>4
  <2>6. \A x \in Writes : RequestReads(x, req, jm, config)
    BY <1>1, <2>5, OneMoves
  <2> QED
    BY <1>1, <1>4, <2>1, <2>3, <2>4, <2>6 DEF ReadInv, IsStored
<1>5. ASSUME NEW w \in Writes, NEW d \in DeviceSet, NEW s \in Sensors,
             NEW v \in {<<>>} \cup {<<x>> : x \in Readings}, Patch(w, d, s, v)
      PROVE  ReadInv'
  <2>1. config' = config /\ image' = image /\ store' = store
    BY <1>5 DEF Patch, configVars
  <2>2. PICK n : /\ request' = [request EXCEPT ![w] = n]
                 /\ Begins(request[w], n, config) \/ Ends(request[w], n)
    BY <1>5, PatchCarries
  <2>3. PICK req : req = request'
    OBVIOUS
  <2>4. MovesOn(request[w], n, image, image, config) /\ req = [request EXCEPT ![w] = n]
    BY <2>2, <2>3 DEF MovesOn
  <2>5. \A x \in Writes : RequestReads(x, req, image, config)
    BY <1>1, <2>4, OneMoves
  <2> QED
    BY <1>1, <2>1, <2>3, <2>5 DEF ReadInv, IsStored
<1>6. ASSUME NEW d \in DeviceSet, Poll(d)
      PROVE  ReadInv'
  <2>1. UNCHANGED <<request, image, config>>
    BY <1>6 DEF Poll, configVars
  <2>2. IsStored(store')
    BY <1>1, <1>6, PollReads
  <2> QED
    BY <1>1, <2>1, <2>2 DEF ReadInv, IsStored
<1>7. CASE UNCHANGED redfishVars
  BY <1>1, <1>7 DEF redfishVars, ReadInv, IsStored
<1> QED
  BY <1>2, <1>3, <1>4, <1>5, <1>6, <1>7 DEF RedfishNext

\* What ReadsBack says of the poll of a device after a request.
AskedIsShown(w, d) ==
  /\ request[w].st \in {"sent", "acknowledged", "failed"}
  /\ request[w].executed /\ request[w].by = "redfish"
  /\ \A x \in Writes \ {w} : request[x].st = "idle"
  /\ Poll(d)
  => \A r \in ToSet(config.regs[d]) :
       request[w].device = d /\ request[w].sensor = r.sensor /\ r.words = 1 /\ r.sensor \notin Late =>
         BackAs(r.area, r.sensor, request[w].reading, Reading(config, store', r.sensor)[1])

\* A poll shows the reading that the only PATCH before it asked for.
LEMMA PollShows ==
  ASSUME RedfishInv, ConfigInv, ReadInv, NEW w \in Writes, NEW d \in DeviceSet
  PROVE  AskedIsShown(w, d)
<1> DEFINE n == request[w]
<1> SUFFICES ASSUME n.st \in {"sent", "acknowledged", "failed"}, n.executed,
                    n.by = "redfish", Alone(w, request), Poll(d),
                    NEW r \in ToSet(config.regs[d]), n.device = d, n.sensor = r.sensor,
                    r.words = 1, r.sensor \notin Late
             PROVE  BackAs(r.area, r.sensor, n.reading, Reading(config, store', r.sensor)[1])
  BY DEF AskedIsShown, Alone
<1> DEFINE s == r.sensor
<1>1. /\ RequestInv(n, Carried) /\ RequestReads(w, request, image, config) /\ IsStored(store)
      /\ config \in Config /\ UniqueSensors(config)
  BY DEF RedfishInv, ServerInv, ReadInv, ConfigInv, Valid
<1>2. PICK i \in DOMAIN config.regs[d] : r = config.regs[d][i]
  BY DEF ToSet
<1>3. <<d, i>> \in Places(config) /\ At(config, <<d, i>>) = r
  BY <1>2, PlaceFields DEF At
<1>4. r \in Register
  <2>1. config.regs[d] \in Seq(Register)
    BY <1>1 DEF Config
  <2> QED
    BY <1>2, <2>1
<1>5. n.target = <<d, r.area, r.addr>>
  <2>1. PICK j \in DOMAIN config.regs[d] :
           /\ config.regs[d][j].sensor = s
           /\ n.target = <<d, config.regs[d][j].area, config.regs[d][j].addr>>
    BY <1>1 DEF RequestInv, InPlace
  <2>2. <<d, j>> \in Places(config) /\ At(config, <<d, j>>) = config.regs[d][j]
    BY PlaceFields DEF At
  <2>3. <<d, j>> = <<d, i>>
    BY <1>1, <1>3, <2>1, <2>2 DEF UniqueSensors
  <2> QED
    BY <1>2, <2>1, <2>3
<1>6. image[<<d, r.area, r.addr>>] = n.words[1]
  BY <1>1, <1>5 DEF RequestReads, Stands
<1>7. /\ n.reading \in Int
      /\ n.words[1] = RawWord(r.area, ReverseScale(config, s, n.reading))
  <2>1. Carries(n, config)
    BY <1>1 DEF RequestReads, Patched
  <2>2. PICK p \in Places(config) :
          /\ At(config, p).sensor = s
          /\ n.words[1] = RawWord(At(config, p).area, ReverseScale(config, s, n.reading))
    BY <2>1 DEF Carries
  <2>3. p = <<d, i>>
    BY <1>1, <1>3, <2>2 DEF UniqueSensors
  <2> QED
    BY <1>3, <2>1, <2>2, <2>3 DEF Carries
<1>8. PICK out : out = store'
  OBVIOUS
<1>9. out[s] = <<n.words[1]>>
  <2>1. store'[config.regs[d][i].sensor] = <<Polled(d, config.regs[d][i])>>
    BY <1>1, <1>2, PollReads
  <2>2. Polled(d, r) = image[<<d, r.area, r.addr + 0>>]
    BY DEF Polled
  <2>3. r.addr + 0 = r.addr
    BY <1>4, LimitsAssumption DEF Register
  <2> QED
    BY <1>2, <1>6, <1>8, <2>1, <2>2, <2>3
<1>10. Reading(config, out, s)[1] = Shown(s, n.words[1])
  BY <1>9 DEF Reading, Shown
<1>11. BackAs(r.area, s, n.reading, Shown(s, n.words[1]))
  <2> DEFINE asked == n.reading
             x == n.words[1]
             area == r.area
  <2>1. /\ asked \in Int /\ x = RawWord(area, ReverseScale(config, s, asked))
        /\ s \in Sensors /\ s \notin Late
    BY <1>4, <1>7 DEF Register
  <2> HIDE DEF asked, x, area, s
  <2> QED
    BY <2>1, BackAgain DEF asked, x, area
<1> QED
  BY <1>8, <1>10, <1>11

\* A PATCH that a device executed, and that no other request disturbed, is what
\* the next poll of the device shows, as far as its word goes: for scales of either
\* sign, fractions among them, any readings and registers, whatever is added between,
\* and also when the answer came too late (reverse_scale, the cast to u16).
THEOREM PatchReadsBack == RedfishSpec => ReadsBack
<1>1. RedfishInit => ReadInv
  <2> SUFFICES ASSUME RedfishInit PROVE ReadInv
    OBVIOUS
  <2>1. \A w \in Writes : request[w].st = "idle"
    BY DEF RedfishInit, Init, Idle
  <2> QED
    BY <2>1 DEF RedfishInit, EmptyStore, ReadInv, IsStored, RequestReads, Patched, Stands
<1>2. RedfishInv /\ ConfigInv /\ ReadInv /\ [RedfishNext]_redfishVars => ReadInv'
  BY ReadInvStep
<1>3. RedfishInv /\ ConfigInv /\ ReadInv
        => [\A w \in Writes, d \in DeviceSet : AskedIsShown(w, d)]_redfishVars
  BY PollShows
<1>4. [][\A w \in Writes, d \in DeviceSet : AskedIsShown(w, d)]_redfishVars => ReadsBack
  BY PTL DEF ReadsBack, AskedIsShown, BackAs
<1> QED
  BY <1>1, <1>2, <1>3, <1>4, RedfishInvariant, RedfishRunsConfig, ConfigInvariant, PTL
     DEF RedfishSpec
=============================================================================
