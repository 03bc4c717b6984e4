----------------------------- MODULE HotConfig -----------------------------
(***************************************************************************)
(* The configuration of the gateway: what validate accepts, the registers  *)
(* that create_register adds at run time through ConfigHandle::update, the *)
(* file it writes afterwards, and restarts that load that file.            *)
(*                                                                         *)
(* A register is a record of the fields other parts read: sensor, area     *)
(* (RegisterFunction), addr, words (the width of its value_type), count    *)
(* (the explicit count) and access.  The name of a register, which is      *)
(* unique within a device, is left out: a duplicate is refused like a      *)
(* duplicate sensor.  Checks of one device alone (ports, intervals) cannot *)
(* fail in an update, which changes registers and pipelines only.          *)
(*                                                                         *)
(* The runtime has one thread and create_register has no await, so an      *)
(* update with its save is one step; the process can stop within the save. *)
(*                                                                         *)
(* Unchecked, StartsOnly and NoCollision are faulty variants of the        *)
(* definitions below them; no action uses one.                             *)
(***************************************************************************)
EXTENDS Dependencies

CONSTANTS Devices,    \* the devices, in the order of the file
          Sensors,    \* identifiers of registers and computed sensors
          Files,      \* configurations the file may hold at first
          Additions,  \* the registers an operator tries to add
          MaxRegs,    \* registers a device may have (256 in the code)
          AddrMax     \* bound on a PCBA address (65535 in the code)

DeviceSet == {Devices[i] : i \in DOMAIN Devices}

Areas == {"coil", "discrete", "holding", "input"}

Register == [sensor : Sensors, area : Areas, addr : 0..AddrMax, words : {1, 2},
             count : {1, 2}, access : {"read", "read_write"}]

Config == [regs : [DeviceSet -> Seq(Register)], pipes : SUBSET Sensors,
           computed : Seq([sensor : Sensors, inputs : Seq(Sensors)])]

ASSUME DevicesAreDistinct ==
  /\ Devices # <<>>
  /\ Devices \in Seq(DeviceSet)
  /\ \A i, j \in DOMAIN Devices : Devices[i] = Devices[j] => i = j
ASSUME FilesAssumption == Files \subseteq Config
ASSUME AdditionsAssumption ==
  \A q \in Additions : /\ q.register \in Register
                       /\ q.pipe \subseteq Sensors
ASSUME LimitsAssumption == MaxRegs \in Nat /\ AddrMax \in Nat

\* What a save that fails after truncating the file leaves behind.  (A cut
\* between two tables would load as a shorter configuration: left out.)
Unreadable == [unreadable |-> TRUE]

VARIABLES
  config,    \* the shared configuration
  revision,  \* number of updates since the start of the process
  file,      \* content of the configuration file
  up         \* the gateway is running

configVars == <<config, revision, file, up>>

-----------------------------------------------------------------------------
(* Config::validate *)

\* The place of each register: its device and its position there.
Places(c) == UNION {{<<d, i>> : i \in DOMAIN c.regs[d]} : d \in DeviceSet}

At(c, p) == c.regs[p[1]][p[2]]

\* known_sensors: those with a register.
KnownSensors(c) == {At(c, p).sensor : p \in Places(c)}

\* What is demanded of a register alone.
WellFormed(r) ==
  /\ r.area \in {"coil", "discrete"} => r.words = 1
  /\ r.access = "read_write" => r.area \in {"coil", "holding"}
  /\ r.count = r.words
  /\ r.addr + r.words <= AddrMax

\* Registers are compared by their first address only.
StartsOnly(r, q) == r.area = q.area /\ r.addr = q.addr

\* Two registers of one device claim the same word.
Overlap(r, q) == /\ r.area = q.area
                 /\ r.addr < q.addr + q.count
                 /\ q.addr < r.addr + r.count

\* Computed sensors may have the identifier of a register.
NoCollision(c) ==
  \A p, q \in Places(c) : At(c, p).sensor = At(c, q).sensor => p = q

\* Identifiers are unique in the whole gateway.
UniqueSensors(c) ==
  /\ \A p, q \in Places(c) : At(c, p).sensor = At(c, q).sensor => p = q
  /\ KnownSensors(c) \cap Ids(c.computed) = {}
  /\ \A i, j \in DOMAIN c.computed :
       c.computed[i].sensor = c.computed[j].sensor => i = j

RegistersValid(c) ==
  /\ \A d \in DeviceSet : Len(c.regs[d]) \in 1..MaxRegs
  /\ \A p \in Places(c) : WellFormed(At(c, p))
  /\ \A p, q \in Places(c) :
       p[1] = q[1] /\ p # q => ~ Overlap(At(c, p), At(c, q))

ComputedValid(c) ==
  /\ \A j \in DOMAIN c.computed :
       /\ c.computed[j].inputs # <<>>
       /\ InputsOf(c.computed[j]) \subseteq KnownSensors(c) \cup Ids(c.computed)
  /\ Acyclic(c.computed)

Valid(c) == /\ RegistersValid(c)
            /\ UniqueSensors(c)
            /\ c.pipes \subseteq KnownSensors(c)
            /\ ComputedValid(c)

-----------------------------------------------------------------------------
(* Config::add_register *)

\* The checks add_register makes itself.
Addable(c, q) ==
  /\ q.register.sensor \notin KnownSensors(c)
  /\ q.device \in DeviceSet
  /\ q.register.addr + q.register.count <= AddrMax
  /\ \A i \in DOMAIN c.regs[q.device] :
       ~ Overlap(q.register, c.regs[q.device][i])
  /\ q.pipe \subseteq {q.register.sensor}

WithRegister(c, q) == [c EXCEPT !.regs[q.device] = Append(@, q.register),
                                !.pipes = @ \cup q.pipe]

\* An update that relies on the checks of add_register.
Unchecked(c, q) == Addable(c, q)

\* update commits the candidate: add_register and then validate accept it.
Accepted(c, q) == Addable(c, q) /\ Valid(WithRegister(c, q))

-----------------------------------------------------------------------------
(* Actions *)

\* create_register.  The save may succeed, fail to open the file, or fail (or
\* be cut off) when the file has been truncated; the update stands.
HotAdd(q) ==
  /\ up
  /\ Accepted(config, q)
  /\ config' = WithRegister(config, q)
  /\ revision' = revision + 1
  /\ file' \in {config', file, Unreadable}
  /\ UNCHANGED up

\* The process stops: shutdown, crash or kill.
Stop == /\ up
        /\ up' = FALSE
        /\ UNCHANGED <<config, revision, file>>

\* A start reads and validates the file, and gives up when that fails.
Load == /\ ~ up
        /\ file # Unreadable
        /\ Valid(file)
        /\ config' = file
        /\ revision' = 0
        /\ up' = TRUE
        /\ UNCHANGED file

ConfigInit == /\ file \in {c \in Files : Valid(c)}
              /\ config = file
              /\ revision = 0
              /\ up = TRUE

ConfigNext == (\E q \in Additions : HotAdd(q)) \/ Stop \/ Load

ConfigSpec == ConfigInit /\ [][ConfigNext]_configVars

-----------------------------------------------------------------------------
(* Properties *)

\* The state has its types, and no device has more registers than validate
\* allows.
ConfigTypeOK == /\ config \in Config
                /\ revision \in Nat
                /\ file \in Config \cup {Unreadable}
                /\ up \in BOOLEAN
                /\ \A d \in DeviceSet : Len(config.regs[d]) \in 1..MaxRegs

\* A file that was written whole can be loaded: the gateway starts again from
\* whatever updates it accepted.  The checks of add_register alone do not give
\* that, they do not know the computed sensors (config.rs 329, 245).
FileLoads == file # Unreadable => Valid(file)

\* Registers never share a word of their PCBA, so a write to one of them leaves
\* the readings of the others alone, whatever was added and reloaded.
WordsDisjoint ==
  \A d \in DeviceSet : \A i, j \in DOMAIN config.regs[d] :
    LET Claim(r) == {<<r.area, a>> : a \in r.addr..(r.addr + r.words - 1)}
    IN  i # j => Claim(config.regs[d][i]) \cap Claim(config.regs[d][j]) = {}
=============================================================================
