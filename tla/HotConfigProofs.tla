-------------------------- MODULE HotConfigProofs --------------------------
(***************************************************************************)
(* Proofs about HotConfig, for any devices, initial files, additions and   *)
(* limits: every configuration that is in force, and every one in a file   *)
(* that was written whole, is valid; so the gateway starts again from its  *)
(* file, and no two registers share a word of their device.                *)
(***************************************************************************)
EXTENDS HotConfig, TLAPS

\* The inductive invariant: what is in force and what can be read is valid.
ConfigInv == /\ config \in Config
             /\ revision \in Nat
             /\ file \in Config \cup {Unreadable}
             /\ up \in BOOLEAN
             /\ Valid(config)
             /\ FileLoads

\* add_register keeps the types of a configuration.
LEMMA WithRegisterTyped ==
  ASSUME NEW c \in Config, NEW q \in Additions, Addable(c, q)
  PROVE  WithRegister(c, q) \in Config
<1>1. q.register \in Register /\ q.pipe \subseteq Sensors
  BY AdditionsAssumption
<1>2. q.device \in DeviceSet
  BY DEF Addable
<1>3. c.regs \in [DeviceSet -> Seq(Register)]
  BY DEF Config
<1>4. Append(c.regs[q.device], q.register) \in Seq(Register)
  <2>1. c.regs[q.device] \in Seq(Register)
    BY <1>2, <1>3
  <2> QED
    BY <1>1, <2>1
<1>5. [c.regs EXCEPT ![q.device] = Append(@, q.register)]
        \in [DeviceSet -> Seq(Register)]
  BY <1>3, <1>4
<1>6. c.pipes \cup q.pipe \in SUBSET Sensors
  BY <1>1 DEF Config
<1> QED
  BY <1>5, <1>6 DEF WithRegister, Config

\* The invariant holds initially and every step keeps it (update validates its
\* candidate, a start validates its file).
THEOREM ConfigInvariant == ConfigSpec => []ConfigInv
<1>1. ConfigInit => ConfigInv
  BY FilesAssumption DEF ConfigInit, ConfigInv, FileLoads
<1>2. ConfigInv /\ [ConfigNext]_configVars => ConfigInv'
  <2> SUFFICES ASSUME ConfigInv, [ConfigNext]_configVars
               PROVE  ConfigInv'
    OBVIOUS
  <2>1. ASSUME NEW q \in Additions, HotAdd(q)
        PROVE  ConfigInv'
    <3>1. config' \in Config
      BY <2>1, WithRegisterTyped DEF HotAdd, Accepted, ConfigInv
    <3>2. Valid(config')
      BY <2>1 DEF HotAdd, Accepted
    <3>3. file' \in {config', file, Unreadable}
      BY <2>1 DEF HotAdd
    <3>4. file' \in Config \cup {Unreadable}
      BY <3>1, <3>3 DEF ConfigInv
    <3>5. file' # Unreadable => Valid(file')
      BY <3>2, <3>3 DEF ConfigInv, FileLoads
    <3>6. revision' \in Nat /\ up' \in BOOLEAN
      BY <2>1 DEF HotAdd, ConfigInv
    <3>7. Valid(config)' /\ FileLoads'
      BY <3>2, <3>5 DEF FileLoads
    <3> QED
      BY <3>1, <3>4, <3>6, <3>7 DEF ConfigInv
  <2>2. CASE Stop
    BY <2>2 DEF Stop, ConfigInv, FileLoads
  <2>3. CASE Load
    BY <2>3 DEF Load, ConfigInv, FileLoads
  <2>4. CASE UNCHANGED configVars
    BY <2>4 DEF configVars, ConfigInv, FileLoads
  <2> QED
    BY <2>1, <2>2, <2>3, <2>4 DEF ConfigNext
<1> QED
  BY <1>1, <1>2, PTL DEF ConfigSpec

\* A file that was written whole can be loaded: the checks of update are the
\* checks of a start.
THEOREM WholeFilesLoad == ConfigSpec => []FileLoads
<1>1. ConfigInv => FileLoads
  BY DEF ConfigInv
<1> QED
  BY <1>1, ConfigInvariant, PTL

\* Registers that do not overlap, in the sense of validate, claim no common
\* word: half-open ranges compared by their ends.
LEMMA NoCommonWord ==
  ASSUME NEW r \in Register, NEW q \in Register,
         WellFormed(r), WellFormed(q), ~ Overlap(r, q)
  PROVE  {<<r.area, a>> : a \in r.addr..(r.addr + r.words - 1)}
           \cap {<<q.area, a>> : a \in q.addr..(q.addr + q.words - 1)} = {}
<1> SUFFICES ASSUME NEW a \in r.addr..(r.addr + r.words - 1),
                    NEW b \in q.addr..(q.addr + q.words - 1),
                    <<r.area, a>> = <<q.area, b>>
             PROVE  FALSE
  OBVIOUS
<1>1. r.addr \in Nat /\ q.addr \in Nat /\ r.words \in Nat /\ q.words \in Nat
  BY LimitsAssumption DEF Register
<1>2. r.count = r.words /\ q.count = q.words
  BY DEF WellFormed
<1>3. a = b /\ r.area = q.area
  OBVIOUS
<1>4. r.addr < q.addr + q.words /\ q.addr < r.addr + r.words
  BY <1>1, <1>3
<1> QED
  BY <1>2, <1>3, <1>4 DEF Overlap

\* Registers of a device never share a word, whatever was added, saved, lost
\* and loaded again.
THEOREM RegistersApart == ConfigSpec => []WordsDisjoint
<1>1. ConfigInv => WordsDisjoint
  <2> SUFFICES ASSUME ConfigInv,
                      NEW d \in DeviceSet,
                      NEW i \in DOMAIN config.regs[d],
                      NEW j \in DOMAIN config.regs[d],
                      i # j
               PROVE  {<<config.regs[d][i].area, a>> :
                         a \in config.regs[d][i].addr..
                               (config.regs[d][i].addr + config.regs[d][i].words - 1)}
                      \cap
                      {<<config.regs[d][j].area, a>> :
                         a \in config.regs[d][j].addr..
                               (config.regs[d][j].addr + config.regs[d][j].words - 1)}
                      = {}
    BY DEF WordsDisjoint
  <2> DEFINE r == config.regs[d][i]
             q == config.regs[d][j]
  <2>1. <<d, i>> \in Places(config) /\ <<d, j>> \in Places(config)
    BY DEF Places
  <2>2. At(config, <<d, i>>) = r /\ At(config, <<d, j>>) = q
    BY DEF At
  <2>3. r \in Register /\ q \in Register
    <3>1. config.regs[d] \in Seq(Register)
      BY DEF ConfigInv, Config
    <3> QED
      BY <3>1
  <2>4. RegistersValid(config)
    BY DEF ConfigInv, Valid
  <2>5. WellFormed(r) /\ WellFormed(q)
    BY <2>1, <2>2, <2>4 DEF RegistersValid
  <2>6. ~ Overlap(r, q)
    <3>1. <<d, i>>[1] = <<d, j>>[1] /\ <<d, i>> # <<d, j>>
      OBVIOUS
    <3> QED
      BY <2>1, <2>2, <2>4, <3>1 DEF RegistersValid
  <2> QED
    BY <2>3, <2>5, <2>6, NoCommonWord
<1> QED
  BY <1>1, ConfigInvariant, PTL
=============================================================================
