-------------------------- MODULE WindowsDiskProofs --------------------------
(***************************************************************************)
(* Proofs about WindowsDisk for every value of the constants: the loop     *)
(* index, the totals and every sample of Disk.check are well formed.       *)
(***************************************************************************)
EXTENDS WindowsDisk, TLAPS

USE DiskAssumption

\* The partition the loop is at is one of the partitions.
LEMMA CurrentPartition ==
    ASSUME NEW n \in 1 .. Len(PartSeq) PROVE PartSeq[n] \in Partitions
BY DEF Partitions

-----------------------------------------------------------------------------
(* Types.                                                                  *)

\* The samples of a step are samples when the new ones are.
LEMMA NewSamples ==
    ASSUME samples \subseteq Sample, samples' \ samples \subseteq Sample
    PROVE  samples' \subseteq Sample
OBVIOUS

\* A usage gauge of a partition, with a mount_point the loop can hold, is
\* a sample.
LEMMA GaugeSample ==
    ASSUME NEW p \in Partitions, NEW mt \in {Mount[q] : q \in Partitions} \cup {NoMount}
    PROVE  [metric |-> "disk.space_used_perc", device |-> Device[p],
            mount |-> mt, value |-> <<Used[p] * 100, Capacity[p]>>] \in Sample
BY DEF Sample

LEMMA TypeInit == Init => TypeOK
BY DEF Init, TypeOK

LEMMA TypeStep == TypeOK /\ [Next]_vars => TypeOK'
<1> SUFFICES ASSUME TypeOK, [Next]_vars PROVE TypeOK'
  OBVIOUS
<1>1. CASE Start
  BY <1>1 DEF Start, TypeOK
<1>2. CASE SkipPartition
  BY <1>2 DEF SkipPartition, TypeOK
<1>3. CASE PartitionFails
  <2>1. PartSeq[i] \in Partitions
    BY <1>3, CurrentPartition DEF PartitionFails, TypeOK
  <2>2. failDays' \in [Partitions -> SUBSET (0 .. MaxDay)]
    BY <1>3, <2>1 DEF PartitionFails, TypeOK
  <2>3. partErr' \subseteq Partitions /\ logDays' \in [Partitions -> SUBSET (0 .. MaxDay)]
    <3>1. LogOncePerDay(PartSeq[i])
      BY <1>3 DEF PartitionFails
    <3>2. CASE PartSeq[i] \in partErr
      BY <3>1, <3>2 DEF LogOncePerDay, TypeOK
    <3>3. CASE PartSeq[i] \notin partErr
      BY <2>1, <3>1, <3>3 DEF LogOncePerDay, TypeOK
    <3>4. QED BY <3>2, <3>3
  <2>4. QED BY <1>3, <2>2, <2>3 DEF PartitionFails, TypeOK
<1>4. CASE PartitionGauge
  <2> DEFINE p == PartSeq[i]
  <2>1. p \in Partitions
    BY <1>4, CurrentPartition DEF PartitionGauge, TypeOK
  <2>2. mount' \in {Mount[q] : q \in Partitions} \cup {NoMount}
    BY <1>4, <2>1 DEF PartitionGauge, TypeOK
  <2>3. samples' \subseteq Sample
    BY <1>4, <2>1, <2>2, GaugeSample DEF PartitionGauge, TypeOK
  <2>4. totalCap' \in Nat /\ totalUsed' \in Nat
    BY <1>4, <2>1 DEF PartitionGauge, TypeOK
  <2>5. QED BY <1>4, <2>2, <2>3, <2>4 DEF PartitionGauge, TypeOK
<1>5. CASE IoRates
  <2>1. samples' \subseteq Sample
    <3>1. \A d \in IoDevices :
             [metric |-> "io", device |-> d, mount |-> mount, value |-> <<>>] \in Sample
      BY DEF TypeOK, Sample
    <3>2. samples' \subseteq samples \cup
             {[metric |-> "io", device |-> d, mount |-> mount, value |-> <<>>] : d \in IoDevices}
      BY <1>5 DEF IoRates
    <3>3. QED BY <3>1, <3>2 DEF TypeOK
  <2>2. QED BY <1>5, <2>1 DEF IoRates, TypeOK
<1>6. CASE Rollup
  <2>1. InMiB(totalCap) \in Seq(Nat) /\ InMiB(totalUsed) \in Seq(Nat)
    BY DEF InMiB, MiB, TypeOK
  <2>2. samples' \subseteq Sample
    BY <1>6, <2>1 DEF Rollup, TypeOK, Sample
  <2>3. QED BY <1>6, <2>2 DEF Rollup, TypeOK
<1>7. CASE NewDay
  BY <1>7 DEF NewDay, TypeOK
<1>8. CASE UNCHANGED vars
  BY <1>8 DEF vars, TypeOK
<1>9. QED BY <1>1, <1>2, <1>3, <1>4, <1>5, <1>6, <1>7, <1>8 DEF Next

\* Every state of Disk.check and of the collector calling it is well typed,
\* for every partition list and every configured instance: the loop index
\* stays within the list, the totals are naturals and the error memory
\* holds only partitions and days that passed.
THEOREM TypeCorrect == Spec => []TypeOK
<1>1. Init => TypeOK BY TypeInit
<1>2. TypeOK /\ [Next]_vars => TypeOK' BY TypeStep
<1>3. QED BY <1>1, <1>2, PTL DEF Spec

=============================================================================
