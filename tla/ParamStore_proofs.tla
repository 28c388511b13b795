--------------------------- MODULE ParamStore_proofs ---------------------------
(* Proofs about the parameter store, for every set of parameters and every *)
(* range of the count.                                                     *)
EXTENDS ParamStore, TLAPS

(***************************************************************************)
(* What a power-on loads, and what a save leaves to be written.            *)
(***************************************************************************)

\* The image with the greatest count is the one that is loaded.
LEMMA BootsNewest ==
  ASSUME TypeOK, CountsTell, NEW p \in Partition, flash[p].whole,
         \A q \in Partition : flash[q].whole => flash[q].count <= flash[p].count
  PROVE  Boots = flash[p].params
BY DEF TypeOK, CountsTell, Partition, Image, Count, BothDamaged, Latest, Boots

LEMMA DefaultParams == Default \in Params
BY FactoryAssumption DEF Default, Params

LEMMA BootsParams == TypeOK => Boots \in Params
BY DefaultParams DEF TypeOK, Boots, BothDamaged, Latest, Image, Partition

\* The fields of the cache after param_to_flash has updated it.
LEMMA Started ==
  ASSUME TypeOK, NEW ids, NEW ram \in Params, NEW count \in Count,
         NEW p \in Partition, StartWrite(ids, ram, count, p)
  PROVE  /\ flash_param' \in [count : Count, part : Partition, params : Params]
         /\ flash_param'.count = count /\ flash_param'.part = p
         /\ flash_param'.params = [i \in Id |-> IF i \in Copied(ids) THEN ram[i]
                                                ELSE flash_param.params[i]]
         /\ pc' = "write" /\ asked' = ids /\ unverified' \in 0..2
<1> DEFINE params == [i \in Id |-> IF i \in Copied(ids) THEN ram[i] ELSE flash_param.params[i]]
<1>1. params \in Params
  BY DEF TypeOK, Params
<1> HIDE DEF params
<1>2. /\ flash_param' = [count |-> count, part |-> p, params |-> params]
      /\ pc' = "write" /\ asked' = ids /\ unverified' \in 0..2
  BY DEF StartWrite, params
<1>3. /\ flash_param' \in [count : Count, part : Partition, params : Params]
      /\ flash_param'.count = count /\ flash_param'.part = p /\ flash_param'.params = params
  BY <1>1, <1>2
<1> QED
  BY <1>2, <1>3 DEF params

\* Without a wrap, the next count is greater.
LEMMA NextCountTyped == TypeOK => NextCount \in Count
BY CountAssumption DEF TypeOK, NextCount, Count

LEMMA NextCountGreater ==
  ASSUME TypeOK, MayCount, ~MayWrap
  PROVE  NextCount \in Count /\ NextCount = flash_param.count + 1
BY CountAssumption DEF TypeOK, NextCount, MayCount, Count

LEMMA OtherTyped == TypeOK => Other \in Partition /\ Other # flash_param.part
BY DEF TypeOK, Other, Partition

(***************************************************************************)
(* Type correctness.                                                       *)
(***************************************************************************)
LEMMA TypeInit == Init => TypeOK
<1> SUFFICES ASSUME Init PROVE TypeOK
  OBVIOUS
<1>1. 0 \in Count /\ 0 \in Partition
  BY CountAssumption DEF Count, Partition
<1>2. Damaged \in Image
  BY <1>1, DefaultParams DEF Damaged, Image
<1>3. fresh \in BOOLEAN
  BY DEF Init
<1> QED
  BY <1>1, <1>2, <1>3, DefaultParams DEF Init, TypeOK

LEMMA TypeStep == TypeOK /\ [Next]_vars => TypeOK'
<1> SUFFICES ASSUME TypeOK, [Next]_vars PROVE TypeOK'
  OBVIOUS
<1>0. 0 \in Count /\ 1 \in Count /\ 0 \in Partition /\ 1 \in Partition
  BY CountAssumption DEF Count, Partition
<1>1. CASE PowerOn
  <2>1. BothDamaged \in BOOLEAN /\ Latest \in Partition /\ fresh' \in BOOLEAN
    BY <1>1, <1>0 DEF PowerOn, BothDamaged, Latest, Partition
  <2>2. flash[Latest].count \in Count
    BY <2>1 DEF TypeOK, Image
  <2>3. flash_param' \in [count : Count, part : Partition, params : Params]
    <3>1. CASE BothDamaged
      BY <1>1, <1>0, <3>1, DefaultParams DEF PowerOn
    <3>2. CASE ~BothDamaged
      BY <1>1, <2>1, <2>2, <3>2, BootsParams DEF PowerOn
    <3> QED
      BY <2>1, <3>1, <3>2
  <2>4. todo' \subseteq Partition /\ asked' = {} /\ pc' = "ready" /\ sram_param' \in Params
        /\ flash' = flash /\ unverified' = unverified
    BY <1>1, BootsParams DEF PowerOn
  <2> QED
    BY <2>1, <2>3, <2>4 DEF TypeOK
<1>2. CASE PowerLoss
  <2>1. fresh' \in BOOLEAN
    BY <1>2 DEF PowerLoss
  <2> QED
    BY <1>2, <1>0, <2>1, DefaultParams DEF PowerLoss, TypeOK
<1>3. CASE NextPartition
  <2>1. PICK count \in Count, p \in Partition :
          StartWrite(Id, sram_param, count, p) /\ todo' = todo \ {p}
    BY <1>3, <1>0, NextCountTyped DEF NextPartition
  <2>2. UNCHANGED <<flash, sram_param, fresh>>
    BY <1>3 DEF NextPartition
  <2>3. sram_param \in Params
    BY DEF TypeOK
  <2>4. flash_param' \in [count : Count, part : Partition, params : Params]
        /\ pc' = "write" /\ asked' = Id /\ unverified' \in 0..2
    BY <2>1, <2>3, Started
  <2> QED
    BY <2>1, <2>2, <2>4 DEF TypeOK
<1>4. CASE Erase \/ Write
  <2>1. [whole |-> TRUE, count |-> flash_param.count, params |-> flash_param.params] \in Image
    BY DEF TypeOK, Image
  <2>2. Damaged \in Image
    BY <1>0, DefaultParams DEF Damaged, Image
  <2>3. flash' \in [Partition -> Image]
    BY <1>4, <2>1, <2>2 DEF Erase, Write, TypeOK
  <2> QED
    BY <1>4, <2>3 DEF Erase, Write, TypeOK, cpu
<1>5. CASE Verified \/ WriteFails
  <2>1. fresh' \in BOOLEAN
    BY <1>5 DEF Verified, WriteFails
  <2>2. /\ UNCHANGED <<flash, flash_param, sram_param, asked>>
        /\ pc' = "ready" /\ (todo' = todo \/ todo' = {}) /\ unverified' \in {unverified, 0}
    BY <1>5 DEF Verified, WriteFails
  <2> QED
    BY <2>1, <2>2 DEF TypeOK
<1>6. ASSUME NEW i \in Id, NEW v \in Value, SetInMemory(i, v) PROVE TypeOK'
  BY <1>6 DEF SetInMemory, TypeOK, Params
<1>7. ASSUME NEW i \in Id, NEW v \in Value, SetInFlash(i, v) PROVE TypeOK'
  <2>1. sram_param' \in Params /\ UNCHANGED <<flash, todo, fresh>>
    BY <1>7 DEF SetInFlash, TypeOK, Params
  <2>2. StartWrite({i}, sram_param', NextCount, Other)
    BY <1>7 DEF SetInFlash
  <2>3. flash_param' \in [count : Count, part : Partition, params : Params]
        /\ pc' = "write" /\ asked' = {i} /\ unverified' \in 0..2
    BY <2>1, <2>2, Started, NextCountTyped, OtherTyped
  <2> QED
    BY <2>1, <2>3 DEF TypeOK
<1>8. ASSUME NEW ids \in SUBSET Id, StartWrite(ids, sram_param, NextCount, Other),
             UNCHANGED <<flash, sram_param, todo, fresh>>
      PROVE  TypeOK'
  <2>1. sram_param \in Params
    BY DEF TypeOK
  <2>2. flash_param' \in [count : Count, part : Partition, params : Params]
        /\ pc' = "write" /\ asked' = ids /\ unverified' \in 0..2
    BY <1>8, <2>1, Started, NextCountTyped, OtherTyped
  <2> QED
    BY <1>8, <2>2 DEF TypeOK
<1>9. CASE ToDefault
  <2>1. fresh' \in BOOLEAN
    BY <1>9 DEF ToDefault
  <2> QED
    BY <1>9, <2>1, DefaultParams DEF ToDefault, TypeOK
<1>10. CASE UNCHANGED vars
  BY <1>10 DEF TypeOK, vars, cpu
<1>11. ASSUME NEW i \in Id, ToFlash(i) PROVE TypeOK'
  BY <1>8, <1>11 DEF ToFlash
<1>12. CASE ToFlashAll
  BY <1>8, <1>12 DEF ToFlashAll
<1> QED
  BY <1>1, <1>2, <1>3, <1>4, <1>5, <1>6, <1>7, <1>9, <1>10, <1>11, <1>12 DEF Next

\* Every variable keeps its type, whatever fails, wraps or is reset.
THEOREM TypeCorrect == Spec => []TypeOK
<1> QED
  BY TypeInit, TypeStep, PTL DEF Spec
(***************************************************************************)
(* What holds though flash fails: the count tells which image is newest.   *)
(***************************************************************************)
LEMMA CountInit == Init => FInv
<1> SUFFICES ASSUME Init PROVE FInv
  OBVIOUS
<1>1. CountsTell /\ CacheIsNewest /\ VerifiesCache /\ Filling
  BY DEF Init, CountsTell, CacheIsNewest, VerifiesCache, Filling, Damaged, Partition
<1> QED
  BY <1>1, TypeInit DEF FInv

\* A call that starts to save its parameters uses a count no image has.
LEMMA SaveCounts ==
  ASSUME FInv, Idle, MayCount, ~MayWrap, NEW ids \in SUBSET Id, NEW ram \in Params,
         StartWrite(ids, ram, NextCount, Other), UNCHANGED <<flash, todo, fresh>>
  PROVE  CountsTell' /\ CacheIsNewest' /\ VerifiesCache' /\ Filling'
<1>1. /\ flash_param'.count = flash_param.count + 1 /\ pc' = "write"
  BY Started, NextCountGreater, OtherTyped DEF FInv
<1>2. todo' = {} /\ pc = "ready" /\ flash' = flash
  BY DEF Idle
<1>3. CacheIsNewest'
  <2> SUFFICES ASSUME NEW p \in Partition, flash[p].whole
               PROVE  flash[p].count < flash_param.count + 1
    BY <1>1, <1>2 DEF CacheIsNewest, NoNewer
  <2>1. flash[p].count \in Nat /\ flash_param.count \in Nat
    BY CountAssumption DEF FInv, TypeOK, Image, Count
  <2> QED
    BY <1>2, <2>1 DEF FInv, CacheIsNewest, NoNewer
<1> QED
  BY <1>1, <1>2, <1>3 DEF FInv, CountsTell, VerifiesCache, Filling, Partition

LEMMA CountStep ==
  ASSUME ~MayWrap, ~MayReset, FInv, [Next]_vars
  PROVE  FInv'
<1> USE DEF FInv
<1>0. TypeOK'
  BY TypeStep
<1>1. CASE PowerOn
  <2>1. CountsTell' /\ VerifiesCache'
    BY <1>1 DEF PowerOn, CountsTell, VerifiesCache
  <2>2. CacheIsNewest'
    <3>1. CASE BothDamaged
      BY <1>1, <3>1 DEF PowerOn, CacheIsNewest, NoNewer, BothDamaged
    <3>2. CASE ~BothDamaged
      <4>1. /\ flash' = flash /\ flash_param'.count = flash[Latest].count
            /\ flash_param'.params = flash[Latest].params
        BY <1>1, <3>2 DEF PowerOn, Boots
      <4> QED
        BY <3>2, <4>1 DEF TypeOK, CountsTell, CacheIsNewest, NoNewer, BothDamaged, Latest,
          Partition, Image, Count
    <3> QED
      BY <3>1, <3>2
  <2>3. Filling'
    BY <1>1 DEF PowerOn, Filling, BothDamaged, Partition
  <2> QED
    BY <1>0, <2>1, <2>2, <2>3
<1>2. CASE PowerLoss
  <2>1. CountsTell' /\ CacheIsNewest' /\ VerifiesCache' /\ Filling'
    BY <1>2 DEF PowerLoss, CountsTell, CacheIsNewest, VerifiesCache, Filling, Partition
  <2> QED
    BY <1>0, <2>1
<1>3. CASE NextPartition
  <2>1. pc = "ready" /\ todo # {} /\ UNCHANGED <<flash, sram_param, fresh>>
    BY <1>3 DEF NextPartition
  <2>2. CASE fresh
    <3>1. PICK p \in Partition :
            /\ p = (IF 0 \in todo THEN 0 ELSE 1)
            /\ StartWrite(Id, sram_param, 1, p) /\ todo' = todo \ {p}
      BY <1>3, <2>2 DEF NextPartition, Partition
    <3>2. /\ flash_param'.count = 1 /\ flash_param'.part = p /\ pc' = "write"
          /\ flash_param'.params = sram_param
      <4>1. 1 \in Count /\ sram_param \in Params
        BY CountAssumption DEF Count, TypeOK
      <4> QED
        BY <3>1, <4>1, Started DEF Copied, Params
    <3>3. CASE 0 \in todo
      <4>1. todo = Partition /\ \A q \in Partition : ~flash[q].whole
        BY <2>1, <2>2, <3>3 DEF Filling
      <4>2. p = 0 /\ todo' = {1}
        BY <3>1, <3>3, <4>1 DEF Partition
      <4>3. CountsTell' /\ CacheIsNewest' /\ VerifiesCache'
        BY <2>1, <3>2, <4>1 DEF CountsTell, CacheIsNewest, NoNewer, VerifiesCache
      <4>4. Filling'
        BY <2>1, <2>2, <3>2, <4>1, <4>2 DEF Filling, Partition
      <4> QED
        BY <1>0, <4>3, <4>4
    <3>4. CASE 0 \notin todo
      <4>1. todo = {1} /\ p = 1 /\ todo' = {}
        BY <2>1, <3>1, <3>4 DEF TypeOK, Partition
      <4>2. flash_param.count = 1 /\ flash_param.params = sram_param
        BY <2>2, <4>1 DEF Filling
      <4>3. CountsTell' /\ CacheIsNewest' /\ VerifiesCache'
        BY <2>1, <3>2, <4>2 DEF CountsTell, CacheIsNewest, NoNewer, VerifiesCache
      <4>4. Filling'
        BY <2>1, <2>2, <3>2, <4>1 DEF Filling, Partition
      <4> QED
        BY <1>0, <4>3, <4>4
    <3> QED
      BY <3>3, <3>4
  <2>3. CASE ~fresh
    <3>1. PICK p \in Partition :
            /\ p = (IF 0 \in todo THEN 0 ELSE 1) /\ MayCount
            /\ StartWrite(Id, sram_param, NextCount, p) /\ todo' = todo \ {p}
      BY <1>3, <2>3 DEF NextPartition, Partition
    <3>2. todo' = {}
      <4>1. todo # {} /\ todo \subseteq {0, 1} /\ todo' = todo \ {p}
        BY <1>3, <3>1 DEF NextPartition, TypeOK, Partition
      <4>2. 0 \in todo => todo # {0, 1}
        BY <2>1, <2>3 DEF Filling, Partition
      <4> QED
        BY <3>1, <4>1, <4>2
    <3>3. flash_param'.count = flash_param.count + 1 /\ pc' = "write"
      BY <3>1, Started, NextCountGreater DEF TypeOK
    <3>4. CacheIsNewest'
      <4> SUFFICES ASSUME NEW q \in Partition, flash[q].whole
                   PROVE  flash[q].count < flash_param.count + 1
        BY <2>1, <3>3 DEF CacheIsNewest, NoNewer
      <4>1. flash[q].count \in Nat /\ flash_param.count \in Nat
        BY CountAssumption DEF TypeOK, Image, Count
      <4> QED
        BY <2>1, <4>1 DEF CacheIsNewest, NoNewer
    <3> QED
      BY <1>0, <2>1, <2>3, <3>2, <3>3, <3>4 DEF CountsTell, VerifiesCache, Filling, Partition
  <2> QED
    BY <2>2, <2>3 DEF TypeOK
<1>4. CASE Erase
  <2>1. /\ flash' = [flash EXCEPT ![flash_param.part] = Damaged] /\ UNCHANGED cpu
        /\ pc = "write" /\ pc' = "erased"
    BY <1>4 DEF Erase
  <2>2. \A p \in Partition : flash'[p].whole => flash'[p] = flash[p]
    BY <2>1 DEF TypeOK, Damaged
  <2>3. CountsTell' /\ CacheIsNewest' /\ VerifiesCache'
    BY <2>1, <2>2 DEF CountsTell, CacheIsNewest, NoNewer, VerifiesCache, Partition, cpu
  <2>4. Filling'
    BY <2>1, <2>2 DEF Filling, TypeOK, cpu
  <2> QED
    BY <1>0, <2>3, <2>4
<1>5. CASE Write
  <2>1. UNCHANGED cpu /\ pc = "erased" /\ pc' = "verify"
    BY <1>5 DEF Write
  <2>2. Has(flash_param.part)' /\ \A p \in Partition : p # flash_param.part => flash'[p] = flash[p]
    BY <1>5 DEF Write, Has, TypeOK, cpu
  <2>3. CacheIsNewest' /\ VerifiesCache'
    BY <2>1, <2>2 DEF CacheIsNewest, NoNewer, VerifiesCache, Has, TypeOK, cpu
  <2>4. CountsTell'
    BY <2>1, <2>2, <2>3 DEF CountsTell, CacheIsNewest, NoNewer, Has, TypeOK, Partition, Image, Count, cpu
  <2>5. Filling'
    BY <2>1, <2>2 DEF Filling, TypeOK, Partition, cpu
  <2> QED
    BY <1>0, <2>3, <2>4, <2>5
<1>6. CASE Verified \/ WriteFails
  <2>1. /\ UNCHANGED <<flash, flash_param, sram_param>> /\ pc # "off" /\ pc' = "ready"
        /\ todo' \in {todo, {}} /\ pc # "ready"
    BY <1>6 DEF Verified, WriteFails
  <2>2. CountsTell' /\ CacheIsNewest' /\ VerifiesCache'
    BY <2>1 DEF CountsTell, CacheIsNewest, NoNewer, VerifiesCache
  <2>3. fresh' => fresh
    BY <1>6 DEF Verified, WriteFails
  <2>4. Filling'
    BY <2>1, <2>3 DEF Filling, Partition
  <2> QED
    BY <1>0, <2>2, <2>4
<1>7. ASSUME NEW i \in Id, NEW v \in Value, SetInMemory(i, v) PROVE FInv'
  <2>1. CountsTell' /\ CacheIsNewest' /\ VerifiesCache' /\ Filling'
    BY <1>7 DEF SetInMemory, Idle, CountsTell, CacheIsNewest, NoNewer, VerifiesCache, Has, Filling,
      Partition
  <2> QED
    BY <1>0, <2>1
<1>8. ASSUME NEW i \in Id, NEW v \in Value, SetInFlash(i, v) PROVE FInv'
  <2>1. sram_param' \in Params
    BY <1>0 DEF TypeOK
  <2> QED
    BY <1>0, <1>8, <2>1, SaveCounts DEF SetInFlash
<1>9. ASSUME NEW i \in Id, ToFlash(i) PROVE FInv'
  BY <1>0, <1>9, SaveCounts DEF ToFlash, TypeOK
<1>10. CASE ToFlashAll
  BY <1>0, <1>10, SaveCounts DEF ToFlashAll, TypeOK
<1>11. CASE ToDefault
  BY <1>11 DEF ToDefault
<1>12. CASE UNCHANGED vars
  BY <1>0, <1>12 DEF vars, cpu, CountsTell, CacheIsNewest, NoNewer, VerifiesCache, Has, Filling
<1> QED
  BY <1>1, <1>2, <1>3, <1>4, <1>5, <1>6, <1>7, <1>8, <1>9, <1>10, <1>11, <1>12 DEF Next

LEMMA VerifyBoots == FInv => SavedBoots
<1> SUFFICES ASSUME FInv, pc = "verify" PROVE Boots = flash_param.params
  BY DEF SavedBoots
<1>1. Has(flash_param.part) /\ flash_param.part \in Partition
  BY DEF FInv, VerifiesCache, TypeOK
<1>2. \A q \in Partition : flash[q].whole => flash[q].count <= flash[flash_param.part].count
  BY <1>1, CountAssumption DEF FInv, CacheIsNewest, NoNewer, Has, TypeOK, Image, Count
<1> QED
  BY <1>1, <1>2, BootsNewest DEF FInv, Has

\* A write that went through is what the next power-on loads, whichever writes failed before.
THEOREM SavesBoot ==
  ASSUME ~MayWrap, ~MayReset
  PROVE  Spec => []SavedBoots
<1>1. FInv => SavedBoots
  BY VerifyBoots
<1>2. FInv /\ [Next]_vars => FInv'
  BY CountStep
<1> QED
  BY CountInit, <1>1, <1>2, PTL DEF Spec
(***************************************************************************)
(* What holds as long as flash does not fail: a save is atomic.            *)
(***************************************************************************)

LEMMA TwoPartitions ==
  ASSUME TypeOK
  PROVE  /\ flash_param.part \in Partition /\ Other \in Partition
         /\ flash_param.part # Other /\ Partition = {flash_param.part, Other}
BY OtherTyped DEF TypeOK, Other, Partition

LEMMA Counts == TypeOK => /\ flash_param.count \in Nat
                          /\ \A p \in Partition : flash[p].count \in Nat
BY CountAssumption DEF TypeOK, Image, Count

\* The image with the greatest count is loaded, and the other one comes before it.
LEMMA BootsTwo ==
  ASSUME TypeOK, CountsTell, NEW p \in Partition, NEW q \in Partition, p # q, flash[p].whole,
         flash[q].whole => flash[q].count <= flash[p].count
  PROVE  /\ Boots = flash[p].params
         /\ Earlier = IF flash[q].whole THEN flash[q].params ELSE Boots
BY DEF TypeOK, CountsTell, Partition, Image, Count, BothDamaged, Latest, Boots, Earlier

\* What a power-on would load depends on the flash only.
LEMMA BootsSame == UNCHANGED flash => Boots' = Boots /\ Earlier' = Earlier
BY DEF Boots, Earlier, BothDamaged, Latest

\* Between two writes, the cache is what a power-on would load.
LEMMA BootsCache ==
  ASSUME IInv, pc = "ready", ~fresh
  PROVE  /\ flash[flash_param.part].whole /\ Boots = flash_param.params
         /\ flash[flash_param.part].count = flash_param.count
         /\ flash[Other].whole => flash[Other].count <= flash_param.count
<1>1. Has(flash_param.part) /\ NoNewer(Other)
  BY TwoPartitions DEF IInv, CacheIsWritten
<1>2. flash[Other].whole => flash[Other].count <= flash_param.count
  BY <1>1, TwoPartitions, Counts DEF IInv, NoNewer
<1> QED
  BY <1>1, <1>2, TwoPartitions, BootsTwo DEF IInv, Has

\* A call that finds nothing to write is not in a reset.
LEMMA IdleNotFresh == IInv /\ Idle => ~fresh
BY DEF IInv, Idle, ResetPhases, Writing

\* A save of the parameters ids starts.
LEMMA SaveStarts ==
  ASSUME IInv, TypeOK', pc = "ready", ~fresh, MayCount, ~MayWrap,
         NEW ids \in SUBSET Id, ids = Id \/ \E i \in Id : ids = {i},
         NEW ram \in Params, sram_param' = ram,
         StartWrite(ids, ram, NextCount, Other), todo' = {}, UNCHANGED <<flash, fresh>>
  PROVE  IInv'
<1>1. /\ flash_param'.part = Other /\ pc' = "write" /\ asked' = ids
      /\ flash_param'.count = flash_param.count + 1
      /\ flash_param'.params = [i \in Id |-> IF i \in Copied(ids) THEN ram[i]
                                             ELSE flash_param.params[i]]
  BY Started, NextCountGreater, OtherTyped DEF IInv
<1>2. /\ flash[flash_param.part].whole /\ Boots = flash_param.params
      /\ flash[flash_param.part].count = flash_param.count
      /\ flash[Other].whole => flash[Other].count <= flash_param.count
  BY BootsCache
<1>3. Other' = flash_param.part
  BY <1>1, TwoPartitions DEF IInv, TypeOK, Other, Partition
<1>4. \A p \in Partition : flash[p].whole => flash[p].count < flash_param'.count
  BY <1>1, <1>2, TwoPartitions, Counts DEF IInv
<1>5. NewestIsKept'
  <2>1. flash'[Other'].whole /\ flash'[Other'].count < flash_param'.count
    BY <1>2, <1>3, <1>4, TwoPartitions DEF IInv
  <2>2. flash'[flash_param'.part].whole =>
          pc' = "write" /\ flash'[flash_param'.part].count <= flash'[Other'].count
    BY <1>1, <1>2, <1>3
  <2>3. flash_param'.params = [i \in Id |-> IF i \in Copied(asked') THEN sram_param'[i]
                                             ELSE Boots'[i]]
    BY <1>1, <1>2, BootsSame
  <2> QED
    BY <1>1, <2>1, <2>2, <2>3 DEF NewestIsKept
<1>6. CacheIsWritten'
  BY <1>1, <1>4 DEF CacheIsWritten, NoNewer
<1>7. CountsTell' /\ VerifiesCache' /\ ResetPhases'
  BY <1>1 DEF IInv, CountsTell, VerifiesCache, ResetPhases, Partition
<1>8. flash_param'.count >= 1
  BY <1>1, Counts DEF IInv
<1>9. CountsFromOne'
  BY <1>8 DEF IInv, CountsFromOne
<1> QED
  BY <1>5, <1>6, <1>7, <1>9 DEF IInv

\* Erasing spares the newest image, and only forgets the one before it.
LEMMA EraseSpares ==
  ASSUME IInv, Erase, ~fresh
  PROVE  Boots' = Boots /\ Earlier' = Boots
<1>1. /\ flash[Other].whole
      /\ flash[flash_param.part].whole => flash[flash_param.part].count <= flash[Other].count
  BY DEF Erase, IInv, NewestIsKept
<1>2. Boots = flash[Other].params
  BY <1>1, TwoPartitions, BootsTwo DEF IInv
<1>3. ~flash'[flash_param.part].whole /\ flash'[Other] = flash[Other]
  BY TwoPartitions DEF Erase, IInv, TypeOK, Damaged
<1>4. Boots' = flash'[Other].params /\ Earlier' = flash'[Other].params
  BY <1>1, <1>3, TwoPartitions DEF IInv, Boots, Earlier, BothDamaged, Latest, Partition
<1> QED
  BY <1>2, <1>3, <1>4

\* A save that is written is what a power-on would load, and what it would have loaded is kept.
LEMMA WriteSaves ==
  ASSUME IInv, Write, ~fresh
  PROVE  Boots' = flash_param.params /\ Earlier' = Boots
<1>1. flash[Other].whole /\ flash[Other].count < flash_param.count /\ ~flash[flash_param.part].whole
  BY DEF Write, IInv, NewestIsKept
<1>2. Boots = flash[Other].params
  BY <1>1, TwoPartitions, BootsTwo DEF IInv
<1>3. /\ flash'[flash_param.part].whole /\ flash'[flash_param.part].count = flash_param.count
      /\ flash'[flash_param.part].params = flash_param.params /\ flash'[Other] = flash[Other]
  BY TwoPartitions DEF Write, IInv, TypeOK
<1>4. Boots' = flash'[flash_param.part].params /\ Earlier' = flash'[Other].params
  BY <1>1, <1>3, TwoPartitions, Counts DEF IInv, Boots, Earlier, BothDamaged, Latest, Partition
<1> QED
  BY <1>2, <1>3, <1>4

LEMMA AtomicInit == Init => IInv
<1> SUFFICES ASSUME Init PROVE IInv
  OBVIOUS
<1>1. CountsTell /\ VerifiesCache /\ ResetPhases /\ NewestIsKept
  BY DEF Init, CountsTell, VerifiesCache, ResetPhases, NewestIsKept, Writing, Damaged, Partition
<1>2. CountsFromOne /\ CacheIsWritten
  BY DEF Init, CountsFromOne, CacheIsWritten, Damaged, Partition
<1> QED
  BY <1>1, <1>2, TypeInit DEF IInv

LEMMA AtomicStep ==
  ASSUME ~MayWrap, ~MayFail, IInv, [Next]_vars
  PROVE  IInv'
<1> USE DEF IInv
<1>0. TypeOK'
  BY TypeStep
<1>1. CASE PowerOn
  <2>1. flash' = flash /\ pc' = "ready" /\ todo' = {p \in Partition : ~flash[p].whole}
    BY <1>1 DEF PowerOn
  <2>2. CountsTell' /\ VerifiesCache' /\ NewestIsKept'
    BY <2>1 DEF CountsTell, VerifiesCache, NewestIsKept
  <2>3. CASE BothDamaged
    <3>1. todo' = Partition /\ fresh' /\ sram_param' = Default
      BY <1>1, <2>3 DEF PowerOn, Boots, BothDamaged
    <3>2. ResetPhases'
      BY <2>1, <3>1 DEF ResetPhases, Writing, Partition
    <3>3. CountsFromOne' /\ CacheIsWritten'
      BY <2>1, <3>1 DEF CountsFromOne, CacheIsWritten
    <3> QED
      BY <1>0, <2>2, <3>2, <3>3
  <2>4. CASE ~BothDamaged
    <3>1. Latest \in Partition /\ flash[Latest].whole
      BY <2>4 DEF BothDamaged, Latest, Partition
    <3>2. /\ ~fresh' /\ flash_param'.count = flash[Latest].count /\ flash_param'.part = Latest
          /\ flash_param'.params = flash[Latest].params
      BY <1>1, <2>4 DEF PowerOn, Boots
    <3>3. todo' \subseteq {1 - Latest} /\ Other' = 1 - Latest
      BY <2>1, <3>1, <3>2 DEF Other, Partition
    <3>4. Has(flash_param.part)'
      BY <2>1, <3>1, <3>2 DEF Has, TypeOK, Image
    <3>5. \A p \in Partition : NoNewer(p)'
      BY <2>1, <2>4, <3>2 DEF NoNewer, CountsTell, BothDamaged, Latest, TypeOK, Image, Count, Partition
    <3>6. CacheIsWritten'
      BY <2>1, <3>2, <3>3, <3>4, <3>5 DEF CacheIsWritten
    <3>7. ResetPhases' /\ CountsFromOne'
      BY <2>1, <3>1, <3>2 DEF ResetPhases, CountsFromOne, Writing
    <3> QED
      BY <1>0, <2>2, <3>6, <3>7
  <2> QED
    BY <2>3, <2>4
<1>2. CASE PowerLoss
  <2>1. flash' = flash /\ pc' = "off" /\ todo' = {} /\ ~fresh'
    BY <1>2 DEF PowerLoss
  <2> QED
    BY <1>0, <2>1 DEF CountsTell, VerifiesCache, ResetPhases, CountsFromOne, CacheIsWritten,
      NewestIsKept, Writing
<1>3. CASE NextPartition
  <2>1. pc = "ready" /\ todo # {} /\ UNCHANGED <<flash, sram_param, fresh>>
    BY <1>3 DEF NextPartition
  <2>2. CASE fresh
    <3>1. PICK p \in Partition :
            /\ p = (IF 0 \in todo THEN 0 ELSE 1)
            /\ StartWrite(Id, sram_param, 1, p) /\ todo' = todo \ {p}
      BY <1>3, <2>2 DEF NextPartition, Partition
    <3>2. sram_param = Default /\ todo \in {Partition, {1}}
      BY <2>1, <2>2 DEF ResetPhases
    <3>3. /\ flash_param'.count = 1 /\ flash_param'.part = p /\ pc' = "write"
          /\ flash_param'.params = Default
      <4>1. 1 \in Count /\ sram_param \in Params
        BY CountAssumption DEF Count, TypeOK
      <4> QED
        BY <3>1, <3>2, <4>1, Started DEF Copied, Default
    <3>4. \/ p = 0 /\ todo' = {1}
          \/ p = 1 /\ todo' = {} /\ Fresh(0)
      <4>1. CASE todo = Partition
        BY <3>1, <4>1 DEF Partition
      <4>2. CASE todo = {1}
        <5>1. Has(flash_param.part) /\ flash_param.part = 0 /\ flash_param.count = 1
              /\ flash_param.params = Default
          BY <2>1, <2>2, <4>2 DEF CacheIsWritten, ResetPhases, Partition
        <5> QED
          BY <3>1, <4>2, <5>1 DEF Has, Fresh
      <4> QED
        BY <3>2, <4>1, <4>2
    <3>5. ResetPhases'
      BY <2>1, <2>2, <3>2, <3>3, <3>4 DEF ResetPhases, Writing, Fresh, Partition
    <3>6. CountsTell' /\ VerifiesCache' /\ CountsFromOne' /\ CacheIsWritten' /\ NewestIsKept'
      BY <2>1, <2>2, <3>3 DEF CountsTell, VerifiesCache, CountsFromOne, CacheIsWritten, NewestIsKept
    <3> QED
      BY <1>0, <3>5, <3>6
  <2>3. CASE ~fresh
    <3>1. todo = {Other}
      BY <2>1, <2>3 DEF CacheIsWritten
    <3>2. MayCount /\ StartWrite(Id, sram_param, NextCount, Other) /\ todo' = {}
      BY <1>3, <2>3, <3>1, TwoPartitions DEF NextPartition, Partition
    <3>3. sram_param' \in Params
      BY <1>0 DEF TypeOK
    <3> QED
      BY <1>0, <2>1, <2>3, <3>2, <3>3, SaveStarts
  <2> QED
    BY <2>2, <2>3
<1>4. CASE Erase
  <2>1. pc = "write" /\ pc' = "erased" /\ UNCHANGED cpu /\ Other' = Other
    BY <1>4 DEF Erase, cpu, Other
  <2>2. /\ ~flash'[flash_param.part].whole
        /\ \A p \in Partition : p # flash_param.part => flash'[p] = flash[p]
    BY <1>4 DEF Erase, TypeOK, Damaged
  <2>3. \A p \in Partition : flash'[p].whole => flash'[p] = flash[p]
    BY <2>2
  <2>4. NewestIsKept'
    <3>1. CASE fresh
      BY <2>1, <3>1 DEF NewestIsKept, cpu
    <3>2. CASE ~fresh
      <4>1. Boots' = Boots /\ flash'[Other] = flash[Other]
        BY <1>4, <2>2, <3>2, EraseSpares, TwoPartitions
      <4> QED
        BY <2>1, <2>2, <3>2, <4>1 DEF NewestIsKept, cpu
    <3> QED
      BY <3>1, <3>2
  <2>5. CountsTell' /\ VerifiesCache'
    BY <2>1, <2>3 DEF CountsTell, VerifiesCache, Partition
  <2>6. ResetPhases'
    BY <2>1, <2>2 DEF ResetPhases, Writing, Fresh, Partition, cpu
  <2>7. CountsFromOne'
    BY <2>1, <2>3 DEF CountsFromOne, cpu
  <2>8. CacheIsWritten'
    BY <2>1, <2>3 DEF CacheIsWritten, NoNewer, ResetPhases, Writing, cpu
  <2> QED
    BY <1>0, <2>4, <2>5, <2>6, <2>7, <2>8
<1>5. CASE Write
  <2>1. pc = "erased" /\ pc' = "verify" /\ UNCHANGED cpu
    BY <1>5 DEF Write
  <2>2. /\ Has(flash_param.part)'
        /\ \A p \in Partition : p # flash_param.part => flash'[p] = flash[p]
    BY <1>5 DEF Write, Has, TypeOK, cpu
  <2>3. /\ flash'[flash_param.part].whole /\ flash'[flash_param.part].count = flash_param.count
        /\ flash'[flash_param.part].params = flash_param.params /\ flash'[Other] = flash[Other]
    BY <2>1, <2>2, TwoPartitions DEF Has, cpu
  <2>4. ~(fresh /\ todo = Partition) /\ flash_param.count >= 1
    BY <2>1 DEF ResetPhases, CountsFromOne
  <2>5. flash_param.count = 1 => flash_param.params = Default
    <3>1. CASE fresh
      BY <2>4, <3>1 DEF ResetPhases
    <3>2. CASE ~fresh
      <4>1. flash[Other].count >= 1 /\ flash[Other].count < flash_param.count
        BY <2>1, <3>2, TwoPartitions DEF NewestIsKept, CountsFromOne
      <4> QED
        BY <4>1, TwoPartitions, Counts
    <3> QED
      BY <3>1, <3>2
  <2>6. CountsTell'
    <3>1. flash[Other].whole /\ flash[Other].count = flash_param.count
            => flash[Other].params = flash_param.params
      <4>1. CASE fresh
        <5>1. flash_param.count = 1
          BY <2>4, <4>1 DEF ResetPhases
        <5> QED
          BY <2>5, <5>1, TwoPartitions DEF CountsFromOne
      <4>2. CASE ~fresh
        BY <2>1, <4>2, TwoPartitions, Counts DEF NewestIsKept
      <4> QED
        BY <4>1, <4>2
    <3> QED
      BY <2>3, <3>1, TwoPartitions DEF CountsTell, Partition
  <2>7. CountsFromOne'
    BY <2>1, <2>3, <2>4, <2>5, TwoPartitions DEF CountsFromOne, cpu
  <2>8. ResetPhases'
    BY <2>1, <2>2 DEF ResetPhases, Writing, Fresh, Partition, cpu
  <2>9. CacheIsWritten'
    <3>1. ~fresh => \A p \in Partition : NoNewer(p)'
      BY <2>1, <2>3, TwoPartitions DEF CacheIsWritten, NoNewer, cpu
    <3> QED
      BY <2>1, <3>1 DEF CacheIsWritten, ResetPhases, Writing, cpu
  <2>10. VerifiesCache' /\ NewestIsKept'
    BY <2>1, <2>2 DEF VerifiesCache, NewestIsKept
  <2> QED
    BY <1>0, <2>6, <2>7, <2>8, <2>9, <2>10
<1>6. CASE Verified
  <2>1. /\ pc = "verify" /\ pc' = "ready" /\ UNCHANGED <<flash, flash_param, sram_param, todo, asked>>
        /\ Other' = Other
    BY <1>6 DEF Verified, Other
  <2>2. Has(flash_param.part)' /\ (fresh' => fresh /\ todo # {})
    BY <1>6, <2>1 DEF Verified, VerifiesCache, Has
  <2>3. ~fresh' => todo = {}
    BY <1>6, <2>1 DEF Verified, ResetPhases, Writing
  <2>4. ~fresh' => \A p \in Partition : NoNewer(p)
    <3>1. CASE fresh /\ ~fresh'
      <4>1. todo = {} /\ flash_param.part = 1 /\ flash_param.count = 1
            /\ flash_param.params = Default /\ Fresh(0)
        BY <2>3, <3>1 DEF ResetPhases, Partition
      <4> QED
        BY <2>1, <4>1 DEF VerifiesCache, Has, Fresh, NoNewer, Partition
    <3>2. CASE ~fresh
      BY <2>1, <3>2 DEF CacheIsWritten
    <3> QED
      BY <3>1, <3>2
  <2>5. CacheIsWritten'
    <3>1. \A p \in Partition : NoNewer(p) => NoNewer(p)'
      BY <2>1 DEF NoNewer
    <3> QED
      BY <2>1, <2>2, <2>3, <2>4, <3>1 DEF CacheIsWritten
  <2>6. ResetPhases'
    BY <2>1, <2>2, <2>3 DEF ResetPhases, Writing
  <2>7. CountsTell' /\ VerifiesCache' /\ NewestIsKept'
    BY <2>1 DEF CountsTell, VerifiesCache, NewestIsKept
  <2>8. CountsFromOne'
    BY <2>1 DEF CountsFromOne, ResetPhases
  <2> QED
    BY <1>0, <2>5, <2>6, <2>7, <2>8
<1>7. CASE WriteFails
  BY <1>7 DEF WriteFails
<1>8. ASSUME NEW i \in Id, NEW v \in Value, SetInMemory(i, v) PROVE IInv'
  <2>1. /\ ~fresh /\ UNCHANGED <<flash, flash_param, pc, todo, fresh, asked>> /\ pc = "ready"
        /\ Other' = Other
    BY <1>8, IdleNotFresh DEF SetInMemory, Idle, Other
  <2>2. CountsTell' /\ VerifiesCache' /\ ResetPhases' /\ NewestIsKept'
    BY <2>1 DEF CountsTell, VerifiesCache, ResetPhases, NewestIsKept, Writing
  <2>3. CountsFromOne' /\ CacheIsWritten'
    BY <2>1 DEF CountsFromOne, CacheIsWritten, Has, NoNewer
  <2> QED
    BY <1>0, <2>2, <2>3
<1>9. ASSUME NEW i \in Id, NEW v \in Value, SetInFlash(i, v) PROVE IInv'
  <2>1. sram_param' \in Params /\ ~fresh
    BY <1>0, <1>9, IdleNotFresh DEF TypeOK, SetInFlash
  <2> QED
    BY <1>0, <1>9, <2>1, SaveStarts DEF SetInFlash, Idle
<1>10. ASSUME NEW i \in Id, ToFlash(i) PROVE IInv'
  <2>1. sram_param' \in Params /\ ~fresh
    BY <1>0, <1>10, IdleNotFresh DEF TypeOK, ToFlash
  <2> QED
    BY <1>0, <1>10, <2>1, SaveStarts DEF ToFlash, Idle
<1>11. CASE ToFlashAll
  <2>1. sram_param' \in Params /\ ~fresh
    BY <1>0, <1>11, IdleNotFresh DEF TypeOK, ToFlashAll
  <2> QED
    BY <1>0, <1>11, <2>1, SaveStarts DEF ToFlashAll, Idle
<1>12. CASE ToDefault
  <2>1. /\ flash' = flash /\ pc' = "ready" /\ todo' = Partition /\ fresh' /\ sram_param' = Default
    BY <1>12 DEF ToDefault, Idle
  <2>2. CountsTell' /\ VerifiesCache' /\ NewestIsKept'
    BY <2>1 DEF CountsTell, VerifiesCache, NewestIsKept
  <2>3. ResetPhases'
    BY <2>1 DEF ResetPhases, Writing, Partition
  <2>4. CountsFromOne' /\ CacheIsWritten'
    BY <2>1 DEF CountsFromOne, CacheIsWritten
  <2> QED
    BY <1>0, <2>2, <2>3, <2>4
<1>13. CASE UNCHANGED vars
  <2>1. UNCHANGED <<flash, flash_param, sram_param, pc, todo, fresh, asked>> /\ Other' = Other
    BY <1>13 DEF vars, cpu, Other
  <2>2. CountsTell' /\ VerifiesCache' /\ ResetPhases'
    BY <2>1 DEF CountsTell, VerifiesCache, ResetPhases, Writing, Fresh, Has
  <2>3. CountsFromOne' /\ CacheIsWritten' /\ NewestIsKept'
    BY <2>1, BootsSame DEF CountsFromOne, CacheIsWritten, NewestIsKept, Has, NoNewer
  <2> QED
    BY <1>0, <2>2, <2>3
<1> QED
  BY <1>1, <1>2, <1>3, <1>4, <1>5, <1>6, <1>7, <1>8, <1>9, <1>10, <1>11, <1>12, <1>13 DEF Next

(***************************************************************************)
(* The store implements the register.                                      *)
(***************************************************************************)
LEMMA RegisterInit == Init => Register!Init
<1> SUFFICES ASSUME Init PROVE Register!Init
  OBVIOUS
<1>1. \A p \in Partition : ~flash[p].whole
  BY DEF Init, Damaged
<1>2. Boots = Default /\ Latest \in Partition
  BY <1>1 DEF Boots, BothDamaged, Latest, Partition
<1>3. Earlier = Default
  BY <1>1, <1>2 DEF Earlier, Partition
<1> QED
  BY <1>2, <1>3 DEF Init, Register!Init

\* A write of the factory settings leaves two images that were there, or are the factory settings.
LEMMA FreshWrites ==
  ASSUME IInv, Erase \/ Write, fresh
  PROVE  {Boots', Earlier'} \subseteq {Boots, Earlier, Default}
<1>1. flash_param.params = Default
  BY DEF Erase, Write, IInv, ResetPhases, Writing
<1>2. \A p \in Partition : flash'[p].whole => flash'[p].params \in {flash[p].params, Default}
                                               /\ (flash[p].whole \/ flash'[p].params = Default)
  BY <1>1 DEF Erase, Write, IInv, TypeOK, Damaged
<1>3. \A p \in Partition : flash[p].whole => flash[p].params \in {Boots, Earlier}
  BY DEF Boots, Earlier, BothDamaged, Latest, Partition
<1>4. \A s \in {Boots', Earlier'} :
        s = Default \/ \E p \in Partition : flash'[p].whole /\ s = flash'[p].params
  BY DEF Boots, Earlier, BothDamaged, Latest, Partition
<1> QED
  BY <1>2, <1>3, <1>4

\* A step of the store is a step of the register, or changes nothing of it.
LEMMA RegisterStep ==
  ASSUME ~MayWrap, ~MayFail, Period \notin Id, IInv, [Next]_vars
  PROVE  [Register!Next]_Register!vars
<1> USE DEF Register!vars
<1>1. CASE PowerOn
  <2>1. /\ flash' = flash /\ pc = "off" /\ pc' # "off" /\ sram_param' = Boots
        /\ fresh' = BothDamaged /\ ~fresh
    BY <1>1 DEF PowerOn, IInv, ResetPhases
  <2>2. CASE BothDamaged
    <3>1. Boots = Default
      BY <2>2 DEF Boots
    <3>2. Register!Reset
      BY <2>1, <2>2, <3>1, BootsSame DEF Register!Reset
    <3> QED
      BY <3>2 DEF Register!Next
  <2>3. CASE ~BothDamaged
    <3>1. fresh' = FALSE
      BY <2>1, <2>3 DEF BothDamaged
    <3>2. fresh = FALSE
      BY <2>1 DEF IInv, TypeOK
    <3> QED
      BY <2>1, <3>1, <3>2, BootsSame
  <2> QED
    BY <2>2, <2>3
<1>2. CASE PowerLoss
  <2>1. flash' = flash /\ pc' = "off" /\ fresh' = FALSE
    BY <1>2 DEF PowerLoss
  <2>2. Register!Restart
    BY <2>1, BootsSame DEF Register!Restart
  <2> QED
    BY <2>2 DEF Register!Next
<1>3. CASE NextPartition
  <2>1. UNCHANGED <<flash, sram_param, fresh>> /\ pc # "off" /\ pc' # "off"
    BY <1>3 DEF NextPartition, StartWrite
  <2> QED
    BY <2>1, BootsSame
<1>4. CASE Erase \/ Write
  <2>1. UNCHANGED <<sram_param, fresh, asked>> /\ pc # "off" /\ pc' # "off"
    BY <1>4 DEF Erase, Write, cpu
  <2>2. CASE fresh
    <3>1. Register!Resetting
      BY <1>4, <2>1, <2>2, FreshWrites DEF Register!Resetting
    <3> QED
      BY <3>1 DEF Register!Next
  <2>3. CASE ~fresh /\ Erase
    <3>1. Register!Overwrite
      BY <2>1, <2>3, EraseSpares DEF Register!Overwrite
    <3> QED
      BY <3>1 DEF Register!Next
  <2>4. CASE ~fresh /\ Write
    <3>1. Boots' = flash_param.params /\ Earlier' = Boots
      BY <2>4, WriteSaves
    <3>2. /\ asked = Id \/ \E i \in Id : asked = {i}
          /\ flash_param.params = [i \in Id |-> IF i \in Copied(asked) THEN sram_param[i]
                                                ELSE Boots[i]]
      BY <2>4 DEF Write, IInv, NewestIsKept
    <3>3. Copied(asked) = asked
      BY DEF IInv, TypeOK, Copied
    <3>4. Register!Save(asked)
      BY <2>1, <2>4, <3>1, <3>2, <3>3 DEF Register!Save
    <3> QED
      BY <3>2, <3>4 DEF Register!Next
  <2> QED
    BY <1>4, <2>2, <2>3, <2>4
<1>5. CASE Verified
  <2>1. /\ UNCHANGED <<flash, sram_param>> /\ pc = "verify" /\ pc' # "off"
        /\ fresh' = (fresh /\ todo # {})
    BY <1>5 DEF Verified
  <2>2. CASE fresh /\ todo = {}
    <3>1. /\ flash_param.part = 1 /\ Fresh(0) /\ Has(1)
          /\ flash_param.count = 1 /\ flash_param.params = Default
      BY <2>1, <2>2 DEF IInv, ResetPhases, VerifiesCache, Partition
    <3>2. Boots = Default
      BY <3>1 DEF Fresh, Has, Boots, BothDamaged, Latest, Partition
    <3>3. Register!ResetEnds
      BY <2>1, <2>2, <3>2, BootsSame DEF Register!ResetEnds
    <3> QED
      BY <3>3 DEF Register!Next
  <2>3. CASE ~(fresh /\ todo = {})
    <3>1. fresh' = fresh
      BY <2>1, <2>3 DEF IInv, TypeOK
    <3> QED
      BY <2>1, <3>1, BootsSame
  <2> QED
    BY <2>2, <2>3
<1>6. CASE WriteFails
  BY <1>6 DEF WriteFails
<1>7. ASSUME NEW i \in Id, NEW v \in Value, SetInMemory(i, v) \/ SetInFlash(i, v)
      PROVE  [Register!Next]_Register!vars
  <2>1. /\ sram_param' = [sram_param EXCEPT ![i] = v] /\ flash' = flash /\ fresh' = fresh
        /\ pc # "off" /\ pc' # "off" /\ ~fresh
    BY <1>7, IdleNotFresh DEF SetInMemory, SetInFlash, StartWrite, Idle
  <2>2. Register!Set(i, v)
    BY <2>1, BootsSame DEF Register!Set
  <2> QED
    BY <2>2 DEF Register!Next
<1>8. CASE (\E i \in Id : ToFlash(i)) \/ ToFlashAll
  <2>1. UNCHANGED <<flash, sram_param, fresh>> /\ pc # "off" /\ pc' # "off"
    BY <1>8 DEF ToFlash, ToFlashAll, StartWrite, Idle
  <2> QED
    BY <2>1, BootsSame
<1>9. CASE ToDefault
  <2>1. /\ sram_param' = Default /\ flash' = flash /\ fresh' = TRUE /\ ~fresh
        /\ pc # "off" /\ pc' # "off"
    BY <1>9, IdleNotFresh DEF ToDefault, Idle
  <2>2. Register!Reset
    BY <2>1, BootsSame DEF Register!Reset
  <2> QED
    BY <2>2 DEF Register!Next
<1>10. CASE UNCHANGED vars
  BY <1>10, BootsSame DEF vars, cpu
<1> QED
  BY <1>1, <1>2, <1>3, <1>4, <1>5, <1>6, <1>7, <1>8, <1>9, <1>10 DEF Next

\* Wherever the power is cut, the next power-on loads what the last save that took effect left,
\* unless it cut a reset, which may bring back the save before that one.
THEOREM StoreIsRegister ==
  ASSUME ~MayWrap, ~MayFail, Period \notin Id
  PROVE  Spec => ImplementsRegister
<1>1. IInv /\ [Next]_vars => IInv'
  BY AtomicStep
<1>2. IInv /\ [Next]_vars => [Register!Next]_Register!vars
  BY RegisterStep
<1> QED
  BY AtomicInit, RegisterInit, <1>1, <1>2, PTL DEF Spec, ImplementsRegister, Register!Spec

\* Between two calls, the next power-on loads what was written last, resets included.
THEOREM LastIsLoaded ==
  ASSUME ~MayWrap, ~MayFail
  PROVE  Spec => []LoadsLatest
<1>1. IInv => LoadsLatest
  BY IdleNotFresh, BootsCache DEF LoadsLatest, Idle
<1>2. IInv /\ [Next]_vars => IInv'
  BY AtomicStep
<1> QED
  BY AtomicInit, <1>1, <1>2, PTL DEF Spec
(***************************************************************************)
(* What holds though flash fails, the count wraps and resets are made: one *)
(* write that goes wrong loses nothing.                                    *)
(***************************************************************************)

\* A write is begun at one partition when the other one is whole.
LEMMA OneStarts ==
  ASSUME LInv, NEW ids, NEW ram \in Params, NEW count \in Count,
         NEW p \in Partition, StartWrite(ids, ram, count, p), flash' = flash,
         p \notin todo', unverified = 0 => flash[1 - p].whole
  PROVE  LostAfterTwo' /\ OneIsWhole'
<1>1. /\ pc' = "write" /\ flash_param'.part = p
      /\ unverified' = IF unverified = 0 THEN 1 ELSE 2
  BY Started DEF LInv, StartWrite
<1>2. LostAfterTwo'
  BY <1>1 DEF LInv, LostAfterTwo, BothDamaged, TypeOK
<1>3. OneIsWhole'
  BY <1>1 DEF LInv, OneIsWhole, Writing, TypeOK
<1> QED
  BY <1>2, <1>3

\* A save goes to the partition that the cache is not of.
LEMMA OneSaves ==
  ASSUME LInv, Idle, NEW ids, NEW ram \in Params,
         StartWrite(ids, ram, NextCount, Other), UNCHANGED <<flash, todo>>
  PROVE  LostAfterTwo' /\ OneIsWhole'
<1>1. NextCount \in Count /\ Other \in Partition
  BY NextCountTyped, OtherTyped DEF LInv
<1>2. 1 - Other = flash_param.part
  BY DEF LInv, TypeOK, Other, Partition
<1>3. unverified = 0 => flash[1 - Other].whole
  BY <1>2 DEF LInv, OneIsWhole, Idle
<1> QED
  BY <1>1, <1>3, OneStarts DEF Idle

LEMMA LossInit == Init => LInv
<1> SUFFICES ASSUME Init PROVE LostAfterTwo /\ OneIsWhole
  BY TypeInit DEF LInv
<1> QED
  BY DEF Init, LostAfterTwo, OneIsWhole, Writing

LEMMA LossStep == LInv /\ [Next]_vars => LInv'
<1> SUFFICES ASSUME LInv, [Next]_vars PROVE LostAfterTwo' /\ OneIsWhole'
  BY TypeStep DEF LInv
<1>0. TypeOK /\ LostAfterTwo /\ OneIsWhole
  BY DEF LInv
<1>1. CASE PowerOn
  <2>1. /\ pc' = "ready" /\ UNCHANGED <<flash, unverified>>
        /\ todo' = {p \in Partition : ~flash[p].whole}
    BY <1>1 DEF PowerOn
  <2>2. ASSUME unverified = 0
        PROVE  flash[flash_param'.part].whole /\ todo' \subseteq {1 - flash_param'.part}
    <3>1. ~BothDamaged
      BY <1>0, <2>2 DEF LostAfterTwo
    <3>2. flash_param'.part = Latest
      BY <1>1, <3>1 DEF PowerOn
    <3> QED
      BY <2>1, <3>1, <3>2 DEF BothDamaged, Latest, Partition
  <2> QED
    BY <1>0, <2>1, <2>2 DEF LostAfterTwo, BothDamaged, OneIsWhole, Writing
<1>2. CASE PowerLoss
  BY <1>0, <1>2 DEF PowerLoss, LostAfterTwo, BothDamaged, OneIsWhole, Writing
<1>3. CASE NextPartition
  <2>1. PICK count \in Count, p \in Partition :
          StartWrite(Id, sram_param, count, p) /\ p \in todo /\ todo' = todo \ {p}
    <3>1. 1 \in Count /\ NextCount \in Count
      BY <1>0, NextCountTyped, CountAssumption DEF Count
    <3> DEFINE p == IF 0 \in todo THEN 0 ELSE 1
    <3>2. p \in todo /\ p \in Partition
      BY <1>0, <1>3 DEF NextPartition, TypeOK, Partition
    <3>3. \E count \in Count : StartWrite(Id, sram_param, count, p) /\ todo' = todo \ {p}
      BY <1>3, <3>1 DEF NextPartition
    <3> HIDE DEF p
    <3> QED
      BY <3>2, <3>3
  <2>2. pc = "ready" /\ flash' = flash
    BY <1>3 DEF NextPartition
  <2>3. ASSUME unverified = 0 PROVE flash[1 - p].whole
    <3>1. flash[flash_param.part].whole /\ todo \subseteq {1 - flash_param.part}
      BY <1>0, <2>2, <2>3 DEF OneIsWhole
    <3>2. p = 1 - flash_param.part /\ flash_param.part \in {0, 1}
      BY <1>0, <2>1, <3>1 DEF TypeOK, Partition
    <3>3. 1 - p = flash_param.part
      BY <3>2
    <3> QED
      BY <3>1, <3>3
  <2>4. sram_param \in Params /\ p \notin todo'
    BY <1>0, <2>1 DEF TypeOK
  <2> QED
    BY <2>1, <2>2, <2>3, <2>4, OneStarts
<1>4. CASE Erase \/ Write
  <2>1. /\ pc \in {"write", "erased"} /\ pc' \in {"erased", "verify"} /\ UNCHANGED cpu
        /\ pc' = "verify" => pc = "erased" /\ flash'[flash_param.part].whole
        /\ \A p \in Partition : p # flash_param.part => flash'[p] = flash[p]
    BY <1>0, <1>4 DEF Erase, Write, TypeOK, Partition
  <2>2. flash_param.part \in Partition /\ 1 - flash_param.part \in Partition
        /\ 1 - flash_param.part # flash_param.part
    BY <1>0 DEF TypeOK, Partition
  <2>3. /\ unverified > 0 /\ flash_param.part \notin todo
        /\ unverified = 1 => flash[1 - flash_param.part].whole
    BY <1>0, <2>1 DEF OneIsWhole, Writing
  <2>4. unverified = 1 => flash'[1 - flash_param.part].whole
    BY <2>1, <2>2, <2>3
  <2>5. unverified \in 1..2
    BY <1>0, <2>3 DEF TypeOK
  <2>6. LostAfterTwo'
    BY <2>1, <2>2, <2>4, <2>5 DEF LostAfterTwo, BothDamaged, cpu
  <2> QED
    BY <2>1, <2>3, <2>4, <2>5, <2>6 DEF OneIsWhole, Writing, cpu
<1>5. CASE Verified
  <2>1. /\ pc = "verify" /\ pc' = "ready" /\ unverified' = 0
        /\ UNCHANGED <<flash, flash_param, todo>>
    BY <1>5 DEF Verified
  <2>2. flash[flash_param.part].whole /\ flash_param.part \notin todo
        /\ flash_param.part \in Partition /\ todo \subseteq Partition
    BY <1>0, <2>1 DEF OneIsWhole, Writing, TypeOK
  <2>3. todo \subseteq {1 - flash_param.part}
    BY <2>2 DEF Partition
  <2> QED
    BY <2>1, <2>2, <2>3 DEF LostAfterTwo, BothDamaged, OneIsWhole, Writing
<1>6. CASE WriteFails
  <2>1. /\ Writing /\ pc' = "ready" /\ UNCHANGED <<flash, unverified>>
    BY <1>6 DEF WriteFails, Writing
  <2>2. unverified # 0
    BY <1>0, <2>1 DEF OneIsWhole, TypeOK
  <2> QED
    BY <1>0, <2>1, <2>2 DEF LostAfterTwo, BothDamaged, OneIsWhole, Writing
<1>7. ASSUME NEW i \in Id, NEW v \in Value, SetInMemory(i, v)
      PROVE  LostAfterTwo' /\ OneIsWhole'
  BY <1>0, <1>7 DEF SetInMemory, LostAfterTwo, BothDamaged, OneIsWhole, Writing
<1>8. ASSUME NEW i \in Id, NEW v \in Value, SetInFlash(i, v)
      PROVE  LostAfterTwo' /\ OneIsWhole'
  <2>1. sram_param' \in Params
    BY <1>0, <1>8 DEF SetInFlash, TypeOK, Params
  <2> QED
    BY <1>8, <2>1, OneSaves DEF SetInFlash
<1>9. ASSUME NEW i \in Id, ToFlash(i) PROVE LostAfterTwo' /\ OneIsWhole'
  BY <1>0, <1>9, OneSaves DEF ToFlash, TypeOK
<1>10. CASE ToFlashAll
  BY <1>0, <1>10, OneSaves DEF ToFlashAll, TypeOK
<1>11. CASE ToDefault
  BY <1>11 DEF ToDefault, Idle, LostAfterTwo, OneIsWhole, Writing
<1>12. CASE UNCHANGED vars
  BY <1>0, <1>12 DEF vars, cpu, LostAfterTwo, BothDamaged, OneIsWhole, Writing
<1> QED
  BY <1>1, <1>2, <1>3, <1>4, <1>5, <1>6, <1>7, <1>8, <1>9, <1>10, <1>11, <1>12 DEF Next

\* What was saved is still there after one write that was cut off or refused, for every set of
\* parameters, whether the count wraps, and whenever the store is reset.
THEOREM OneLossIsSurvived == Spec => []LostAfterTwo
<1>1. LInv => LostAfterTwo
  BY DEF LInv
<1> QED
  BY LossInit, LossStep, <1>1, PTL DEF Spec

LEMMA StoredStep ==
  ASSUME ~MayWrap, ~MayReset
  PROVE  FInv /\ LInv /\ CacheIsStored /\ [Next]_vars => CacheIsStored'
<1> SUFFICES ASSUME FInv, LInv, CacheIsStored, [Next]_vars, pc' = "ready", unverified' = 0
             PROVE  Boots' = flash_param'.params
  BY DEF CacheIsStored
<1>1. CASE PowerOn
  <2>1. flash' = flash /\ flash_param'.params = Boots
    BY <1>1 DEF PowerOn, Boots
  <2> QED
    BY <2>1, BootsSame
<1>2. CASE Verified
  <2>1. pc = "verify" /\ UNCHANGED <<flash, flash_param>>
    BY <1>2 DEF Verified
  <2>2. Boots = flash_param.params
    BY <2>1, VerifyBoots DEF SavedBoots
  <2> QED
    BY <2>1, <2>2, BootsSame
<1>3. CASE pc = "ready" /\ UNCHANGED <<flash, flash_param, unverified>>
  BY <1>3, BootsSame DEF CacheIsStored
<1>4. CASE WriteFails
  BY <1>4 DEF WriteFails, LInv, OneIsWhole, Writing
<1>5. ASSUME NEW i \in Id, NEW v \in Value, SetInMemory(i, v)
      PROVE  Boots' = flash_param'.params
  BY <1>3, <1>5 DEF SetInMemory, Idle
<1>6. CASE UNCHANGED vars
  BY <1>3, <1>6 DEF vars, cpu
<1>7. ASSUME NEW ids, NEW ram, NEW count, NEW p, StartWrite(ids, ram, count, p)
      PROVE  FALSE
  BY <1>7 DEF StartWrite
<1>8. ~NextPartition /\ ~ToFlashAll
      /\ \A i \in Id : ~ToFlash(i) /\ \A v \in Value : ~SetInFlash(i, v)
  BY <1>7 DEF NextPartition, ToFlashAll, ToFlash, SetInFlash
<1>9. ~Erase /\ ~Write /\ ~PowerLoss /\ ~ToDefault
  BY DEF Erase, Write, PowerLoss, ToDefault
<1> QED
  BY <1>1, <1>2, <1>4, <1>5, <1>6, <1>8, <1>9 DEF Next

\* Where the cache is ahead of flash, the last write went wrong: a save that is skipped because
\* memory is what the cache is was made before, or that write failed.
THEOREM SkippedSavesAreStored ==
  ASSUME ~MayWrap, ~MayReset
  PROVE  Spec => []CacheIsStored
<1>1. Init => CacheIsStored
  BY DEF Init, CacheIsStored
<1>2. FInv /\ [Next]_vars => FInv'
  BY CountStep
<1> QED
  BY CountInit, LossInit, <1>1, <1>2, LossStep, StoredStep, PTL DEF Spec
=============================================================================
