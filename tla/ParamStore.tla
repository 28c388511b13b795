------------------------------ MODULE ParamStore ------------------------------
(***************************************************************************)
(* The parameter store of the SDK (wm_param.c), where the firmware keeps   *)
(* its Wi-Fi mode, its addresses and its NTP servers: two partitions of    *)
(* flash, each with an image of all parameters and a count of how often    *)
(* they were modified, the cache of the image written last, and the        *)
(* parameters in memory.                                                   *)
(*                                                                         *)
(* sys_param_lock makes a call wait for the one that runs, so one call is  *)
(* modelled at a time.  The power may go between any two steps of one.     *)
(***************************************************************************)
EXTENDS Integers

CONSTANTS
  Id, Value,           \* the parameters, and what each of them may be
  Factory,             \* the factory setting of each
  Period, DebugMode,   \* AUTO_TRIGGER_PERIOD and DEBUG_MODE
  CountRange,          \* modify_count counts modulo this: 2^16 in the code
  MayWrap,             \* FALSE: no write that would start the count again
  MayFail,             \* TRUE: flash may refuse a write, or its verification fail
  MayReset             \* TRUE: tls_param_to_default() is called

ASSUME FactoryAssumption == Factory \in Value
ASSUME CountAssumption ==
  /\ CountRange \in Nat \ {0, 1}
  /\ MayWrap \in BOOLEAN /\ MayFail \in BOOLEAN /\ MayReset \in BOOLEAN

VARIABLES
  flash,        \* the two partitions
  flash_param,  \* the cache: the image written last, or being written
  sram_param,   \* the parameters in memory
  pc,           \* how far the running call is; "ready": it writes nothing now
  todo,         \* the partitions the running call has still to write
  fresh,        \* it writes the factory settings, with a count of one
  asked,        \* (history) the parameters the last save was for
  unverified    \* (history) writes begun since one was verified, counted to two; two as well
                \* when nothing is saved yet, or a reset has given it up

cpu == <<flash_param, sram_param, todo, fresh, asked, unverified>>
vars == <<flash, cpu, pc>>

Params == [Id -> Value]
Default == [i \in Id |-> Factory]
Count == 0..CountRange - 1
Partition == {0, 1}
Image == [whole : BOOLEAN, count : Count, params : Params]

\* What an interrupted write leaves: the magic number or the CRC does not match.
Damaged == [whole |-> FALSE, count |-> 0, params |-> Default]

Init ==
  /\ flash = [p \in Partition |-> Damaged]
  /\ flash_param = [count |-> 0, part |-> 0, params |-> Default] /\ sram_param = Default
  /\ pc = "off" /\ todo = {} /\ fresh = FALSE /\ asked = {}
  /\ unverified = 2

Idle == pc = "ready" /\ todo = {}

-----------------------------------------------------------------------------
(* tls_param_init *)

BothDamaged == \A p \in Partition : ~flash[p].whole

\* mutated form: the first partition that is not damaged.
FirstWhole == IF flash[0].whole THEN 0 ELSE 1

\* The partition the loop ends with: the second one only if its count is greater.
Latest ==
  IF flash[0].whole /\ ~(flash[1].whole /\ flash[0].count < flash[1].count) THEN 0 ELSE 1

\* What the next power-on loads, and the image besides it.
Boots == IF BothDamaged THEN Default ELSE flash[Latest].params
Earlier == IF flash[1 - Latest].whole THEN flash[1 - Latest].params ELSE Boots

\* Damaged partitions are written anew: both with the factory settings, or one from the other.
PowerOn ==
  /\ pc = "off" /\ pc' = "ready"
  /\ sram_param' = Boots
  /\ flash_param' = IF BothDamaged
                    THEN [count |-> 0, part |-> 0, params |-> Default]
                    ELSE [count |-> flash[Latest].count, part |-> Latest, params |-> Boots]
  /\ todo' = {p \in Partition : ~flash[p].whole}
  /\ fresh' = BothDamaged
  /\ asked' = {}
  /\ UNCHANGED <<flash, unverified>>

PowerLoss ==
  /\ pc # "off" /\ pc' = "off"
  /\ flash_param' = [count |-> 0, part |-> 0, params |-> Default] /\ sram_param' = Default
  /\ todo' = {} /\ fresh' = FALSE /\ asked' = {}
  /\ UNCHANGED <<flash, unverified>>

-----------------------------------------------------------------------------
(* param_to_flash *)

\* mutated form: the count stays
NextCountSame == flash_param.count

NextCount == IF flash_param.count + 1 = CountRange THEN 0 ELSE flash_param.count + 1
MayCount == MayWrap \/ flash_param.count + 1 < CountRange

\* mutated forms: the partition stays; it is not masked
OtherSame == flash_param.part
OtherUnmasked == flash_param.part + 1

Other == (flash_param.part + 1) % 2

\* Which fields of the cache are taken from memory: AUTO_TRIGGER_PERIOD has no break.
Copied(ids) == IF Period \in ids THEN ids \cup {DebugMode} ELSE ids

\* The cache is updated first, whatever becomes of the write.
StartWrite(ids, ram, count, p) ==
  /\ flash_param' = [count |-> count, part |-> p,
                     params |-> [i \in Id |-> IF i \in Copied(ids) THEN ram[i]
                                                      ELSE flash_param.params[i]]]
  /\ pc' = "write" /\ asked' = ids /\ unverified' = IF unverified = 0 THEN 1 ELSE 2

\* The next partition tls_param_init or tls_param_to_default has to write.
NextPartition ==
  /\ pc = "ready" /\ todo # {}
  /\ LET p == IF 0 \in todo THEN 0 ELSE 1 IN
       /\ IF fresh THEN StartWrite(Id, sram_param, 1, p)
                   ELSE MayCount /\ StartWrite(Id, sram_param, NextCount, p)
       /\ todo' = todo \ {p}
  /\ UNCHANGED <<flash, sram_param, fresh>>

\* tls_fls_write() erases a sector that is not blank, and a blank one holds no image; then it
\* programs the pages.  Without memory it returns before (WriteFails).
Erase ==
  /\ pc = "write" /\ pc' = "erased"
  /\ flash' = [flash EXCEPT ![flash_param.part] = Damaged]
  /\ UNCHANGED cpu

Write ==
  /\ pc = "erased" /\ pc' = "verify"
  /\ flash' = [flash EXCEPT ![flash_param.part] =
                 [whole |-> TRUE, count |-> flash_param.count, params |-> flash_param.params]]
  /\ UNCHANGED cpu

\* mutated form: an error of the write is not looked at.
VerifiedOrNot ==
  /\ pc \in {"erased", "verify"} /\ pc' = "ready"
  /\ fresh' = (fresh /\ todo # {}) /\ unverified' = 0
  /\ UNCHANGED <<flash, flash_param, sram_param, todo, asked>>

Verified ==
  /\ pc = "verify" /\ pc' = "ready"
  /\ fresh' = (fresh /\ todo # {}) /\ unverified' = 0
  /\ UNCHANGED <<flash, flash_param, sram_param, todo, asked>>

\* An error of tls_fls_write, or of the verification of a write that succeeded: the call
\* returns EIO, and the other partition stays as it is.
WriteFails ==
  /\ MayFail /\ pc \in {"write", "erased", "verify"} /\ pc' = "ready"
  /\ todo' = {} /\ fresh' = FALSE
  /\ UNCHANGED <<flash, flash_param, sram_param, asked, unverified>>

-----------------------------------------------------------------------------
(* The calls *)

\* tls_param_set(i, v, FALSE)
SetInMemory(i, v) ==
  /\ Idle
  /\ sram_param' = [sram_param EXCEPT ![i] = v]
  /\ UNCHANGED <<flash, flash_param, pc, todo, fresh, asked, unverified>>

\* tls_param_set(i, v, TRUE)
SetInFlash(i, v) ==
  /\ Idle /\ MayCount
  /\ sram_param' = [sram_param EXCEPT ![i] = v]
  /\ StartWrite({i}, sram_param', NextCount, Other)
  /\ UNCHANGED <<flash, todo, fresh>>

\* tls_param_to_flash(i)
ToFlash(i) ==
  /\ Idle /\ MayCount
  /\ StartWrite({i}, sram_param, NextCount, Other)
  /\ UNCHANGED <<flash, sram_param, todo, fresh>>

\* tls_param_to_flash(TLS_PARAM_ID_ALL) returns OK at once if memory is what the cache is.
ToFlashAll ==
  /\ Idle /\ MayCount /\ sram_param # flash_param.params
  /\ StartWrite(Id, sram_param, NextCount, Other)
  /\ UNCHANGED <<flash, sram_param, todo, fresh>>

\* mutated form: the second partition is left
ToDefaultOnce ==
  /\ MayReset /\ Idle
  /\ sram_param' = Default /\ todo' = {0} /\ fresh' = TRUE /\ unverified' = 2
  /\ UNCHANGED <<flash, flash_param, pc, asked>>

\* tls_param_to_default writes the first partition, then the second.
ToDefault ==
  /\ MayReset /\ Idle
  /\ sram_param' = Default /\ todo' = Partition /\ fresh' = TRUE /\ unverified' = 2
  /\ UNCHANGED <<flash, flash_param, pc, asked>>

Next ==
  \/ PowerOn \/ PowerLoss \/ NextPartition \/ Erase \/ Write \/ Verified \/ WriteFails
  \/ \E i \in Id, v \in Value : SetInMemory(i, v) \/ SetInFlash(i, v)
  \/ \E i \in Id : ToFlash(i)
  \/ ToFlashAll \/ ToDefault

Spec == Init /\ [][Next]_vars

-----------------------------------------------------------------------------
(* Properties *)

TypeOK ==
  /\ flash \in [Partition -> Image]
  /\ flash_param \in [count : Count, part : Partition, params : Params]
  /\ sram_param \in Params
  /\ pc \in {"off", "ready", "write", "erased", "verify"}
  /\ todo \subseteq Partition /\ fresh \in BOOLEAN /\ asked \subseteq Id
  /\ unverified \in 0..2

\* A write that went through is what the next power-on loads, though flash failed before.
SavedBoots == pc = "verify" => Boots = flash_param.params

\* tls_param_to_flash(TLS_PARAM_ID_ALL) compares memory with the cache, not with flash, and returns
\* OK if they are the same: the next power-on loads the cache unless a write was cut off or
\* refused and none was verified since.
CacheIsStored == pc = "ready" /\ unverified = 0 => Boots = flash_param.params

\* What is saved is lost only when two writes in a row are cut off or refused, whatever restarts
\* and repairs there are between them.
LostAfterTwo == BothDamaged => unverified = 2

\* "Load the latest parameters" (wm_param.c:393): between two calls, the next power-on loads
\* what was written last.  A count that starts again breaks it.
LoadsLatest == Idle => Boots = flash_param.params

\* The store is a register whose saves are atomic, wherever the power is cut.  A reset is not:
\* when the power goes in it, the save before the last one may come back.
Register == INSTANCE ParamRegister WITH
  ram <- IF pc = "off" THEN Boots ELSE sram_param,
  stored <- Boots,
  previous <- Earlier,
  resetting <- fresh
ImplementsRegister == Register!Spec

-----------------------------------------------------------------------------
(* The inductive invariants: FInv though flash fails, but without resets,  *)
(* IInv with resets, as long as flash does not fail, and LInv with both.   *)

\* An image is no newer than the cache; one with the same count has the same parameters.
NoNewer(p) ==
  flash[p].whole =>
    \/ flash[p].count < flash_param.count
    \/ flash[p].count = flash_param.count /\ flash[p].params = flash_param.params
Has(p) == flash[p] = [whole |-> TRUE, count |-> flash_param.count, params |-> flash_param.params]

CountsTell ==
  (\A p \in Partition : flash[p].whole) /\ flash[0].count = flash[1].count
    => flash[0].params = flash[1].params
CacheIsNewest == pc # "off" => \A p \in Partition : NoNewer(p)
VerifiesCache == pc = "verify" => Has(flash_param.part)

\* A flash with nothing to load is filled with the factory settings.
Filling ==
  /\ todo # {} => pc # "off" /\ \A p \in todo : ~flash[p].whole
  /\ 0 \in todo => pc = "ready" /\ (fresh <=> todo = Partition)
  /\ fresh /\ todo = {1} => /\ flash_param.count = 1 /\ flash_param.part = 0
                           /\ flash_param.params = sram_param
  /\ pc \in {"write", "erased", "verify"} /\ ~fresh => todo = {}

FInv == TypeOK /\ CountsTell /\ CacheIsNewest /\ VerifiesCache /\ Filling

\* Whoever writes the factory settings has them in memory, and the first partition is written
\* when the second one is begun.
Fresh(p) == flash[p] = [whole |-> TRUE, count |-> 1, params |-> Default]
Writing == pc \in {"write", "erased", "verify"}
ResetPhases ==
  /\ todo # {} \/ fresh => pc # "off"
  /\ Writing /\ ~fresh => todo = {}
  /\ fresh => sram_param = Default /\ todo \in {Partition, {1}, {}}
  /\ fresh /\ todo = Partition => pc = "ready"
  /\ fresh /\ todo # Partition => flash_param.count = 1 /\ flash_param.params = Default
  /\ fresh /\ todo = {1} => flash_param.part = 0
  /\ fresh /\ todo = {} => Writing /\ flash_param.part = 1 /\ Fresh(0)

\* The count of a save is greater than that of an image with the factory settings.
CountsFromOne ==
  /\ \A p \in Partition : flash[p].whole => flash[p].count >= 1
  /\ \A p \in Partition : flash[p].whole /\ flash[p].count = 1 => flash[p].params = Default
  /\ pc # "off" /\ ~(fresh /\ todo = Partition) => flash_param.count >= 1

\* Between two writes, flash has the cache, and nothing newer; what it lacks is restored.
CacheIsWritten ==
  /\ pc = "ready" /\ ~(fresh /\ todo = Partition) => Has(flash_param.part)
  /\ pc # "off" /\ ~fresh => \A p \in Partition : NoNewer(p)
  /\ ~fresh => todo \subseteq {Other} /\ \A p \in todo : ~flash[p].whole

\* A save leaves the newest image alone, and changes no other parameter than those it copies.
NewestIsKept ==
  pc \in {"write", "erased"} /\ ~fresh =>
    /\ flash[Other].whole /\ flash[Other].count < flash_param.count
    /\ flash[flash_param.part].whole =>
         pc = "write" /\ flash[flash_param.part].count <= flash[Other].count
    /\ asked = Id \/ \E i \in Id : asked = {i}
    /\ flash_param.params = [i \in Id |-> IF i \in Copied(asked) THEN sram_param[i]
                                                              ELSE Boots[i]]

\* Who writes one partition has the other one, unless the write before went wrong as well.
OneIsWhole ==
  /\ Writing => unverified > 0 /\ flash_param.part \notin todo
  /\ Writing /\ unverified = 1 => flash[1 - flash_param.part].whole
  /\ pc = "verify" => flash[flash_param.part].whole
  /\ pc = "ready" /\ unverified = 0 =>
       flash[flash_param.part].whole /\ todo \subseteq {1 - flash_param.part}

LInv == TypeOK /\ LostAfterTwo /\ OneIsWhole

IInv == /\ TypeOK /\ CountsTell /\ VerifiesCache
        /\ ResetPhases /\ CountsFromOne /\ CacheIsWritten /\ NewestIsKept
=============================================================================
