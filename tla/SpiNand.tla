------------------------------ MODULE SpiNand ------------------------------
(***************************************************************************)
(* The SPI NAND driver (nand/spi_nand.c, nandop.c, bch.c): InitDevice with  *)
(* initSPIDriver, then page reads.  spi_nand_pageread_1k60 fetches the data *)
(* of a page, then its parity, and lets the BCH engine correct the data.    *)
(*                                                                          *)
(* The controller works through the transfers it was told to start; one     *)
(* that overruns its 100 ms is given up by the driver, not by the           *)
(* controller, which may still end it, or drop it when the next is started. *)
(* CONFIG_SPINAND_TRSMODE is SPINAND_TRS_DMA; SPINAND_TRS_PIO is built too, *)
(* and SPINAND_TRS_DMA_AUTOBCH with CFG_SUPPORT_DMA_AUTOBCH_MODE: one       *)
(* transfer then goes through the BCH engine.  spi_nand_q645.c and          *)
(* bch_q645.c, which the Q645 and SP7350 builds take, are the same text on  *)
(* other registers.                                                         *)
(***************************************************************************)
EXTENDS Integers, Sequences

CONSTANTS
    Pages,      \* pages of the flash
    Weak,       \* those with more errors than BCH corrects
    Slots,      \* places in memory pages are read to
    Modes,      \* transfer modes, a subset of AllModes
    Reads       \* page reads, a bound

None == 0       \* memory nothing was read to: zeros, which are a BCH codeword

AllModes == {"dma", "pio", "autobch"}

SpiNandAssumption ==
    /\ None \notin Pages /\ Weak \subseteq Pages /\ Slots # {}
    /\ Modes \subseteq AllModes /\ Reads \in Nat

VARIABLES
    mode,       \* trs_mode, fixed
    pc,
    flag,       \* gInitNand_flag
    b0,         \* feature B0 of the flash: "default", "set" (internal ECC off,
                \* buffered and quad reads on) or "garbage"
    value,      \* feature_b0 as read: of the flash, or what was in the register
    row, slot,  \* the page asked for, and where
    ret,        \* a transfer of this page failed
    result,     \* of the last page read
    jobs,       \* transfers the controller has been told to do
    done,       \* DMA_DONE or PIO_DONE
    cache,      \* the page in the cache of the flash (PIO)
    mem,        \* by slot: the pages the data and the parity are of
    left,       \* reads left
    clean       \* history: this read began with no transfer outstanding

request == <<row, slot, ret, result>>
flash == <<b0, cache>>
vars == <<mode, pc, flag, value, request, jobs, done, flash, mem, left, clean>>

Ends == {"no nand", "over"}

Init ==
    /\ mode \in Modes /\ pc = "reset" /\ flag = 0
    /\ b0 = "default" /\ value = "default" /\ cache = None
    /\ row = None /\ slot \in Slots /\ ret = 0 /\ result = "none"
    /\ jobs = <<>> /\ done = FALSE
    /\ mem = [s \in Slots |-> [data |-> None, parity |-> None]]
    /\ left = Reads /\ clean = TRUE

-----------------------------------------------------------------------------
(* InitDevice                                                               *)

Started == <<mode, value, request, jobs, done, flash, mem, left, clean>>

(* wait_spi_idle: in time, or not.                                          *)
wait_spi_idle == {0, -1}

(* initSPIDriver gives up, and InitNand leaves its flag clear.              *)
Fail == pc' = "no nand" /\ flag' = 0

(* spi_nand_reset: only the second wait counts.  Without a flash it may     *)
(* succeed; then the ID reads as ones.                                      *)
Reset ==
    /\ pc = "reset"
    /\ \E r \in wait_spi_idle : IF r < 0 THEN Fail ELSE pc' = "id" /\ UNCHANGED flag
    /\ UNCHANGED Started

ReadId ==
    /\ pc = "id"
    /\ Fail \/ (pc' = "get" /\ UNCHANGED flag)
    /\ UNCHANGED Started

(* spi_nand_getfeatures does not look at its wait: what is in the data      *)
(* register may be the ID still.                                            *)
GetFeatures ==
    /\ pc = "get" /\ pc' = "set"
    /\ \E r \in wait_spi_idle : value' = IF r = 0 THEN "default" ELSE "garbage"
    /\ UNCHANGED <<mode, flag, request, jobs, done, flash, mem, left, clean>>

(* What initSPIDriver makes of the feature, by vendor: buffered and quad    *)
(* reads on, continuous reads and the ECC of the flash off.                 *)
Configured(v) == IF v = "default" THEN "set" ELSE v

(* The result of spi_nand_setfeatures is not looked at.                     *)
SetFeatures ==
    /\ pc = "set" /\ pc' = "geometry"
    /\ b0' \in {b0, Configured(value)}
    /\ UNCHANGED <<mode, flag, value, request, jobs, done, cache, mem, left, clean>>

(* setSystemPara takes the geometry from the header the boot ROM has left,  *)
(* whose load therefore succeeds at once; InitNand sets its flag.           *)
InitNand ==
    /\ pc = "geometry" /\ pc' = "idle" /\ flag' = 1
    /\ UNCHANGED Started

-----------------------------------------------------------------------------
(* SPINANDReadNANDPage_1K60                                                 *)

Call ==
    /\ pc = "idle" /\ left > 0
    /\ left' = left - 1
    /\ row' \in Pages /\ slot' \in Slots /\ ret' = 0 /\ result' = "none"
    /\ pc' = "data"
    /\ clean' = (jobs = <<>>)
    /\ UNCHANGED <<mode, flag, value, jobs, done, flash, mem>>

(* The done flag is cleared and a transfer started.  One still running may  *)
(* be dropped.                                                              *)
Start(part) ==
    /\ done' = FALSE
    /\ \E old \in {jobs, <<>>} : jobs' = Append(old, [row |-> row, slot |-> slot, part |-> part])
    /\ pc' = CASE part = "data" -> "data wait" [] part = "parity" -> "parity wait" [] OTHER -> "page wait"
    /\ UNCHANGED <<mode, flag, value, request, flash, mem, left, clean>>

(* spi_nand_read_by_dma: to memory.                                         *)
TriggerDma == pc \in {"data", "parity"} /\ mode = "dma" /\ Start(pc)

(* spi_nand_pagecache: the page to the cache of the flash.                  *)
TriggerPio == pc \in {"data", "parity"} /\ mode = "pio" /\ Start(pc)

(* BCHConfig resets the engine and tells it where the page will be: data    *)
(* and parity at once.                                                      *)
BCHConfig == "page"

(* spi_nand_pageread_1k60_autobch.                                          *)
TriggerPage == pc = "data" /\ mode = "autobch" /\ Start(BCHConfig)

Waiting == pc \in {"data wait", "parity wait", "page wait"}
Part == IF pc = "data wait" THEN "data" ELSE "parity"

(* `ret |=` keeps a failure of the data when the parity arrives; the parity *)
(* is fetched all the same.                                                 *)
Both(r) == IF pc = "parity wait" /\ ret = -1 THEN ret' = -1 ELSE ret' = r
After == pc' = IF pc = "data wait" THEN "parity" ELSE "decode"

(* spi_nand_trigger_and_wait_dma sees the flag.                             *)
ArrivedByDma ==
    /\ Waiting /\ done /\ mode # "pio"
    /\ After /\ Both(0)
    /\ UNCHANGED <<mode, flag, value, row, slot, result, jobs, done, flash, mem, left, clean>>

(* By PIO the part is then copied from the cache, spi_nand_readcache, and   *)
(* the wait for the controller to be idle may yet fail.                     *)
ArrivedByPio ==
    /\ Waiting /\ done /\ mode = "pio"
    /\ After
    /\ mem' = [mem EXCEPT ![slot][Part] = cache]
    /\ \E r \in wait_spi_idle : Both(r)
    /\ UNCHANGED <<mode, flag, value, row, slot, result, jobs, done, flash, left, clean>>

GaveUpResult == -1

GaveUp ==
    /\ Waiting /\ ~done
    /\ After
    /\ Both(GaveUpResult)
    /\ UNCHANGED <<mode, flag, value, row, slot, result, jobs, done, flash, mem, left, clean>>

(* What the BCH engine says: data and parity of one page with few errors,   *)
(* or zeros, are good.                                                      *)
Decodes(m) == m.data = m.parity /\ m.data \notin Weak

Verdict == result' = IF ret = 0 /\ Decodes(mem[slot]) THEN "ok" ELSE "fail"
Kept == <<mode, flag, value, row, slot, ret, jobs, done, flash, mem, left, clean>>

(* BCHProcess starts the engine on what is in memory and waits for it       *)
(* without a limit; after a failure the engine is reset.                    *)
BCHProcess ==
    /\ pc = "decode" /\ mode # "autobch" /\ pc' = "idle"
    /\ Verdict
    /\ UNCHANGED Kept

(* BCHCheckStatus asks for the verdict on the transfer the engine took part *)
(* in, if that was in time.                                                 *)
BCHCheckStatus ==
    /\ pc = "decode" /\ mode = "autobch" /\ pc' = "idle"
    /\ Verdict
    /\ UNCHANGED Kept

-----------------------------------------------------------------------------
(* The controller                                                           *)

(* With garbage in B0 the flash may deliver a page of another area.         *)
Delivered(j) == IF b0 = "garbage" THEN {j.row, None} ELSE {j.row}

Transfer ==
    /\ jobs # <<>> /\ pc # "over"
    /\ jobs' = Tail(jobs) /\ done' = TRUE
    /\ LET j == Head(jobs)
       IN  \E p \in Delivered(j) :
             CASE mode = "dma" -> mem' = [mem EXCEPT ![j.slot][j.part] = p] /\ UNCHANGED cache
               [] mode = "autobch" ->
                     mem' = [mem EXCEPT ![j.slot] = [data |-> p, parity |-> p]] /\ UNCHANGED cache
               [] mode = "pio" -> cache' = p /\ UNCHANGED mem
    /\ UNCHANGED <<mode, pc, flag, value, request, b0, left, clean>>

Finish == pc = "idle" /\ left = 0 /\ pc' = "over" /\ UNCHANGED <<flag, Started>>
Stop == pc \in Ends /\ UNCHANGED vars

Driver == Reset \/ ReadId \/ GetFeatures \/ SetFeatures \/ InitNand \/ Call
          \/ TriggerDma \/ TriggerPio \/ TriggerPage \/ ArrivedByDma \/ ArrivedByPio \/ GaveUp
          \/ BCHProcess \/ BCHCheckStatus \/ Finish
Next == Driver \/ Transfer \/ Stop

Spec == Init /\ [][Next]_vars /\ WF_vars(Driver)

-----------------------------------------------------------------------------
(* Properties                                                               *)

TypeOK ==
    /\ mode \in Modes /\ flag \in {0, 1} /\ ret \in {0, -1}
    /\ pc \in {"reset", "id", "get", "set", "geometry", "idle", "data", "data wait", "parity",
               "parity wait", "page wait", "decode"} \cup Ends
    /\ b0 \in {"default", "set", "garbage"} /\ value \in {"default", "garbage"}
    /\ row \in Pages \cup {None} /\ slot \in Slots /\ result \in {"none", "ok", "fail"}
    /\ jobs \in Seq([row : Pages, slot : Slots, part : {"data", "parity", "page"}]) /\ done \in BOOLEAN
    /\ cache \in Pages \cup {None}
    /\ mem \in [Slots -> [data : Pages \cup {None}, parity : Pages \cup {None}]]
    /\ left \in 0 .. Reads /\ clean \in BOOLEAN

Settled == pc \in Ends

(* Every wait for a transfer has a limit: the driver ends.                  *)
Settles == <>Settled
=============================================================================
