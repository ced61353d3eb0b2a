---------------------------- MODULE NandUboot ----------------------------
(***************************************************************************)
(* nand_uboot() of xboot.c with bblk_read, bblk_find_image and              *)
(* nand_load_uhdr_image: search blocks for a u-boot header, guess where the *)
(* updated copy starts from the size of the factory one, load it page by    *)
(* page, fall back to the factory copy, then load the FIP.                  *)
(*                                                                          *)
(* Sizes are in a unit of the model; a page is the 1K60 payload of          *)
(* PageSize.  SKIP_BLOCK_WITH_BAD_BLOCK_MARK is not defined by any build,   *)
(* so bblk_read takes the blocks one after the other.                       *)
(***************************************************************************)
EXTENDS Integers, FiniteSets

CONSTANTS
    AppBlk,         \* g_bootinfo.app_blk_start
    SearchBlks,     \* blocks searched for a header (10)
    FipBlk,         \* where the search for the FIP starts
    PagesPerBlk,    \* u16PageNoPerBlk
    PageSize,       \* sect_sz
    HdrSize,        \* sizeof(struct image_header)
    SignSize,       \* SIGN_DATA_SIZE
    MaxPages,       \* pages of the largest image
    HasFip,         \* the part boots through a FIP (Q645, SP7350)
    Factories,      \* what may be on the medium as uboot1,
    Updates,        \*   as uboot2
    Fips,           \*   and as FIP, see ImageType
    Faults          \* the sets of pages that may be bad or weak

BlkSize == PagesPerBlk * PageSize
Ceil(a, b) == (a + b - 1) \div b

Ids == {"uboot1", "uboot2", "fip"}
NameOf(k) == IF k = "fip" THEN "fip" ELSE "uboot"

(* An image by first block and data size, with what is wrong with it.       *)
ImageType == [start : Nat, size : Nat, flaws : SUBSET {"hcrc", "dcrc"}]
Absent == [start |-> 0, size |-> 0, flaws |-> {}]

(* The load area holds the largest image.                                   *)
NandAssumption ==
    /\ AppBlk \in Nat /\ FipBlk \in Nat
    /\ {SearchBlks, PagesPerBlk, PageSize, MaxPages} \subseteq Nat \ {0}
    /\ HdrSize \in 1 .. PageSize
    /\ SignSize \in Nat
    /\ HasFip \in BOOLEAN
    /\ Factories \cup Updates \cup Fips \subseteq ImageType
    /\ Faults \subseteq SUBSET Nat
    /\ \A m \in Factories \cup Updates \cup Fips :
         HdrSize + m.size + SignSize <= MaxPages * PageSize

VARIABLES
    imgs,       \* the images on the NAND, fixed
    bad,        \* the pages that never read, fixed
    weak,       \* the pages that read or not, each time anew, fixed
    stage,      \* step of nand_uboot
    step,       \* "find", "read" or "check" of nand_load_uhdr_image
    i,          \* block index of bblk_find_image
    n,          \* pages read by bblk_read: j, and i times PagesPerBlk
    real,       \* real_blk_off, the block of the header found
    blkStart,   \* blk_start
    hdr1,       \* image_get_size(&hdr1), 0 if there is no uboot1 header
    mem         \* the pages in the u-boot and the FIP load area

medium == <<imgs, bad, weak>>
vars == <<medium, stage, step, i, n, real, blkStart, hdr1, mem>>

NoPage == -1
Slots == {"uboot", "fip"}
Slot == IF stage = "fip" THEN "fip" ELSE "uboot"

(* The pages of an image: header, data and signature, in block order.       *)
PageCount(k) == Ceil(HdrSize + imgs[k].size + SignSize, PageSize)
FirstPage(k) == imgs[k].start * PagesPerBlk
Pages(k) == FirstPage(k) .. FirstPage(k) + PageCount(k) - 1
Present == {k \in Ids : imgs[k] # Absent}
Blocks(k) == imgs[k].start .. imgs[k].start + Ceil(PageCount(k), PagesPerBlk) - 1

(* The images whose header is in page p: at most one.                       *)
HeaderIn(p) == {k \in Present : FirstPage(k) = p}

Init ==
    /\ imgs \in [uboot1 : Factories, uboot2 : Updates, fip : Fips]
    /\ \A k, l \in Present : k # l => Blocks(k) \cap Blocks(l) = {}
    /\ bad \in Faults /\ weak \in Faults
    /\ stage = "hdr1" /\ step = "find"
    /\ i = 0 /\ n = 0 /\ real = 0
    /\ blkStart = AppBlk
    /\ hdr1 = 0
    /\ mem = [s \in Slots |-> [o \in 0 .. MaxPages - 1 |-> NoPage]]

-----------------------------------------------------------------------------
(* nand_uboot: what follows a call of nand_load_uhdr_image.                 *)

Call(s, blk) ==
    /\ stage' = s /\ blkStart' = blk
    /\ step' = "find" /\ i' = 0 /\ n' = 0

(* The search for uboot2 starts behind uboot1, as if that one were at the   *)
(* start of its search.                                                     *)
AfterHdr1(size) ==
    /\ hdr1' = size
    /\ Call("uboot2", AppBlk + Ceil(HdrSize + size, BlkSize))

Loaded ==
    IF stage \in {"uboot2", "fallback"} /\ HasFip THEN Call("fip", FipBlk)
    ELSE Call("boot", blkStart)

Failed ==
    \/ stage = "hdr1" /\ Call("uboot2", AppBlk + 1)
    \/ stage = "uboot2" /\ hdr1 > 0 /\ Call("fallback", AppBlk)
    \/ stage = "uboot2" /\ hdr1 = 0 /\ Call("failed", blkStart)
    \/ stage = "fallback" /\ Call("failed", blkStart)
    \/ stage = "fip" /\ Call("no_fip", blkStart)

-----------------------------------------------------------------------------
(* A page read: bad pages fail, weak ones may.  A page that failed leaves   *)
(* nothing usable in memory.                                                *)
ReadPage(p, ok) ==
    /\ ok => p \notin bad
    /\ ~ok => p \in bad \cup weak

Put(o, p) == mem' = [mem EXCEPT ![Slot][o] = p]

(* bblk_find_image looks at the first page of block blkStart + i: a header  *)
(* counts if name and header checksum are right.                            *)
Candidate == (blkStart + i) * PagesPerBlk
Matches(p) == {k \in HeaderIn(p) :
                  NameOf(k) = Slot /\ "hcrc" \notin imgs[k].flaws}

FindHit ==
    /\ step = "find" /\ stage \in {"hdr1", "uboot2", "fallback", "fip"}
    /\ i < SearchBlks
    /\ ReadPage(Candidate, TRUE)
    /\ Put(0, Candidate)
    /\ real' = blkStart + i
    /\ \E k \in Matches(Candidate) :
         IF stage = "hdr1"
         THEN AfterHdr1(imgs[k].size)
         ELSE /\ step' = "read" /\ n' = 0
              /\ UNCHANGED <<stage, i, blkStart, hdr1>>
    /\ UNCHANGED medium

FindMiss ==
    /\ step = "find" /\ stage \in {"hdr1", "uboot2", "fallback", "fip"}
    /\ i < SearchBlks
    /\ \/ ReadPage(Candidate, FALSE) /\ Put(0, NoPage)
       \/ ReadPage(Candidate, TRUE) /\ Matches(Candidate) = {} /\ Put(0, Candidate)
    /\ i' = i + 1
    /\ UNCHANGED <<medium, stage, step, n, real, blkStart, hdr1>>

NotFound ==
    /\ step = "find" /\ i = SearchBlks
    /\ Failed
    /\ UNCHANGED <<medium, real, hdr1, mem>>

(* bblk_read of the whole image: header, data and signature.                *)
Want == HdrSize + imgs[CHOOSE k \in HeaderIn(real * PagesPerBlk) : TRUE].size + SignSize

ReadNext ==
    /\ step = "read" /\ n * PageSize < Want
    /\ LET p == real * PagesPerBlk + n
       IN  \/ /\ ReadPage(p, TRUE)
              /\ Put(n, p)
              /\ n' = n + 1
              /\ step' = IF n' * PageSize >= Want THEN "check" ELSE "read"
              /\ UNCHANGED <<medium, stage, i, real, blkStart, hdr1>>
           \/ /\ ReadPage(p, FALSE)
              /\ Put(n, NoPage)
              /\ Failed
              /\ UNCHANGED <<medium, real, hdr1>>

(* Mutant: a data checksum that is not compared.                            *)
AnyHeader(s) == HeaderIn(mem[s][0]) # {}

(* image_check_dcrc over what is in memory: right if the header's image is  *)
(* not damaged and its header and data pages are there in order.            *)
Complete(s, k) ==
    \A o \in 0 .. Ceil(HdrSize + imgs[k].size, PageSize) - 1 :
        mem[s][o] = FirstPage(k) + o
DcrcHolds(s) ==
    \E k \in HeaderIn(mem[s][0]) : "dcrc" \notin imgs[k].flaws /\ Complete(s, k)

Check ==
    /\ step = "check"
    /\ IF DcrcHolds(Slot) THEN Loaded ELSE Failed
    /\ UNCHANGED <<medium, real, hdr1, mem>>

Ends == {"boot", "failed", "no_fip"}
Done == stage \in Ends /\ UNCHANGED vars

Next == FindHit \/ FindMiss \/ NotFound \/ ReadNext \/ Check \/ Done
Spec == Init /\ [][Next]_vars /\ WF_vars(Next)

-----------------------------------------------------------------------------
(* Properties                                                               *)

Stages == {"hdr1", "uboot2", "fallback", "fip"} \cup Ends

(* Types; no page of an image is read past the end of the load area.        *)
TypeOK ==
    /\ imgs \in [Ids -> ImageType] /\ bad \cup weak \subseteq Nat
    /\ stage \in Stages /\ step \in {"find", "read", "check"}
    /\ i \in 0 .. SearchBlks /\ n \in 0 .. MaxPages
    /\ real \in Nat /\ blkStart \in Nat /\ hdr1 \in Nat
    /\ mem \in [Slots -> [0 .. MaxPages - 1 -> Nat \cup {NoPage}]]

Intact(k) == k \in Present /\ imgs[k].flaws = {}
Held(s) == CHOOSE k \in HeaderIn(mem[s][0]) : TRUE

(* boot_uboot finds complete, undamaged images of the right name in both    *)
(* load areas, although each area was written by searches, by failed loads  *)
(* and by a header-only load before.                                        *)
BootsWhole ==
    stage = "boot" => \A s \in IF HasFip THEN Slots ELSE {"uboot"} :
        \E k \in Present : NameOf(k) = s /\ Intact(k) /\ Complete(s, k)

(* Which copies the comments of nand_uboot make the loader find: uboot1     *)
(* when it reads reliably in the first search; uboot2 when it reads         *)
(* reliably and starts within a search of the end of uboot1 (or of the      *)
(* next block, where there is no uboot1 header).                            *)
Start(k) == imgs[k].start
Reliable(k) == Intact(k) /\ Pages(k) \cap (bad \cup weak) = {}
Dead(k) ==
    k \in Present =>
        "hcrc" \in imgs[k].flaws \/ FirstPage(k) \in bad
Usable(k) ==
    k \in Present /\ "hcrc" \notin imgs[k].flaws
    /\ FirstPage(k) \notin bad \cup weak
FactoryFindable ==
    /\ Reliable("uboot1")
    /\ Start("uboot1") \in AppBlk .. AppBlk + SearchBlks - 1
UpdateFindable ==
    /\ Reliable("uboot2")
    /\ \/ /\ Dead("uboot1")
          /\ Start("uboot2") \in AppBlk .. AppBlk + SearchBlks
       \/ /\ Usable("uboot1")
          /\ Start("uboot1") \in AppBlk .. AppBlk + SearchBlks - 1
          /\ Start("uboot2") <
               AppBlk + Ceil(HdrSize + imgs["uboot1"].size, BlkSize) + SearchBlks

(* The code computes the start of uboot2 from app_blk_start, not from the   *)
(* block uboot1 was found in; it keeps its promise when the two agree.      *)
Aligned == Usable("uboot1") => Start("uboot1") = AppBlk

Outcome ==
    IF stage \in {"fip", "boot", "no_fip"} THEN Held("uboot")
    ELSE IF stage = "failed" THEN "none" ELSE "loading"
Must ==
    {k \in {"uboot1"} : FactoryFindable}
    \cup {k \in {"uboot2"} : UpdateFindable /\ Aligned}

(* As a u-boot source nand_uboot has these copies; Must is what it has to   *)
(* find of them.                                                            *)
IntactCopies == {k \in {"uboot1", "uboot2"} : Intact(k)}

(* The updated copy is used whenever it is good: "uboot2 start blk =        *)
(* (uboot1 start blk) + (num of blocks of uboot1)".                         *)
UpdatePreferred ==
    stage \in {"boot", "failed"} /\ UpdateFindable => Outcome = "uboot2"
=============================================================================
