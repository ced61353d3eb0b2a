# xboot: a TLA+ model

xboot is the second-stage boot loader of the Sunplus / Tibbo SP7021 (Q628), I143,
Q645 and SP7350. The ROM code leaves a boot mode in `g_bootinfo` and jumps to
it; xboot trains and tests the DRAM, loads u-boot (and, on the AArch64 parts Q645
and SP7350, a FIP with BL31 and OP-TEE) from the boot medium, checks it and starts
it on the right core. This directory models that path, checks it with TLC and
proves parts of it with TLAPS.

## The system

| Component (source) | State | Operations | What is hard about it |
|---|---|---|---|
| Boot flow: `boot_flow`, `run_draminit`, `boot_uboot` (`xboot.c`) | boot mode, round counter, DRAM, load areas, core | a round per loader, shell, verify, launch | ten rounds share the load areas; ignored results; shells between steps; which core |
| NAND loader: `nand_uboot`, `bblk_*` (`xboot.c`) | block, page, header of uboot1 | search, page-wise read, fallback | two copies in one area, the start of the second is guessed, failing pages |
| eMMC loader: `emmc_boot` (`xboot.c`) | `g_boothead`, two LBAs | GPT, search in four partitions, fallback | one buffer for all GPT blocks, errors that are not noticed |
| FAT (`fat/fat_boot.c`) | file table, sector buffer | find files, `fat_read_file`, table for the DDR training firmware | arithmetic over sectors and clusters, one buffer, failing sectors, end marks |
| xHCI (`usb/xhci_usb.c`) | rings, event ring, root ports | control and bulk transfers, commands, PORTSC | runs beside the controller; cycle bits; events matched by type only |
| USB enumeration (`usb/xhci_usb.c`) | one `udev`, slots, contexts, five endpoint rings | scan of root and hub ports, address, configure | one structure for hub and devices; left and entered again in the middle |
| USB mass storage over xHCI | CBW tag, residue | command, data, status; retries | stalls, retries, stale `act_len` |
| USB 2 host (`usb/ehci_usb.c`) | one address, port number, toggles | enumerate, transfer, read | the status of a long read lies behind its data; one address variable |
| SD/eMMC (`sdmmc/`) | card state, bus width, sampling delay | identify, partition switch, read with retry | lost answers; two sides must agree on the width; retries move the delay |
| NAND drivers (`nand/`) | DMA, ECC engine, command queue | page reads | transfers given up that finish later; ECC switched off for a second look |
| A/B cores, SMP (`xboot.c`, `arch/`, `warmboot/`) | words of memory | wake, hand over | cores without a lock, boot ROMs that reset the words |
| OTP monitor (`otp/`) | packages of bytes, fuses | read and burn for a host | a lossy line without timeouts, what is burnt stays |
| PMIC (`i2c/`) | controller, chip | three transfers without a result | polls that give up early |
| Signature verification (`common/verify_image*.c`) | image, engine | hash, signature, key, decryption | all in one memory, an engine beside the core |
| DRAM (`draminit/`), shell (`romshare/`) | memory, a word being typed | pattern test; stores | boundaries, digits and backspaces counted in a byte |

Everything is called, on one core, from `boot_flow`. Loaders return to it on
failure and never once `boot_uboot` starts a core. FAT calls the device through
`info->read_sector` (`usb_readSector`, `usb2_readSector`, `ReadSDSector`), the
NAND loader through `SPINANDReadNANDPage_1K60` or its parallel twin. Real
concurrency: controllers (xHCI, EHCI, NAND, DMA, I2C, security engine) run beside
the driver, devices and hosts answer when they like, and cores start each other.

The hazards, each at its line with the properties about it, are listed in
`PROJECT.json`.

## Modules

| Module | Models | Run |
|---|---|---|
| `BootFlow` | `boot_flow` and the order of steps of all loaders, `boot_uboot`; loaders, drivers and verification by what they promise | `BootFlow` |
| `UbootSource` | abstract: what a medium with two u-boot copies promises | `Loaders` |
| `NandUboot`, `EmmcUboot` | `nand_uboot`, `emmc_boot` and what they call; implement `UbootSource` | `Loaders` |
| `Loaders` | composes the two: a boot uses one | `Loaders` |
| `FatRead` | `fat_read_file`, `next_cluster` | `FatRead` |
| `XhciRing` | rings and events, `ctrl_tx`, `bulk_tx`, `queue_command`; the controller | `XhciRing` |
| `UsbEnum` | `usb_init`, `port_test`, `set_address`, `usb_select_config`, `update_hub_device` | `FatBoot` |
| `FatBoot` | `fat_boot` and the directory searches; extends `UsbEnum`, whose `usb_init` it calls | `FatBoot` |
| `BlockDevice` | abstract: what a loader takes a medium for | `Media` |
| `SdCard`, `SpiNand`, `ParaNand`, `EhciMsc` | the drivers; implement `BlockDevice` | `Media` |
| `EhciEnum`, `UsbMsc` | `usb2_init`; mass storage over xHCI | `Media` |
| `Media` | composes the six drivers: a boot uses one medium | `Media` |
| `CpuWake` | A/B hand-over, RISC-V harts, CA55 cold and warm start | `Bringup` |
| `OtpMonitor`, `PmicI2c`, `ImageVerify`, `UsbConfig`, `TrainingFw`, `DramTest`, `MonShell`, `RootHub`, `BulkTd` | one part each, below | `Bringup` |
| `Bringup` | composes the ten parts beside the media: they run one after the other | `Bringup` |
| `*Proofs` | theorems about the module of that name and the parts it composes; `Bringup`'s are in `BringupStartProofs` and `BringupDataProofs` | - |
| `MC*` | the sets TLC takes for the constants | the run of that name |

A composition has the variables of all its parts under names of their own, an
`INSTANCE` per part, and a variable (`loader`, `medium`, `part`) that says which
one this behaviour is about; the others rest at one initial state.

### BootFlow

A variable `pc` is the place in the code; each action is one call (a loader's
load of one image, a shell session, a verification). `mode` is
`g_bootinfo.gbootRom_boot_mode`, `type` the argument of `do_fat_boot`, `retry`
the counter of `boot_flow`, `area` what is at `UBOOT_LOAD_ADDR` and
`FIP_LOAD_ADDR`. An image is the set of its flaws and the core it is for; a
loader accepts an image if none of its flaws is among the checks this loader
makes (`Checks`), so the differences between loaders are kept: the FAT loader
compares no names, NOR and NAND have no size limit. `loaded`, `waved` are
history. A failed check returns to the next round through the shell, in the
order of the code. `mon_shell` is left with `q`; what an operator could write
through it is not modelled.

Properties: `LaunchChecked` (only images of this round that passed the checks
and, with signatures, the verification), `DramTested`, `RightCore`,
`VerifyFailureIsFinal` (after a bad signature only the shell and `halt`),
`Settles` (the loop comes to an end). `DramTested` leaves out FAT media because
`do_fat_boot` does not look at the result of `run_draminit`. Builds with
`CONFIG_USE_ZMEM` start what is in memory after a look at its magic, so
`LaunchChecked` is about the others.

### UbootSource, NandUboot, EmmcUboot, Loaders

`UbootSource` says: the search ends; it uses an intact copy; a copy that the
loader has to find (`must`) is not given up, and uboot2 comes before uboot1.
`NandUboot` and `EmmcUboot` implement it (`ImplementsSource`, by INSTANCE with a
refinement mapping that reads the copy in memory). Which copies the loader has
to find is a definition of each module: on NAND those whose pages read reliably
and that start inside a search of ten blocks; on eMMC those in a GPT partition
that read reliably, with a GPT that reads.

NAND pages are good, bad (never read) or weak (each read may fail), eMMC reads
of the header and of the data of an image may fail. `BootsWhole`: whatever was
written to the load areas by searches, header-only loads and failed loads, what
`boot_uboot` finds there is a header and all data of one undamaged image.
On NAND, `SKIP_BLOCK_WITH_BAD_BLOCK_MARK` is defined by no build, so bad-block
marks are not looked at.

### FatRead, TrainingFw

One action per turn of each loop of `fat_read_file`. A byte of the disk is a
pair of cluster and place, so the model sees every byte that goes to the wrong
place. Sectors that fail (`MaxLost` per call) leave junk; a FAT sector that
fails leads to any cluster. `ReadsFile`: a read that passes, without a lost
sector and inside the file, has exactly the bytes asked for. `WritesInside`:
nothing behind them is written, failing sectors or not.

`TrainingFw` is the other reader of chains, for the training library, which is
not in the repository: it asks for a table of the firmware's sectors from some
sector on, looks sectors up, and asks again. `TableRight`: each sector of the
file the table covers is found in it, whatever an earlier table left there. The
code stops at `0FFFFFFF` only; any other end mark is followed like a cluster,
and the property then says only that nothing of the file is lost.

### UsbEnum, FatBoot

`fat_boot` calls `usb_init` for a device, looks for the boot files there and, if
the device was behind a hub, calls it again with the port to go on from. So the
scan is a loop that is left and entered again in its middle, with `udev`, the
slots and `info` left over from the device before. `UsbEnum` has the scan (one
action per port, per new device, per step of its set-up), `FatBoot` the rest.

What is plugged in is fixed at the start: a tree of devices (nothing, a device
too slow, a hub, a disk with a file system and a directory) or a card. A port's
reset takes any number of attempts. `at` is the controller's side: the location
each slot was told; a request through a slot reaches the device there. Whether a
controller minds a wrong route string is left open (`SetAddress`): one that
does leaves the driver in `wait_for_event` (see `XhciWait`).

`FindsTheFile`: what is handed to the loaders is of the device the search
stopped at. `NoDiskMissed`: USB boot gives up only after it tried every port
where it looks (the root ports, or those of the first hub it came to).
`AsksTheHub`: a port of the hub is asked through the hub's slot, whose context
has not gone to another device. `RingsApart`: a disk whose two endpoint numbers
differ has a ring for each, and the hub keeps its control ring. `RouteIsOwn`, which the run
`UsbRoute` shows violated: every device is told its own place. `Settles`: the search ends.

### XhciRing

The driver's steps are the loops of `ctrl_tx`, `bulk_tx` and `queue_command`;
each TRB queued, each poll and each event taken is a step, and the controller
takes its own steps in between: fetch a TRB whose cycle bit is its own, cross
the link TRB, post an event, see a short packet, stall, post a port event. The
controller is not part of the repository; its actions (external in the map)
follow the xHCI standard. `RunsAsQueued`: every TRB is executed once, in order,
and none of a transfer before `giveback_first_trb`, over any number of laps.
`AnswerIsOwn`: a call returns with its own event. `Returns`: a wait ends unless
the endpoint has stalled. The first two hold only as long as no call began with
an event of an earlier one outstanding and no wait gave up (`InStep`): the driver
matches events by type alone, and a bulk transfer of several TRBs that ends
with a short packet posts two events of which it takes one. Both behaviours are
in the model.

### UsbMsc

`XhciRing` shows that a ring is carried out in order, and that a call returns
with its own event while driver and controller are in step. `UsbMsc` starts from
there and lets them get out of step: a wait that gives up after foreign events
and a short packet in the first of two TRBs each leave an event too many. From
then on the driver looks at the buffers before the controller has written them
and writes them before the controller has read them, so memory (`mem`) is read
and written when a transfer is carried out, not when it is queued. The CBW and
the CSW share one buffer, as in `reserved[32]`.

`SuccessIsOwn`: 0 is returned only for a command the device passed;
`DataIsOwn`: the buffer then holds what the device sent for it. It needs the tag
in the CSW, but only once the events are two ahead. `Settles`: only an endpoint halted by a stall or by that disorder keeps the
driver waiting. The device and the controller's side are external.

### RootHub, UsbConfig, BulkTd

`RootHub`: `usb_init` halts, resets and starts the controller; `port_test` then
asks the root ports through `submit_root`, which turns hub requests into reads
and writes of PORTSC. Read and write are separate steps and the controller moves
between them, so a change bit may be set, or a device leave, in the middle.
`PortReady`: a port the driver takes is enabled, its device is there at the speed
the driver noted, the change of its reset is cleared, and the controller runs
with the memory it was given. The controller is taken to clear "enabled" while a
reset runs and to keep change bits through a controller reset; a device is
plugged only while ports are asked. After a `handshake` that gave up the ports
are not followed (`FollowLate = FALSE`); with `TRUE` the run also passes. What the
driver does on a controller that was not ready is thus not in `PortReady`.

`UsbConfig`: `usb_select_config` and `update_hub_device` for a hub and the disks
behind it, through one `udev` nobody clears. `EndpointsFit` relates what the
controller was told to the device's own descriptors, whatever the devices before
left, and asks for the first of a disk's endpoints in each direction in the
pipes: `usb_set_maxpacket_ep` looks at no type, so an interrupt endpoint listed
before the bulk one takes its place, and a device of the run lists them so. The
lists are in the order USB gives them; endpoints in them are bulk or interrupt,
and of type control only the empty entries of the tables. Left out: more interfaces or
endpoints than the tables hold, endpoint numbers above 3, isochronous endpoints,
`err_count`, `mult` and the copied endpoint 0.

`BulkTd`: how `bulk_tx` cuts a buffer at 64 KB (here 8 bytes) borders: one loop
counts the TRBs, another queues them. `TdWhole`: both agree, the pieces are the
buffer, only the last ends the chain and interrupts, and the TD size tells how
many packets are left. `Old` is the form of controllers before xHCI 1.0; that
run was made by hand.

### BlockDevice, Media

`BlockDevice`: a medium is asked for one block after the other, and either fails
or leaves that block in memory, where it stays. `sure` is FALSE when the driver
may have something left over from before, when CMD0 of an SD or eMMC card failed
unseen, or when a USB disk sent less than the block: no driver can keep the
promise then, or the code does not look. `ImplementsDevice` maps `SdCard`,
`SpiNand`, `ParaNand` and `EhciMsc` to it; `usb_readSector` of `xhci_usb.c`
returns 0 whatever happened and promises no such thing, so `UsbMsc` has
properties of its own instead.

- `SdCard`: `initDriver_SD`, `IdentifyStorage`, `SetMMCPartitionNum`, `ReadSDSector`.
  Commands and answers get lost or garbled; at the raised clock only the settings
  in `good` sample rightly. Two errors the driver does not see are in the model: a
  switch the card refused, as `DoMMCSwitch` tests bit 6 of the status and R1 has
  SWITCH_ERROR at bit 7 (the card's request for background operations, at bit 6, is
  taken for a refusal), and a CMD0 that failed, as `-CMD0` is 0: the identification
  is then left out, with clock, lines and class as they were. `WidthsAgree`: the
  controller has more data lines than the card only after a refused switch, and
  fewer only when an answer to a switch got lost, background operations were asked
  for, or CMD0 failed; `unsure` notes which of it happened.
  `RetriesSuffice`: the 32 retries visit a good setting. `BootEnableKept`,
  which `SdBootEnable` shows violated: selecting the user area leaves the boot
  partition as it is.
- `SpiNand`: set-up and page reads by DMA (the build's mode), PIO and auto-BCH. A
  transfer that was given up may still end. The `_q645` files are the same text
  on other registers. PIO with automatic pages is in no build.
- `ParaNand`: command queue, interrupt bits, data region; waits that end without an
  error. `EccRestored`: a page is asked for with ECC on, whatever failed before.
- `EhciEnum`: `usb2_init` behind a hub, with one address variable. The reset of a
  port may take longer than the 100 polls: the driver goes on, the speed it reads
  is then any, and the port ends its reset whenever it likes (`outlasted`).
  `AddressesUnique`, `AsksTheHub`, `NoDiskMissed` say what holds all the same: the hub
  keeps its address to itself and is asked when it is meant, no two devices share
  an address but with one such port, and no disk is missed before the first one. A
  request several devices answer is answered by any; one that nobody answers
  resets the chip (`BootReset`). `usb2_init` is entered again past the initialisers of its
  pointers; that they still hold what they held is assumed, in `CallAgain`.
- `EhciMsc`: command, data and status. A long read fetches its status with the
  data. `TogglesAgree`: both ends agree on the toggle after every command;
  `stale` marks the one way out, a long read that was cut while the bytes behind it
  looked like a status. The residue is not looked at: a disk that has less data
  than asked for and reports success leaves part of a block (`cut`).

### CpuWake

Each core is a process that steps through its own code; words of memory are all
they share. Platforms: Q628 (B starts A), I143 (harts leave through one mailbox,
A may not exist), Q645 and SP7350 cold (core 0 restarts itself in 64-bit mode and
lets the others out of the boot ROM) and warm (after sleep). `StartsWhereTold`:
no core runs anywhere but where it was told to, and BL31 on SP7350 only with
OP-TEE's memory closed; on Q645 `set_memory_secure` is empty and nothing closes it.
Assumptions, by name: `PastDelay` (the delay loop outlasts A's boot ROM),
`AllHartsHere` (harts reach the mailbox before u-boot is loaded) and `Saved` (what was
saved of the words of cores 2 and 3 is not `CPU_WAIT_A64_VAL`, with which
`wake_cpuN` let these cores go). A bad table of contents, whose error `go_a32_to_a64` ignores,
is in the model and left out of the property.

### OtpMonitor, PmicI2c, ImageVerify, DramTest, MonShell

`OtpMonitor`: packages arrive byte by byte, some get lost, a fuse may be late.
`FusesAsAsked`: no bit is burnt that was not asked for, and a good answer is true,
unless a lost byte was made up by an equal one (`Slipped`). After a late fuse
`otprx_write` leaves the programming bits set; that the next write burns its own
address and value only is assumed, in `Burn`. `PmicI2c`: three
transfers through a controller that drops its FIFO when switched off or not
acknowledged. `VoltageSet`: no other value, register or chip is written, and an
RT5759 gets its voltage unless the chip refused or a wait was given up. A chip
that holds the clock low keeps the driver polling: it is in no behaviour.
`ImageVerify`: the three verification paths; on SP7350 an engine works beside the
core on the same memory. `VerdictRight`: the verdict is that about the image as
sent. Assumed: the engine's flags are clear at the start, the two images have
different signature pointers, cryptography does what it says. `DramTest`:
`FaultsFound`, on words of 4 bits: the test fails exactly for a stuck bit or
address line in the range. `MonShell`: `StoresAsTyped`, with small bases and
counts: what `w` and `W` store is what was typed, however digits are taken back. Two
cases it leaves out, and so does not guard: more backspaces than digits that
count, and characters that came with an error.

## Runs

| Run | Distinct states | Bounds and why they are enough | Shows |
|---|---|---|---|
| `BootFlow` | 304 619 | 2 rounds (an earlier and a later one); every part, with and without signatures, zmem and CA7 strap; good images for both cores and one image per flaw | its properties |
| `BootRetry` | violation | as above | rounds after a boot card reach no loader |
| `Loaders` | 298 502 | NAND: 2 pages a block, images of 1 or 2 blocks, searches of 3 blocks, one bad and one weak page. eMMC: the layouts of the source's comment, all flaws of three images | `BootsWhole`, `ImplementsSource` |
| `NandUpdate` | violation | NAND as above | uboot2 is searched from `app_blk_start` |
| `FatRead` | 272 498 | sectors of 4 bytes, clusters of 1 and 4 sectors, chains of up to 3 of 3 clusters in any order, requests that start and end in each phase, one lost sector | `ReadsFile`, `WritesInside` |
| `XhciRing` | 375 465 | rings of 3 TRBs and a link, event ring of 4, 3 transfers or commands of up to 3 TRBs, 2 port events, 1 stall: both rings wrap and the skip limit (2) is reached | its properties |
| `XhciWait` | violation | as above | a wait on a stalled endpoint does not end |
| `FatBoot` | 167 990 | 2 root ports and a hub with 3 ports, each with any of 4 or 7 things: a hub behind an empty port, two disks before the one that boots; 24 cards | its properties |
| `UsbRoute` | violation | as above | the second disk behind a hub is told another place |
| `Media` | 761 831 | 2 or 3 blocks each; SD: all kinds of cards, 2 lost or garbled answers, 2 delays with both edges; SPI: 3 modes, a weak page, 2 buffers; parallel: weak and erased pages, a queue of 3, 2 failures; EHCI: a hub of 3 ports, any of whose resets may be late, 2 failures; xHCI: 3 reads and a retry, so events get two ahead | every driver, `ImplementsDevice` |
| `SdBootEnable` | violation | SD as above | an EXT_CSD that was not read costs the eMMC its boot partition |
| `Bringup` | 151 694 | 2 harts beside core 0 and four CA55, Q645 and SP7350; 4 packages, 1 lost byte, 1 late fuse; 2 refused bytes; images in 2 pieces with at most one fault; up to 3 devices in a row; files of 2 clusters and tables of 3 rows; 4 addresses under test; words of 2 digits; 2 root ports with a device that leaves or comes; buffers across one, two and three borders | ten parts |

The five runs that expect a violation each show a disagreement of the code with
a comment or message of the source; `PROJECT.json` quotes the lines.

Deadlock is checked in every run but `Bringup`: most of its parts simply end
(the DRAM test returns, the PMIC is set), and a part that has ended has no step.
`Settles` says there where each part may stop. In the other runs the ends of a
behaviour have an explicit stuttering step.

## Fairness

xboot is one thread that does not stop, so its own steps are weakly fair
(`Program` in `BootFlow` and `FatBoot`, `Driver`, `Caller`, `Core`, `Next` where
nothing else moves). A controller is weakly fair where it cannot but go on: it
serves a ring that has a TRB for it (`Fetch(e)`, `RunOut`, `RunIn`, `RunControl`),
ends or fails an EHCI transfer (both end the wait), moves an I2C byte, ends a
piece of the security engine's work, and a card gets ready. In `CpuWake` every
core is fair. `Media` and `Bringup` state the fairness of their parts together,
as only one of them moves. Operators, hosts, devices, ports and the NAND
controllers owe nothing: `Settles` holds with a shell that is never left and a
DMA that never ends. `BlockDevice` and `FatRead` have no fairness and no liveness
property. Where a driver may go on for ever, `Settled` of its module says so: a
full PNAND queue (`Command_queue_status_full` has no limit), an endpoint halted by
a stall, a device of full speed at the EHCI port.

## Proofs

Every theorem is for all values of the constants that satisfy the named
assumptions of its module, which TLC evaluates on each run. "Only if" is what a
theorem states as a hypothesis beside them.

| Module | Theorem | States, of the run | Only if |
|---|---|---|---|
| `BootFlowProofs` | `TypeCorrect`, `OnlyCheckedImagesRun`, `ImagesGoToTestedDram`, `CoresRunTheirOwnCode`, `FailedSignatureIsFinal` | `TypeOK`, `LaunchChecked`, `DramTested`, `RightCore`, `VerifyFailureIsFinal` | - |
| `LoadersProofs` | `TypeCorrect`, `LoadsWhole` | types (no NAND page past the load area), `BootsWhole` | - |
| | `SourceKept` | the safety part of `ImplementsSource`, for both loaders | the factory copy comes first (`EmmcOrdered`, `NandOrdered`) |
| `FatReadProofs` | `NothingBehind`, `FileRead` | `WritesInside`, `ReadsFile` | - |
| `XhciRingProofs` | `TypeCorrect`, `AnswersAreOwn`, `TrbsRunAsQueued` | types, `AnswerIsOwn`, `RunsAsQueued` | a TD fits below the link TRB (`Roomy`; the code's rings have 16 TRBs) |
| `FatBootProofs` | `HubAskedThroughItsSlot`, `EveryPortTried` | `AsksTheHub`, `NoDiskMissed` | - |
| | `FoundOnTheMedium` | `FindsTheFile` | no directory of a card names a file twice (`NoTwins`) |
| | `DisksHaveTheirRings` | `RingsApart` | endpoint numbers 1 to 3 (`SmallEndpoints`) |
| `MediaProofs` | `DriversAreDevices` | `ImplementsDevice` | long sectors have an even number of packets |
| | `TogglesKept`, `ReadIsOwn` | `TogglesAgree`; `SuccessIsOwn` of `EhciMsc` | as above |
| | `LinesAgree` | `WidthsAgree` | - |
| | `ReadsGetThrough` | `RetriesSuffice` | tries enough for a round of the settings per disturbance (`SdEnoughRetries`) |
| | `EccStaysOn`, `PageIsRead` | `EccRestored`; `ReadsPage` of `ParaNand` | - |
| | `AddressesApart`, `HubIsAsked`, `DisksFound` | `AddressesUnique`, `AsksTheHub`, `NoDiskMissed` | - |
| | `OwnSuccess`, `OwnData` | `SuccessIsOwn`, `DataIsOwn` | - |
| `BringupStartProofs` | `CoresAreTold`, `VerdictsAreRight`, `VoltageIsSet`, `TableIsRight`, `TypedIsStored` | `StartsWhereTold`, `VerdictRight`, `VoltageSet`, `TableRight`, `StoresAsTyped` | - |
| `BringupDataProofs` | `FaultsAreFound`, `PortIsReady`, `DevicesFitted`, `DataInOneTd` | `FaultsFound`, `PortReady`, `EndpointsFit`, `TdWhole` | - |

The hypotheses hold of the code or say where it is not right. `usb2_readSector`
reads 8 sectors, 8 packets at 512 bytes, or one; with an odd number the toggles
do come apart. The 32 tries of `MAX_SD_READ_RETRY` are two rounds of 8 delays and 2
edges, so two disturbed transfers are allowed. Endpoint 4 of a disk would share
a ring with endpoint 0. Where the update lies before the factory copy, the code
takes one for the other. `UsbConfigAssumption` says what USB says of a list of
descriptors: settings of an interface follow each other, the first one first
and with as many endpoints as it announces, an address is in a setting once and is
used alike in all of them, and a disk has endpoints in both directions. The theorems
of `SdCard`, `EhciEnum` and `EhciMsc` have no such hypothesis for the errors the code
does not see: they are cases of the properties themselves, which say what is
still true after them.

### How a composition is proved about

`Media`, `Bringup` and `Loaders` instantiate each part with variables of their
own, and the prover cannot take a theorem of a module over to an instance with
other variables. The proof module of a composition therefore states each part's
invariant and lemmas for the names of the composition, with the instance's name
in front (`SdInv`, `SpiTransferStep`; below the names are without it), and joins
them at the end: `SdSteps` and
its like say that a step of the composition is one of the part or leaves its
variables alone. The invariants of the parts that rest hold with the others, as
they hold at their initial states.

### The inductive invariants

`BootFlow`. `LaunchChecked` is about the last step only. The inductive invariant says
what holds on the way there: at each place behind a load, this round's `loaded`
contains the area and the image in it is free of the flaws every loader checks;
behind a verification, it is not forged where the build has signatures. The
shell is the difficult case, because it returns to `back`: the invariant is
stated over the place the control is at or will return to (`Here`). `DramInv` and
`CoreInv` do the same for the test of the DRAM and for the core.

`Loaders`. At and behind the FIP's load the u-boot area holds one undamaged
image, because each load rewrites header and data and only one that passed
leads there; on NAND the header in memory is tied to the block being read.
`SourceKept` says of the search what was passed over: on eMMC, that what was found is
the first and the last copy of the partitions looked at; on NAND (`SeekInv`), that
a copy that must be found is still ahead of the search or is the one being read,
and that uboot1, when it is taken, was the last resort. Both use that the factory
copy comes first.

`FatRead`. The place in the chain, the bytes left of the sector, of the cluster and
of the request, and what is at `dest` are tied to how far the read has come; a
lost FAT sector loses the first of them only. `NothingBehind` needs just the
counts.

`XhciRing`. `CycleInv`: the TRBs below the enqueue pointer have the driver's cycle
bit and the others have not, but for a first TRB that is held back; `PlaceInv`: the
transfer's TRBs are the last ones queued; `HcInv`: the controller is as far behind
as the transfer has TRBs left; `EventInv`, `SaysInv`, `SettledInv`: the events between
both ends of the event ring are true, and none is owed to an earlier transfer.
With `Roomy` a transfer never meets its own first TRB.

`FatBoot`. `ScanInv`: which slot is the hub's and which is the device's that is set
up, by the place in the scan that is left and entered again; `PassedInv`: the
ports behind that place failed or hold nothing to boot from; `SearchInv` and
`FilesInv`: what the search has noted is of the medium at hand; `RingInv`: whose
the rings are.

`EhciEnum`. The three properties depend on each other: which device answers is
known only from the addresses there can be. `AddrInv`: a device whose reset ended in
time has no address, that of its place or, while it is being enumerated, the
default one; the others never have the hub's. `AskedInv`: whose address is in
`EHCI_addr`, by place; `SeenInv`: the disks on ports passed were handed on, up to the
first port in `outlasted`.

`EhciMsc`. `PhaseInv`: where the device is in its command, by place of the driver,
and that toggles are in step there; a long read has an odd number of packets
with its status, and turns the toggle like one. `LeftInv` ties the block in memory
to the reads that are left.

`UsbMsc`. `Told`: what the device was told is reset by each command, and only a CSW
sent since then can be in the shared buffer with the tag. Transfers for data and
for status take turns, and only the 8 bytes of the capacity fit a status transfer
of 13; the status then lands elsewhere (`Astray`). A stall halts the endpoint for
good, and its event comes after that of an earlier status.

`SdCard`. `WidthInv`: narrow before the switch; after it the card's width is known by
whether the answer came and whether it refused; from there on the
two relations of the property hold. For `ReadsGetThrough` each failed try is
charged: one the setting is to blame for moves the setting, so that the distance
to every good one shrinks (`Away`); every other one is a counted disturbance and is
worth a round of all settings. `Spent` bounds the tries by these charges. `ClassInv`:
from ACMD41 or CMD1 on the driver takes the card for what it is, so that CMD18
addresses the sector meant, unless CMD0 failed.

`ParaNand`. `EccInv`: the engine is off only between the first and the second look;
`TrackInv`: what is queued, in the region and among the bits is of the page asked
for, if nothing was left over. `SpiNand`. `TrackInv`: as long as no wait was given up,
the one transfer of the part asked for is under way, or it is over and the part
in memory.

`DriversAreDevices` adds to each driver its image as a block device (`DevPhase`,
`DevFound`, `DevSure`) and shows that a step changes it as `DevMoves` allows: not at
all, from idle or an end to reading, from reading to an end with the block asked
for in memory, or in memory only after a failure. `Moves` is the same said once
for all drivers, and is a step of `BlockDevice` or a stutter (`MovesAreSteps`).
`BlockDevice` has no fairness, so this is the whole of the property.

`CpuWake`. `WakeInv`: A is woken only with `boot_next_no_stack` there for it, and B's
word holds what A put there after B cleared it; `MailInv`: every hart has emptied
the mailbox before the address goes in, so nothing but the address goes round;
`SmpInv`: a CA55 leaves the boot ROM only with its vector and the code set.

`ImageVerify`: which pieces the engine has done, by its progress and the core's.
`PmicI2c`: the FIFO holds the bytes of the transfer under way from the place it has
come to, or the controller has dropped them. `MonShell`: the digits that count
come after zeros, the line holds the number typed after each of them, and each
is below the power of its count, so that cutting to the width loses nothing.
`TrainingFw`: the table is right as far as the walk has come, and the walk is in the
cluster where the next sector begins. `DramTest`: the address that was last to write a
cell finds there what it wrote, and what a passed round has shown. `RootHub`: where the
controller is while no handshake gave up, and that the port taken is enabled
whatever of PORTSC was read before. `BulkTd`: as many pieces are left as the rest of
the data needs, and they follow on from what is queued.

`UsbConfig`. `KnownInv`: whatever the tables hold is from this device or one before
it, and `PacketInv`, so are the packet sizes. `WalkInv`: which interface is being filled,
by the descriptor the list is at. `FirstInv`: the first table holds just the endpoints of
the first interface read so far, and those below the announced count are just those
of its first setting, as these come first, and in the order of the list. The pipes are looked for below that
count, so they are of that setting; the contexts are made of all entries, so one
may have the packet size of another setting of its endpoint.

`PowersOfBase` (`MonShell`) and `PowersOfTwo` (`DramTest`) are truths of arithmetic, that a
power is the base times the one before: the prover knows nothing of exponents. They
are assumptions by name, and TLC evaluates them for the constants of the run.

### Only model-checked

- All liveness: `Settles`, `Returns`, the fairness part of `ImplementsSource`.
  Fairness and `ENABLED` are out of the prover's reach.
- `FusesAsAsked`: it depends on what a checksum of one byte cannot tell apart, and
  holds for one lost byte and the packages of the run, not for any number of them.
- The type invariants of modules whose proofs need less than all types.

## Not modelled

- `CONFIG_STANDALONE_DRAMINIT` and `CONFIG_LOAD_LINUX` builds (no configuration sets
  the second), `custom_boot_flags`, pin multiplexing, clocks, console, the time of STC.
- DRAM training: a library outside the repository. Cryptography: taken at its word.
- Addresses and memory layout: two load areas never overlap. MMU tables, stacks.
- `nand/nfdriver.c` and `common/verify_image_q654.c` are compiled by no build;
  `sp_adc.c` has no caller; every caller of the CPIO link is compiled out
  (`#if 0`, `CPIO_TEST`).
- Block writes of SD and NAND (not built), CID and CSD fields nothing depends on,
  NAND register timing, PIO with automatic pages of the SPI NAND.
- xHCI: scratchpads, stalls of endpoint 0; a build without `CONFIG_HAVE_USB3_HUB`.
  `UsbEnum` assumes at most 5 ports on the hub (`portnr` has 8 entries) and
  transfers that succeed; `RingsApart` speaks of endpoint numbers below 4.
  `usb_get_max_lun`.
- `fat_boot`: the arithmetic of the BPB, sectors of the directory that do not
  read, a card that lists a name twice (`count` then ends the search early).
- The table of addresses of the OTP key readers; DRAM's way out of self-refresh.
- Build tools, which run on the host.

## What could come next

1. The refinement of `BootFlow`'s loaders by `Loaders` and `FatBoot`, in one run.
2. Failing directory reads in `FatBoot`, failing transfers in `UsbEnum`.
3. A theorem for `FusesAsAsked`: packages whose checksums no loss of the allowed
   bytes keeps.
