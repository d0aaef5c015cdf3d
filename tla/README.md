# A TLA+ development of Atari8EspBusBang

The firmware makes an ESP32-S3 a device on the memory bus of an Atari 8-bit
computer. One core bit-bangs the bus, the other does everything else, and an
optional second ESP32 (the Sidecar) is reached over a one-wire-per-direction I2S
link. What is hard here is not in any one function: it is what two cores, a DMA
engine, a 6502, a second computer and two disk operating systems do to each
other's memory in between. These modules model those meetings, TLC checks them on
small instances, and TLAPS proves much of it for every instance. Paths below are
relative to `src/`.

## The system

| Component | State | Operations | Meets | What makes it correct |
|---|---|---|---|---|
| **i2slink** `components/sidecar_link/i2slink.c` | TX cycle, RX ring, two tripwires, lock, last read | `write`, `hint`, `read` | DMA, peer | a NEW payload is one whole version, never an old one (but for a bit error in a stamp); a version is not missed for good |
| **Sidecar** `sidecar.cpp`, `sidecarHost.cpp`, `sidecarApp.cpp` | sequence, pending command, primed, backoff | `probe`, `nop`/`sio`/`cio`, `service` | two i2slinks | no command runs twice; a response is the command's own; a probe finds a Sidecar that is there |
| **ExtBankPool** `main/extMem.*` | `banks`, `spare`, `recency` | `init`, `getBank` | MMU | 16 banks stay apart though few are in SRAM; the selected one is |
| **MMU tables** `main/mmu.*` | `l1Blocks`, `extBanks`, BASIC/OS multiplexers | `mmuInit`, `mmuOnChange`, map/unmap/check | core1 reads them on every cycle | the page tables say what PORTB, PBI select and the cartridge say |
| **Core1 loop** `main/core1.cpp` | `bmonHead`, `l1Blocks[]`, `d000Write[]` | one bus cycle | core0, the 6502 | serves a cycle from current tables |
| **Core0 loop** `main/main.cpp`, `bmon.*` | `bmonTail`, `pinReleaseMask` | `core0_onBmonChange`, `resume6502` | core1's ring | every trapped write is acted on, then the 6502 goes on |
| **Bus detach** `main.cpp` 189-239 | pointers of the window, OS, BASIC and cartridge tables, saved and disabled | `disableBus`, `enableBus`, `safeCopy` | core1 | the tables come back as the program selected them; a detached bus drives nothing |
| **PBI interrupts** `main.cpp` 134-161 | `deferredInterrupt`, the IRQ bit of every `ctrl` word | raise, clear | 6502, core1 | no interrupt lost, none in the middle of a request |
| **PBI requests** `main/pbi.*`, `pbirom.asm` | two request blocks, window, `screenMem` | one handler per command | 6502 program on the stack, bus detach, CIO, disks | the 6502 is parked; the right memory is copied; requests end |
| **CIO** `main/cio.*` | open files, kept file names | open, close, get, put | PBI | retries repeat nothing |
| **Cartridge** `main/cartridge.*` | image, banks, header | open, `initMmuBlocks`, `accessD500` | MMU, core1 | the bank written to D500 is in the window |
| **SpartaDOS disk** `main/diskStitchImageSDFS.h` | sector tables, overlays, pending creates, appends, replacements | mount, read, write | host files, the guest's DOS | the sectors a DOS writes in its own order become its files, whole |
| **DOS 2 disk** `main/diskStitch.h` | directory, aliases, per-file sector chains | mount, read, write | storage handles, the guest's DOS | the same, without pending tables: each sector is passed on |
| **Storage handles** `main/diskStitch.h`, `diskFlash.h` | cache of open files over a backend with few handles | open, pwrite, truncate, remove, rename | backend | a cached handle is the file's; an open finds a free one |
| **Flash disks** `main/diskFlash.*`, `gzipImage.*` | ATR header, inflated image | open, read, write | SPIFFS | an offset |
| Monitor, scraper, telnet, Wi-Fi, configuration, logs, LED, profiling, APT, simulators, tools | | | | not modelled, see below |

Calls: the 6502's bus cycles drive core1; core1 tells core0 through `bmonArray`
only; core0 answers through page tables, `pinReleaseMask` and the request
blocks; requests call CIO, disks, cartridge and the Sidecar host synchronously.

## Modules

| Module | Extends | Proofs |
|---|---|---|
| `I2sLink` | | `I2sLinkProofs` |
| `Sidecar` | | `SidecarProofs` |
| `ExtBankPool` (refines `BankedMemory`) | | `BankSwitchProofs`, first part |
| `BankRecency` | `ExtBankPool` | `BankSwitchProofs`, first part |
| `BankSwitch` | `ExtBankPool` | `BankSwitchProofs` |
| `BusDetach` | | `BusDetachProofs` |
| `PbiRequest` | | `PbiRequestProofs` |
| `HandleCache` | | `StitchedDosProofs`, first part |
| `StitchedDos` | `HandleCache` | `StitchedDosProofs` |
| `SdfsImage` | | `SdfsImageInv` (the two invariants), `SdfsImageLemmas`, `SdfsImageProofs` |

The `MC` modules add only values for TLC and the state constraints named below. Operators headed "Faulty" are
variants of the operator they precede, with a mistake that could be made there; no
specification uses them. They show what each property is able to notice.

**`I2sLink`** is one direction of the link. A wire cycle is the cells H, F, P, C, T
(stamp, framing, payload, its CRC, stamp), then the write-backs of the descriptor with
the region's end (`E`), of the guard (`G`), and a spare descriptor. `WriteT` and
`WriteRest` are `i2slink_write`, a cell a step, T first and H last. `Beam` moves the DMA:
it samples the writer's cell and stores it, or a bit error, in the reader's ring. What a bit error
makes of a stamp is any other number, *s*, which is kept as *s* + `SeqMod`: the reader sees *s*
(`Seen`), and the properties can tell it from a stamp that was written (`Hit`). The
reader's `pc` has a place for each load or store that the beam can come between: `ReadE`,
`ReadG`, `RegionG`, `LateE`, `LateG` are `tripwire_step`, `TChanged` and `Rearm` the rest of
`i2slink_hint`, `CopyCell` to `Check` are `take_window`, `Search`, `ArmE`, `ArmG`,
`Again` the loop of `i2slink_read`. Time is only in `Timed` and `Slack`: the beam makes
at most `Slack` steps while the reader is between the positions `Timed` names.

**`Sidecar`** is the command protocol on two links, each taken at what `I2sLink` shows:
the reader gets the version in its ring, whole and once, as it does where no bit error changes a
stamp. (Where one does the reader can be given the last version again, and `service()` would run
its command again: finding 4.) `Transact`, `Accept`, `Ignore`,
`Timeout`, `Fault` are `Sidecar::transact` and `probe`; `Read`, `Handle`, `Reply`,
`ReadFault`, `BackoffEnds` are `SidecarService::service`; both ends restart anywhere.

**`ExtBankPool`** is the pool, with `SwapIn` and `Touch` the two branches of `getBank`
and `Preload` the loop at the end of `init`. **`BankedMemory`** is what it promises.
**`BankRecency`** adds a history variable: `age` ranks all banks by their last use, those in
PSRAM too, of which the code keeps no order.

**`BankSwitch`** extends `ExtBankPool` with both cores and the halt line: `ReadCycle`,
`WritePORTB`, `WriteRegister`, `WriteWindow` are bus cycles of `iloop_pbi`; `OnPORTB`,
`Remap`, `OnPBISelect`, `OnRegister`, `SkipEvent`, `DropEvents` are
`core0_onBmonChange`; `ReadPattern` and `SelectBank` the bank part of `mmuOnChange`;
`StartResume` and `EndResume` are `resume6502`. Core0 waits a number of core1's cycles
(`wait`), as `bmonWaitCycles` does. The 6502 fetches three bytes before each store and
repeats its read while halted.

**`BusDetach`** is the same pair of cores from the other side: not the pages behind the
window at 0x4000 but the pointers. `mmu` holds every pointer that core1 drives the bus
by: the four windows, the BASIC, OS and extended-bank multiplexers and the cartridge's
banks. `AfterRead` and `AfterWrite` are what core1 stores after a cycle, made again by
every cycle; `SaveTables`, `DisableTables`, `SaveD5`, `EnableInterrupts` are `disableBus`
with its `safeCopy` loops, one pointer a step; `HandleDisk`, `HandleScreen`, `HandleOpen`
stand for the requests by what they do to tables; `RestoreD5`, `EnableTables`,
`WaitForDummyWrite`, `GiveBack` are `enableBus` and the end of `handlePbiRequest`. While
interrupts are on, core1 may take a cycle for a write with any data (`Mistimed`).

**`PbiRequest`** is the handshake between `pbirom.asm` and `handlePbiRequest`, with memory
cut into pages known by area and number. There are two request blocks, as in the ROM: the
program's and the interrupt routine's. `Issue`, `TakeInterrupt`, `DummyWrite`, `LeaveStack`,
`CopyIn`, `CopyOut`, `Complete` are the 6502, `Handle` (with the screen copy and the
command) runs with the bus detached, `Attach` and `Release` end it. `TickPasses` and
`RaiseDeferred` ask for the interrupt from the loop, `Interrupt` clears it. Which areas
only native RAM holds, and how many pages the screen has, is any choice at the start.

**`SdfsImage`** is the SpartaDOS volume. `Mount` gives every host file the
sectors of `AllocateFile`, its search going on where the last one ended (`Search`). `Write` is `write()`: it stores the overlay, decodes a changed directory sector or
map sector, and stages or commits by `CommitRename`, `BeginReplacement`, `StageHypothesis`,
`CommitDelete`, `CommitCreate`, `CommitAppend`, `CommitReplacement`, `WriteThrough`, each
with its storage calls in the order of the code; one call may fail, and the code's undo
follows. The guest is external: SpartaDOS X known from the sector writes that
`docs/STITCH_SDFS.md` and `csim/dstitch/test_sdfs.cpp` describe (`CreateFile`, `ExtendFile`,
`ReplaceFile`, `EraseFile`, `RenameFile`, `UpdateFile`), its data, map and directory sectors in any
order, a refused write sent again. One order is left out unless `HeadFirst`: a map sector that links
to one of which the image still has an old content, from the file that is overwritten or from an
earlier one whose update stayed in the overlay, comes after it (`InOrder`). Finding 6 is what
happens otherwise; a chain that ends in a sector of which the image has nothing is waited for.

**`HandleCache`** is `CachedStorageInterface` over `SpiffsStorage`; a call is an operator on a
record (`OpenFile`, `PwriteFile`, `CloseFile`, `TruncateFile`, `RemoveFile`, `RenamePath`),
so that a disk can make several in one step; each but the close can fail (`Call`). By itself it is
driven by any sequence of calls.

**`StitchedDos`** is the DOS 2 disk over `HandleCache`. `Mount` stitches the host's files one after
the other (`StitchFile`), under the name `assignAtariFilenames` gives each: its own (`Direct`) or one
with a digit (`Alias`). `Read` finds the file of a sector, its bytes and its link. `Write` of the
directory is `DirWrite`: first the host files of all new entries are created (`Creations`), then
entry by entry a file is removed, created, cut or moved (`Takings`); of a data sector it is
`PutSector`: the bytes to their place, the host file cut where the chain ends, and the chain extended
or cut by the link (`Chain`). The guest is DOS 2, external again: `CreateFile`, `ReplaceFile`,
`ExtendFile`, `EraseFile`, `RenameFile`, `UpdateFile` begin an operation and `WriteEntry`,
`WriteSector`, `WriteVTOC`, `CloseEntry` are its writes, each sent again if it is refused. A
remove that fails is not noticed by the code: `stranded` keeps, for the properties, the host files of
erased files that it leaves behind. The guest does not create a second file with the base name of
another, with which it would share a host file, unless `MayShareHost` (finding 5).

## Runs

| Run | Shows | Bounds | States |
|---|---|---|---|
| `pool` | `NoAliasing`, `ResidentsListed`, `SelectedInSram`, eviction by last use, and the refinement of `BankedMemory` | 4 banks, 2 in SRAM, patterns that alias a bank and base RAM: an eviction of each SRAM bank from each PSRAM bank; complete | 4,614 |
| `switch` | a program that leaves core0 time between trapped writes finds the selected bank, writes to no other, and is never left halted | 3 banks, 1 in SRAM; 5 stores | 110,626 |
| `bus` | `WindowsFollow`: after any requests the program sees the OS, BASIC, cartridge bank and extended bank it selected; `DetachedDrivesNothing` | 2 cartridge banks, 2 extended; 3 stores, 2 requests | 541,560 |
| `link_safety` | `NewIsOneVersion`, `NeverReturnedBefore`, `NoFalseWindow`, with a bit error in any cell and its relock, or a peer restart | 2 writes, across the wrap; any beam speed in the copy | 10,399,998 |
| `link_live` | `HintNeverStrands`, `QuietVersionRead` | 2 writes, faults after 2 laps | 451,838 |
| `link_preempted` | finding 1 | 2 writes, nothing timed | |
| `sidecar` | `AtMostOnce`, `OwnResponse`, `NoDropAfterProbe`, `UndisturbedIsAnswered` | 5 commands from 13 of 16, across the wrap; 1 host restart, 2 service restarts, 2 faults | 375,501 |
| `pbi` | `ParkedWhileHandled`, `ScreenIsCopied`, `RightData`, `RequestEnds`, `InterruptServed` | 3 requests, 2 ticks, screens of 4 and 5 pages | 331,402 |
| `pbi_screen` | finding 2 | as `pbi` | |
| `sdfs` | `Coherent`, `WholeFiles`, `OneOwner`, `ReadBack`, `RefusedByStorageOnly`, `RefusedLeavesHost` | 3 operations, 1 failing call, files of up to 5 bytes in sectors of 2 | 158,130 |
| `sdfs_grow` | finding 3 | 1 overwrite that may grow | |
| `dos2` | `DosCoherent`, `DosReadBack`, `SectorsAccounted`, `HandlesInOrder` | 3 operations, 1 failing call, removes too, a cache of 2 handles | 613,673 |

Three more configurations each end in a counterexample, and show findings 4 to 6: `LinkBitError.cfg` of
`I2sLink` (2 writes, 1 bit error), `DosShared.cfg` of `MCStitchedDos` (2 files created) and
`SdfsHeadFirst.cfg` of `MCSdfsImage` (1 overwrite of a file of two map sectors).

Every bound, and why it is enough:

* `MaxWrites`, `MaxRestarts`, `MaxErrors`: two writes make a new, an old and a mixed pass;
  a third adds passes that differ from those only in numbers, and the theorems have no such
  bound. `SeqMod` 4 and a first session that starts two below it make the second write wrap; the
  second session starts at 1, so that no stamp of one is a stamp of the other (`SessionsApart` of
  `MCI2sLink`). `OneFault`: an error or a restart in a run. `ErrorsThatCount` leaves out only errors that
  another stands for: a changed stamp that is no write's just tears the pass, a bit of the payload
  is to the reader as one of its CRC, and an error in the markers or the CRC is put in the first
  version's passes.
* `LowMod` is the width of what `hint` watches. The code watches 8 of 32 bits. The runs watch
  all of a small stamp, and the value the lock leaves there (the complement) equals none: the
  256-version alias and the complement alias are out of `link_live`, and `HintNeverStrands` fails
  when `LowMod` is made 8 in that run (`SeqMod` 8 from 6). This is listed as a hazard.
* `Timed`, `Slack`: `link_safety` lets the beam make one step, a descriptor's time, in a
  tripwire step, as little as the spare descriptor is there for. `link_live` times
  the whole read, because a reader slower than the beam need never have a window.
  `link_preempted` times nothing.
* `SessionsApart` of `MCSidecar` keeps the random numbers of two host sessions apart: starts 13, from
  where the commands wrap through 15 and 0 to 1, and 5, of `SeqMod` 16. The 32-bit numbers of the code
  meet about once in 2^32 starts. `Tries`: two Nops
  to a probe. Five commands are a probe of two Nops, a command, and a second probe's.
* `MaxQueue` 3: how far core0 lags when it does not wait (the ring has 512 places and no check for
  full). `WaitCycles` is the code's 2. `ResumeCycles` is 4 for the code's 15, enough for a whole
  store instruction in the released cycles; the theorems take any number. `Patience` lets a run have
  programs of both kinds: those that write a trapped page again only when core0 has nothing of
  the last left to do, and any other. Five stores select, evict, return and write on both sides.
* `MaxCopy` is the code's 4 pages, so a screen of 5 needs a second chunk; `MaxRequests` 3 lets flags
  and names of one request meet the next two; `MaxTicks` 2 lets a tick come in a request and another
  in the interrupt routine.
* `MaxStores` 3 and `MaxRequests` 2 of `BusDetach`: a store before, between and after requests; a
  pointer left wrong by the first request is the state the second saves.
* `SectorSize` and `DataSize` 2, `MapEntries` 2: lengths 1, 2, 3 and 5 are a part of a sector, a whole
  one, one more, and (SpartaDOS) a second map sector. `LastSector` 10, `Slots` 3, and five data
  sectors (DOS 2) make a deleted file's sectors, maps and slot be used again within `MaxOps` 3.
  `Inventory` has a name with an alias and one without; `HostDir` of DOS 2 a name that needs an
  alias, one that finds none left (`LastAlias` 2 for the code's 9) and one that blocks one.
* `CacheSize` 2 with 3 handles stands for the code's 4 with 5.
* `MaxFaults` 1 in both. In `dos2` any open, write, truncate or remove can be the one that fails; in `sdfs`
  `FaultKinds` has reads, writes and truncates: a failed open after a replacement's truncate, or a
  failed rename or remove, is listed below as seen and not run. `MayGrow` FALSE in `sdfs`, and
  `HeadFirst`, and `MayShareHost` FALSE in `dos2`: `sdfs_grow`, `SdfsHeadFirst.cfg` and `DosShared.cfg`
  show the rest.

`CHECK_DEADLOCK FALSE` stands where a bound, or an idle 6502, lets everything stop.

## Fairness

* `I2sLink!FairSpec`: the DMA never stops (weak, `Beam`), a call goes on (weak, `Reader`), the client
  polls `hint` and reads when it is TRUE (strong, because between the two the version may come and
  go): `SidecarService::service` is polled in the main loop.
* `PbiRequest!FairSpec`: core0 polls (weak, `Handle \/ Attach \/ Release`, and `RaiseDeferred`) and the
  6502 runs. Its dummy write and its exit are fair each, because it loops through both; each other
  step of the ROM's program is, and taking an interrupt, since the OS is in and leaves interrupts on.
* `BankSwitch!SwitchSpec`: the bus clock never stops (weak, `ReadCycle`; stores are the program's
  choice) and core0's loop goes on, through its start too.
* The other modules claim safety only.

## Proofs

Each module's constants are arbitrary within the assumption it names (`LinkAssumption`,
`PoolAssumption`, ...); what a theorem assumes beyond that is in its `ASSUME`.

`BankSwitchProofs`, of the pool, for every number of banks, of SRAM banks, and every mapping:

* `PoolInvariant`: `PoolInv` = `TypeOK`, `NoAliasing`, `ResidentsListed`, `SelectedInSram`. None of
  the last three is inductive alone: that the evicted buffer is SRAM needs `ResidentsListed`, which
  needs that no two banks share a buffer, which needs the spare to be none of theirs.
  `PoolTypesAlways`, `NoAliasingAlways`, `ResidentsListedAlways`, `SelectedInSramAlways` follow.
* `PoolImplementsBankedMemory`: a step of `getBank` leaves `Contents` as they are and changes `sel`
  to the bank: a `Select` or a stutter; a `Write` through `ptr` is a `Write` to `sel` because `ptr`
  is that bank's buffer and no other's.
* `LeastRecentlyUsedAlways`: the banks in SRAM are the most recently used of all, in the order of
  `recency`. `RecencyInv` adds to `PoolInv` that the ranking has no ties: then a bank that is
  swapped in gets rank 0 and every SRAM bank one rank more, which is what `Shifted` does to the
  list, and `MovedToFront` moves the very banks whose rank grows.

and of the two cores, on top of the pool's lemmas, for every number of stores, latency and length of
`resume6502`'s window:

* `SwitchTypesAlways`, for any program: the waits end with the events in the queue that the code
  goes on to drop (`Waits`).
* `PatientWindowAlways`, `SelectedBankWrittenAlways`. The invariant follows a change of bank through
  both cores: `Events` (a patient program has one trapped write on its way, and is halted for the
  one to PORTB), `Follows` (while the page of the selected pattern is not settled the 6502 is
  halted and core0 on its way to it), `Selection` (the pattern last selected stays settled; the
  patterns of base RAM never leave it). They assume `Premap[0] < 0`, as `mapRambo256` has it: in a
  mapping where pattern 0 is a bank, `lastXeBankNr` starts by claiming it, and the first
  selection of it can be missed. That is the hazard at `mmu.cpp:153`.

`BusDetachProofs`, for every number of banks, stores and requests: `BusTypesAlways`,
`WindowsFollowAlways`, `DetachedAlways`. The invariant says at each step of core0 which pointers are
the program's, which the saved and which the dummy's (`Layout`, by `Order`), what offset core1
believes (`Offsets`), that the cartridge's table is of the image there is (`CartFollows`), and that
after a write and a read cycle nothing live is driven (`Dead`).

`I2sLinkProofs`, for every number of writes, restarts and errors:

* `LinkTypesAlways`; `NoFalseWindowAlways`, which assumes only that the tripwire steps are timed and
  the slack one descriptor (`StepsTimed`, `i2slink.c:166-173`): `Tripwires` says that `E` without
  `G` is a beam between the two, and that a reader which saw `E` clear and finds it set is within one
  step of it.
* `NewIsOneVersionAlways`, `NeverReturnedAlways`: the invariant follows a version from the cycle
  (`Cycle`) through the ring (`Ring`: a pass that has T of a write has its payload if H agrees and
  neither is changed) to the copy (`Copy`), and orders the stamps on the way (`Order`). They assume
  `StepsTimed`, and `StampsApart`: no two writes have the same stamp. A payload with a good CRC is
  always that of one write. That it is returned under this write's stamp is proved where neither
  stamp was changed, and that no version comes twice unless a NEW with a changed stamp came in between:
  then the reader holds a number that is not the version's, and takes the version again under its own.
  An older version never comes.
* `OneSessionNewer` discharges `StampsApart` for one session of fewer writes than stamps, wherever it
  starts. `NoErrorsNewer` and `OneSessionNoErrors` are the promise of `i2slink.h:17-19` as it
  stands (`EveryNewIsNewer`), on a wire that changes no bit.

`SidecarProofs`, for every number of commands, restarts and faults: `TypesAlways`;
`AtMostOnceAlways` from `OnceInv` (`ReadPast`: ids on the way to the service only grow, a primed
service has read past every command that ran, an unprimed one drops what is no older);
`OwnResponseAlways`, `NoDropAlways` and `UndisturbedAlways`, which assume `NumbersApart` always: no
response of an earlier session that is still in the host's ring bears the number of the command
pending now. The code does not rule it out, its random start makes it one in 2^32.
`OneSessionOwnResponse` needs no such assumption for a host that is not restarted.

`PbiRequestProofs`, for every screen, window, set of areas and number of requests: `TypesAlways`,
`ParkedAlways`, `ScreenAlways`, `RightDataAlways`. `ScreenAlways` holds as the pages are stored in
order whatever the length of a chunk; that it may be too long is finding 2.

`StitchedDosProofs`, of the handle cache, under any sequence of storage calls: `HandlesInOrderAlways`,
and `OpenHasRoomAlways`, which needs more handles than cache entries.

`StitchedDosProofs`, of the disk, for every host directory, set of data sectors, number of slots, operations and
failing calls, on top of the handle cache's lemmas:

* `DosInvAlways`. `DosInv` says that no two files of the guest share a name, an entry, a host file or
  a sector (`Catalogue`); that every file the operation is not about is at rest (`Stored`: entry,
  chain, host file and bytes agree) and every other slot empty; and how far the operation has come
  (`Progress`): before its entry is written the file is as it was (`AtEntry`), then the chain is
  right up to the sector that is next and the host file holds the bytes before it (`AtData`), then all
  of it (`Ended`). A refused write leaves this as it is, though it may have created, written or
  cut a host file; a remove that failed leaves the erased file's host file in `stranded`. It assumes
  `~MayShareHost`. `HandleInv` is a part of it: a stale cached handle would send bytes elsewhere.
* `DosReadBackAlways`, `SectorsAccountedAlways`, `DosHandlesInOrderAlways` follow, with no
  further hypothesis.
* `DosCoherentAlways`: the host directory is the guest's files, those left out at the mount and those in
  `stranded`, no more and no less. It assumes also `GuestApart`: no name of the guest has the host
  name of a file that the mount left out. Without it the code does lose that file: creating the name opens the left-out
  file with `O_CREAT`, and deleting it later removes it (`diskStitch.h:611`, `:648`). `Dos2.cfg`'s
  names satisfy it.

The initial state needs an argument of its own, since `Mount` is a fold over the host's files:
`StitchInv` holds of the image after the first *i* of them, and the induction is over the set of such
*i* (`Upto`, from the least number of a set, which the library proves of the naturals without an
operator parameter). That the recursive functions `Stitching`, `Creations`, `Takings` exist is proved
the same way. That two host files never get the same name is `AtariNames`: an alias is a digit no
direct name has, and two files of one group stand at different places among the digits.

`SdfsImageProofs`, for every host directory, sector size, map size, number of sectors and slots, lengths,
failing call and order of the guest's writes that `SdfsGuest` allows:

* `SdfsInvariant`. `SdfsInv` says that the files of the guest share no entry, host file or sector and
  have as many sectors as their lengths need (`Catalogue`); that the image's lists of them agree
  (`Layout`); that entries and map sectors of every file the operation is not about read as they
  should (`AtRest`, `Reads`); and where the operation is: what is pending for it, what its entry says
  (`Creating`, `Appending`, `Replacing`), and that its map chain is what it started from or all
  of it, the parts between being in the overlay, or that it has a gap at a sector of which the
  image has nothing yet (`Linked`, `Gap`). It is committed before the guest is done if the
  last sectors are rewritten ones (`Committed`).
* `SectorsHaveOneOwner` (`OneOwner`) follows from `Layout`. It needs all of the above: `CommitCreate`
  does not ask whether a sector it claims has an owner, it is the guest's chain that has none.

`SdfsGuest` says that an overwrite is not longer than the file (finding 3 is what happens otherwise), that
no map sector is linked to while the image has an old content of it (finding 6, `~HeadFirst`), that
`remove` and `rename` do not fail (the write that repeats them returns 0 without their effect, as
listed below), and that no host file whose name is not an Atari name is called like another one's
Atari name. TLC checks `SdfsInv` in 158,130 states with the constants of `Sdfs.cfg`, which satisfy it.
The proof goes through a write: reading it (`StartedIs`), noting or passing it (`DirGoing`,
`FillingGoes`) and committing (`CommitsGoing`), each of which leaves the operation `Going`,
finishes it, or was refused and left the image the `Same`.

The bytes, in the same module, under `SdfsGuest` and `SdfsStorage`:

* `BytesInvariant`. `BytesHold`, on top of `SdfsInv`, says what the overlay and the host files hold.
  At rest (`Rested`), and always for the files that the operation is not about (`Others`), every data
  sector in the overlay is the file's block (`Clean`) and the host file is the file (`Stored`). The
  operation's own file is followed on both sides of its commit. Before it (`Early`) the host has the
  old file and the overlay what the guest wrote so far; an append keeps the old bytes in the
  overlay's copy of the last sector too (`Intact`), since a refused one goes on from there. After it
  (`Late`) the host has the new file. `Unsure` are the sectors for which this is not claimed yet: those
  an update has still to write through, and those that an operation claims with the bytes which an
  earlier update left in the overlay. A commit takes such a sector's old bytes for the payload
  (`diskStitchImageSDFS.h:362-371`, `:532-545`), so that the host file is right only once the guest
  has written the sector again.
* `FilesAreCoherent`, `FilesAreWhole`, `FilesReadBack` follow: at rest there is no `Unsure` sector,
  and `ReadMapChain` and `ReadSector` find the maps and blocks that `Reads` and `Clean` promise.
* `OnlyStorageRefuses`, `RefusedKeepsHost` are of the steps. Each of the three commits is
  proved by the storage calls it makes (`AppendFills`, `ReplaceFills`, ...): they write all
  the bytes, or one of them failed and the host directory is what it was, the new file
  removed, the longer one cut, the old one written back.

`SdfsStorage` says that the guest does not overwrite files if opening a host file may fail. The code cuts
the old file before it opens it again and does not put its bytes back when that fails (lines 411-412), so
`WholeFiles` and `RefusedLeavesHost` are then false: TLC finds it with `"open"` in `FaultKinds` and
`"replace"` in `Kinds`. `Sdfs.cfg` has no failing open. TLC checks `SdfsInv` and `BytesHold` in 158,130
states with its constants, and in 43,192 with failing opens and no overwrites. No run lists these two
invariants: to repeat it, extend `SdfsImageInv` in `MCSdfsImage` and name them in `Sdfs.cfg`.

Only model-checked: liveness (the proof system does not reason about ENABLED). Every safety property of
a passing run is stated by a theorem. No module uses RECURSIVE.

## Findings

Shown by a run (1 to 3) or by a configuration of its own (4 to 6):

1. `i2slink.c:176-193`: the tripwire steps run with interrupts on. A long enough preemption gives a
   false window, against the comment at 170-173 and `i2slink.h:17-18` (`link_preempted`). The
   theorems say that this is all it takes to hold: nothing else need be timed.
2. `pbi.cpp:255`: the length of the next chunk is computed from the offset of the last
   (`pbi_screen`).
3. `diskStitchImageSDFS.h:747`: overwriting a file by a longer one stages an append beside the
   replacement and leaves old bytes on the host (`sdfs_grow`).
4. `i2slink.c:366`: the CRC covers the payload and not the stamps. A bit error that makes H of the last
   version the T of the next gives the last payload again as NEW, and the next version is then
   dropped as stale, against `i2slink.h:17-19` and `:30` (`EveryNewIsNewer`, `LinkBitError.cfg`). The service, which relies
   on this (`sidecar.h:17`), would run a command twice.
5. `diskStitch.h:607`, `:662-665`: a file's host name is its eight letters without the extension: `BIG16`
   and `BIG16.2` of `csim/dstitch/autoexec.bat:28-44` are one host file (`DosCoherent`, `DosShared.cfg`).
6. `diskStitchImageSDFS.h:358`: a map sector of an overwritten file that arrives before the one it links
   to is followed into the old content of that one; the write is refused with `-EROFS` instead of
   waiting for it, against `docs/STITCH_SDFS.md:257-259` (`RefusedByStorageOnly`, `SdfsHeadFirst.cfg`).

Seen while modelling, with no run of their own:

* `pbi.cpp:506`: a sector write asks whether something was copied in, not what: after the screen's
  last chunk the flag is still set. (`RightData` excepts sector writes before the screen is mapped.)
* `main.cpp:178-183`: within `resume6502` a PORTB write is not held back, against `extMem.h:22-27`.
  `switch` has these programs, and claims nothing for their windows.
* `pbi.cpp:595`: opening a cartridge frees the image that the saved `cartBanks[]` point into.
* `pbi.cpp:596`, `sysMonitor.cpp:77`: `mmuOnChange(true)` in a detached request, with an extended bank
  selected, writes pages of `dummyL1Block`, which every detached window shares.
* `pbi.cpp:366-371`: pages mapped for the screen do not reach `basicEnabledL1Block`, a copy that
  `mmuInit` made.
* `core1.cpp:118`: a cartridge bank selected by data comes one write cycle late.
* `cio.cpp:204`: the file name kept over an open's retries outlives an open that is given up.
* SpartaDOS: a host file of length 0 that is overwritten gives `-EROFS`; a rename or remove that
  failed returns 0 when the write is repeated; an open that fails after the truncate of a
  replacement leaves the host file empty until the write is repeated.
* DOS 2: a new file and a left-out file of one base name share a host file; a rename is not passed on,
  the first write of an empty sector writes a full one, the result of a remove is not looked at
  (`diskStitch.h:648`; `dos2` has it fail, and the host file stays).
* The stress configuration that halts with the XE mapping and one SRAM bank is where
  `lastXeBankNr`'s start value matters (see `BankSwitchProofs`).

## Not modelled

* The alignment search of the link, its statistics and driver set-up: data conversion, checked by
  the framing markers that the model has.
* Page-level MMU operations: self test, map, unmap and check, and the `ctrl` words that carry the
  interrupt bit.
* PBI status, percom and format commands, the monitor's loop, and the timeout that ends the
  firmware when the 6502 does not come back.
* CIO get, put, close and the SDX interface; cartridges of other types, their files.
* ATR images, the inflated image, `proc` files and SMB: one offset, or libraries behind the same
  interface.
* APT (simulator only), system monitor, screen scraper: layout and parsing.
* Wi-Fi, HTTP, telnet: library plumbing. Configuration, logs, LED, profiling, hot data: no
  protocol state.
* `disk.h`, `joust.h`, `fuse_d2.h`, the RFC 2217 server, hardware: data and third parties. The
  simulators, stress programs and tools: harnesses. Together these are most of the repository's
  lines, so the models, which follow the firmware's own logic, cover a small share of them.

## Plan

1. `MmuMaps`: `mmuOnChange` for self test, OS, BASIC and PBI, with map, unmap and check page by page,
   against "the tables are a function of PORTB, PBI select and cartridge"; over it the writes to
   pages while detached, and the screen's pages in the BASIC table.
2. `Cio`: the whole dispatcher with retries; the SDX interface.
3. `SdfsImage` with failing renames, removes and opens: what the repeated write should find, as an invariant
   that says which of the calls it has already made.
