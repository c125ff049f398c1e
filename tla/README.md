# Verification of the QNX startup program for the STM32MP257F-DK

The repository is a QNX 8 board support package. Its own logic is the *startup*
program: it runs after the boot loader on CPU 0 of an Arm SoC, finds the RAM,
restores or unpacks the image file system (IFS), starts the other cores, builds
the page tables and the system page with the kernel's callouts, loads the
bootstrap executables and jumps to the kernel. The callouts go on running in the
kernel. Beside it there is `wdtkick`, a utility that feeds the watchdog.

Paths below are relative to
`src/bsp/qnx800.bsp.hw.st_stm32mp257f-dk/bsp/BSP_st-stm32mp257f-dk_be-800/src/hardware/`;
`lib` is `startup/lib`, `board` is `startup/boards/stm32mp2`. `PROJECT.json` gives
the exact source lines of every definition.

The library also serves boards other than this one. Its drivers for them (GICv3,
MSI controllers, UARTs, clock chips, UEFI) are modelled from the same sources, with
the hardware as the driver's use of it shows it.

## 1. Inventory

| Part | State | Operations | Meets | What makes it correct |
|---|---|---|---|---|
| SMP bring-up (`lib/init_smp.c`, `lib/aarch64/smp_start.S`, `callout_smp_spin.S`, `board/board_smp.c`) | `cpu_starting`, `syspage_available`, `smp.pending`, `smp.start_addr`, the hook, a stack all secondary cores share | `init_smp`, `start_aps`, `transfer_aps`, `smp_start`, the `smp_spin` callout | system page (cores grow it), MMU state of CPU 0, kernel | one core on the stack, one writer of the system page, no lost wake-up, nobody runs code that is not copied yet, the boot ends |
| GICv2 (`lib/aarch64/gic_v2.c`, its callouts) | `gic_map`, distributor and CPU interfaces, the kernel's `ipicmds` words | init, trigger mode, id, eoi, mask, unmask, sendipi | kernel, other CPUs | no IPI is lost, nothing stays active, a masked line is quiet |
| GICv3 and ITS (`gic_v3.c`, `gic_v3_its.c`, callouts) | interrupt entries, redistributor frames, LPI tables, collections, command queue and its lock | set-up in any order, per-CPU init, callouts by register or memory | kernel, all CPUs, the ITS | as GICv2; entries are disjoint; commands of two CPUs reach the ITS whole and in time |
| MSI controllers (`callout_interrupt_t18x_*.S`, `_qoriq_*.S`) | status, enable and message registers, bits kept between two calls | patch, id, eoi, mask, unmask | devices, GIC | no message is lost, the id is that of its source |
| RAM manager (`lib/ram.c`) | free list, avoid list, temporary system page, early workspace | `add_ram`, `avoid_ram`, `find_ram`, `alloc_ram`, `ws_alloc`, `reserve_ram`, `add_sysram` | everybody who needs memory; asinfo | memory has one owner, none is lost, the kernel gets what is free |
| RAM from firmware (`lib/init_raminfo_*.c`, `uefi.c`, `efi_entry_point.c`) | firmware's map with its key, boot services | device tree, UEFI, EFI and fixed banks; exit from boot services | RAM manager, firmware | what firmware keeps is not used; services are left once |
| Address-space database (`lib/as_*.c`) | list of ranges with parent, name and priority | `as_add64`, `as_add_containing`, `as_find*`, `as_set_priority` | RAM manager, hwinfo, kernel | pieces cover a request once under the innermost container |
| System page (`lib/syspage_memory.c`, `callouts.c`, `add_*.c`) | sections in one growing block, patch data by address, chain of output routines | set, grow, relocate a section; measure and write callouts | all `init_*` functions, RAM manager | sections never overlap, callouts keep their data and fit |
| hwinfo and strings (`lib/hwi_*.c`, `hwidev_*.c`, `strings.c`) | items and tags at offsets in a growing section; two string sections | add devices and tags, find them, add strings | system page, drivers | a walk finds what was added and ends in the section |
| Page tables (`lib/aarch64/aarch64_map.c`, `init_mmu.c`) | the L1-L3 tables, `free_vaddr` | `aarch64_map`, the walk, callout mappings | RAM manager, image, kernel | every page leads where it was mapped |
| Bootstrap executables (`lib/init_system_private.c`, `elf*.c`) | image directory, loaded segments, chain of entry points | `load_bootstraps`, both ELF loaders | image, page tables, command lines | an executable is loaded as linked and the next one found |
| Command line (`getopt.c`, `common_options.c`, `tweak_cmdline.c`, `bootstrap_cmdline.c`) | one vector that several passes read and cut, `boot_args`, clusters of cores | parse, tweak, pack | all | each pass sees the options that were given |
| IFS restore (`lib/restore_ifs.c`, `lib/load_ifs.c`) | images, `rifs_info`, `rifs2_info`, all in RAM that survives a warm reset | restore, check, load, save, checksum | RAM manager, boot loader, crashes | a damaged image is never started; the saved data never lies |
| Device tree (`lib/fdt_*.c`) | the blob, a cache of the last interrupt parent; spin table, shim | cells, registers, interrupts, PSCI, timer; release of parked cores | RAM manager, SMP | the answer is the tree's; one parked core runs the shim at a time |
| Cores (`lib/aarch64/init_cpuinfo.c`, `cpuid_*`, `hypervisor*.c`) | cpuinfo, caches, hypinfo | what each core finds of itself | system page | entries are right for each core, lists are shared only when equal |
| UEFI and ACPI (`lib/uefi*.c`, `acpi*.c`, `board_find_*`) | console, its buffer and suspensions, tables | print, suspend, leave, find tables and structures | firmware, other cores | no character waits or goes where it must not; tables are found |
| Console (`board/stm32mp2_uart.c`, `lib/hw_ser*.c`, `callout_debug_*.S`, `kprintf.c`) | device and line per channel, UART registers | select, program, print, callouts | a serial driver that takes over | characters leave in order; callouts return |
| Clock and timer (`lib/hw_rtc_*.c`, `calc_time_t.c`, `timer_*.c`) | chip registers that move | read, convert | system page | time read is a time shown |
| Watchdog (`board/dk/main.c`, `stm32mp2_wdt.c`, `support/wdtkick`) | firmware's timer, options | kick, stop, option parsing, kick loop | firmware, time | the board is reset for a cause, and then it is |
| Printing, entry and exception code, register headers, deployment | - | - | - | formats, register code, pure I/O |

What is hard in this code: two or more cores that share words while some have
caches and some do not (SMP start), an interrupt controller that answers several
CPUs, a command queue that several CPUs fill, a boot that may be cut off between
any two stores and is tried again with what RAM kept (restore), pointers and keys
that must survive the movement of the memory they lie in (system page), allocation
with many overlap cases (RAM, asinfo, page tables), a firmware that changes its map
with each call, state that one pass of a parser leaves for the next, and devices
that move on between two accesses (UART, clock, MSI, watchdog). The list of hazards
in `PROJECT.json` names the lines.

## 2. Modules

One module per component; `MC*` modules give small instances for TLC, `*Proofs`
modules hold theorems. `SectionStore` and `RamPool` are abstract specifications,
implemented by `SysPage` and by `RamManager` with `RamInfo`.

| Module | Models | Steps |
|---|---|---|
| `SmpBoot` | start, parking, transfer and release of the secondary cores | one access to a shared word |
| `GicV2` | controller init and callouts, with controller and kernel modelled from their use | one register access or one callout half |
| `GicV3` | entries, distributor and redistributors, PPI, SPI, ESPI and LPI callouts, sendipi | one call of the board, one callout half |
| `Its` | its set-up, the collections, the command queue and its lock | one part of a callout between two accesses of the queue |
| `Msi` | T18x MSI, T18x PCIe with its cascade, QorIQ LS MSI | one register access |
| `RamManager` | lists of `ram.c` with all their callers | one call |
| `RamInfo` | the four sources of RAM in front of `RamManager` (which it extends), boot services | one call of firmware or of the RAM manager |
| `RamPool` | what the RAM manager promises: a pool of memory with owners | abstract |
| `SysPage` | sections, patch data, output chain, the two passes | one call, one callout of a pass |
| `SectionStore` | what the system page promises: independent arrays | abstract |
| `AsInfo` | asinfo and the callers that shape it | one call |
| `HwInfo`, `Strings` | items and tags; string sections | one call |
| `PageMap` | page tables, `aarch64_map`, ELF segments | one page or contiguous group |
| `Bootstraps` | the directory and both loaders without the VIRTUAL flag | one executable's header, one segment |
| `Options` | the vector, `getopt`, the passes and what they set (clusters of `-c` too), what is packed for the next programs | one option |
| `RestoreIfs` | restore, load and save of the IFS over many boots | one store that matters to a later boot |
| `Fdt` | helpers, interrupt cache, PSCI, the spin-table start | one query; one access of the shim |
| `Cores` | hypervisor mode, cpuinfo and caches of each core | one core's part |
| `Uefi` | detection, console, tables, SMBIOS | one call |
| `Console` | selection, rates, polled output, callouts, a driver taking over | one poll of a register |
| `Clock` | seven chips that run while they are read, dates, timer conversion | one register read |
| `Watchdog` | startup's kick and stop, `wdtkick`, time | one call, one unit of time |

Components that share no state are checked side by side in one run, one of them at
work per behaviour: `MCDevices` (Watchdog, Msi, Console, Clock, AsInfo) and
`MCBootInputs` (PageMap with Bootstraps, Fdt, Options, Cores, Uefi and the sections
HwInfo and Strings). `MCFdt`, `MCOptions`, `MCCores` and `MCUefi` hold instances
of the latter. What theorems are about comes in a module that the run and the proofs
both extend: `Devices` (Watchdog, Msi, Console, AsInfo) and `BootInputs` (PageMap, Bootstraps,
Fdt) state the properties that the theorems of `DevicesProofs` and `BootInputsProofs` have
in common with the runs.

Interaction between components is modelled where it carries risk: SMP start and
growth of the system page (`SmpBoot`), firmware, RAM lists and sysram (`RamInfo` on
top of `RamManager`), asinfo and free RAM (`AsInfo`), system page and its own
allocation (`SysPage`'s `Split`), image, allocator and reset (`RestoreIfs`), tables,
allocator and image (`PageMap`, `Bootstraps`), GIC and ITS (`GicV3` extends `Its`),
the console of firmware and the start of cores (`Uefi`), the strings and
the hardware items that name them (`HwInfo` with its offsets).

Notes on correspondence:

* **SmpBoot.** `bsp` and `ap` are program counters. `dirty` is a zero in an AP's
  cache that has not reached memory (`Evict` and `SpinClean` write it back);
  `monitor` and `event` are the exclusive monitor and the event register that
  `wfe` looks at. A core may be refused by PSCI, may be slow, or may never report;
  `SpinLimit` stands for the 2^32 polls after which `start_aps` crashes. What
  `init_one_cpuinfo` computes is reduced to the slot it fills and the two halves
  (read, write) of a growth of the system page. `KernelRelease` and
  `KernelShutdown` are external: the kernel's store to `start_addr`.
* **GicV2.** `pending`, `active`, `enabled` are the controller's state per line
  (banked for SGIs and PPIs); an SGI is pending with its source, as in the IAR.
  The id callout is two steps, because reading the IAR and what follows can be
  interleaved with other CPUs. `SendOr` and `SendSgir` are the two halves of
  sendipi. Priorities and the exclusion of equal priority are in `Blocked`.
* **GicV3, Its.** A board is a program of calls, run to its end or to a crash
  before the CPUs take interrupts. The queue keeps slot numbers and the commands
  in it; the ITS consumes at its own pace and may stall `MaxStall` times, fewer
  than the `Tries` polls the code allows, since the code asserts after them.
  `entries` has a list for each class of interrupts; `Fits` is the search for the
  place of a new entry. A collection ID has `CidBits` bits, to which
  `gic_v3_its_mapc` cuts a CPU number without a check; CPU numbers are taken to fit.
* **Msi.** Registers are sets of bits; reading a QorIQ register clears it, so that
  the bits wait in `cache`. `w` is the register of the id callout between two
  accesses.
* **RamManager.** Lists are sequences of `[addr, size]` and `[start, end]` as in
  the code. `given` is a history of who got what. The refinement mapping to
  `RamPool` takes the union of the list entries.
* **RamInfo.** `calls` is what the source still has to tell the RAM manager;
  `stale` says that the key is older than the map. Firmware may change its map
  (`Event`) up to `MaxEvents` times.
* **AsInfo.** Entries keep the order of the section, owner offsets are indices,
  and the "continued" mark and priority are fields. `PieceList` is the list of
  `as_add_containing` before it is entered. Loops are recursive functions of the
  number of rounds.
* **SysPage.** `ptr`, `size` and `mem` are the section pointers, sizes and the
  words of the page; a word is a callout, an address or data that knows where it
  belongs. `patch_data` is keyed by address as in `callouts.c`. `phase` follows
  `alloc_syspage_memory` and `write_syspage_memory`.
* **HwInfo.** `h` is the section with its byte offsets, `tree` the history of what
  a board asked for; the properties compare the two through the walk of libc.
* **PageMap.** Tables are functions from index to entry; 4K pages have three
  levels and 64K pages two (`large`). `mapped` and `asked` record what callers
  asked for; properties compare them with a walk of the tables. Modelled with the
  VIRTUAL flag, which the build file sets. Memory may run out (`Pools`), with which
  startup ends (`OutOfMemory`). `aarch64_map` does not look at what is mapped already:
  `AreasApart` says what its callers have to ask for, and holds by what the layout
  gives them. `LayoutAssumption` is how mkifs lays the files out in the image, as
  `ImagesAssumption` is for `Bootstraps`; `SpaceAssumption` is how the address space is
  laid out between startup, the executables, the automatic addresses and the entries
  that show the tables.
* **RestoreIfs.** A unit of RAM holds image data, saved information with a valid
  or invalid checksum, zeroes or junk. `Reset`, `PowerLoss` and `Decay` cut off or
  damage at any step. RAM is taken to suffice: the code uses what `find_ram`
  returns without looking at it, and a failed search is left out.
* **Options.** Strings are sequences of characters. A number is one character, so
  that `strtoul` is a look-up without bases and digits. `argv` is the vector, which
  passes cut in place; `g` is the static state of `getopt`. `next_arg` is the one of
  `fdt_tweak_cmdline` and `efi_tweak_cmdline`, `Absent` for NULL: each early return
  (no tree, no `bootargs`, no workspace) leaves it so, and the call for the next
  program tries again. `line.tree` says at which addresses there are trees, and
  which ones the register and the argument have.
* **Watchdog.** `slack` is how late the program may be when it has to go on;
  `Tick` is disabled when it is used up, unless the program has ended.

## 3. Runs

Each run ends within 5 minutes with two workers.

| Run | Result | Shows |
|---|---|---|
| `smp_boot` | pass | one core on the stack, an undisturbed system page, one taker per release, no lost wake-up; the boot ends and a shutdown reaches every core; four cores and every `-P` from 1 to 5 |
| `gic_v2` | pass | no lost IPI, nothing left active, masked lines quiet, every IPI command is taken |
| `gic_v3` | pass | disjoint entries, no lost IPI, collections and LPI configuration right with a shared queue, masked lines quiet |
| `ram_manager` | pass | lists exact (`MemoryExact`: normal form, conservation, sysram), firmware's memory kept (`FirmwareKept`), boot services left in order (`ServicesLeft`), refinement of `RamPool` (`PoolKept`) |
| `ram_resmem` | violation | `-r` before the `-M` that adds its bank is handed to the kernel as sysram |
| `sys_page` | pass | layout, the callouts written fit and are those registered (`CalloutsRight`), refinement of `SectionStore` |
| `restore_ifs` | pass | images that start are as built, over any number of interrupted boots; the saved information is valid only for whole images and saves a needless load |
| `restore_offset` | violation | with `addr_off` set, `load_ifs()` copies from the place without it |
| `restore_dst` | violation | a restored second IFS at a user's place is not reserved |
| `devices` | pass | watchdog strikes for a cause and does strike; console's line whole (`LineRight`), callouts return; option lines, clock and timer right; messages not lost and served; asinfo exact (`AsInfoRight`) |
| `boot_inputs` | pass | tables, areas apart from each other (in `LoadedRight`), loaded executables, the cache of the interrupt parent, device tree answers, parked cores released one at a time and each of them, command lines, cores, firmware, hwinfo and strings |
| `options_print` | violation | `print_syspage()` misses a `-S` behind an argument in a word of its own |

**Bounds, and why they are enough.**

* `smp_boot`: four cores are needed so that one is on the stack, one waits and
  one is parked or late at the same time; `-P` 1 to 5 covers none, some, all and
  more than all cores. `SpinLimit = 4` lets a slow core come before and after.
* `gic_v2`: two CPUs whose interfaces are swapped (a CPU number used for an
  interface number is noticed), one PPI and one SPI, and two device interrupts, so
  that both kinds overlap with IPIs in both directions. One IPI command is enough
  for "the word was not empty"; the theorems hold for any set of commands.
* `gic_v3`: two CPUs, one with an affinity beyond 15, three frames in the order of
  the CPUs and in another one; a queue of five slots wraps within the run; an
  interrupt of each class; boards with and without ITS and with both kinds of
  callouts, and every sequence of three out of eight entries that fit, overlap,
  contain one another or come out of order.
* `ram_manager`: three banks, two of which touch, pages of two units, `-r` inside
  a page, `-R` with a size that is no whole page, with an alignment and in the low
  region; `MaxGiven = 4` allocations reach every way to cut an entry. Trees with
  one and with two reservations, and nodes of one and two cells; maps with the
  firmware's memory at the bottom, in the middle and at the top, unsorted and with
  a descriptor that is no RAM. `MaxEvents = 3` with `RetryMax = 2` exhausts the
  retries.
* `sys_page`: one further section of each kind (set and grown), three callouts of
  which one has data and read-write words and one is `smp_spin`; up to two ranges
  split between measuring and writing (`MaxSplits`), and 32-byte pages so that
  rounding matters.
* `restore_ifs`: an image of three units (header and the data of two
  executables), 14 units of RAM, two bootable executables at most, so that a third
  exceeds the limit; compressed and uncompressed headers, seven option sets.
  `Width = 1024` stands for 2^32.
* `devices`. Watchdog: timeout 8, boot 3 and 7, latency 1, `Width = 32` for the 2^32 of
  `delay()`, eleven command lines with missing, negative, too large and repeated
  values; the theorems hold for all of these. Console: the board's table and
  one for each other kind of UART, seven pairs of options; a FIFO of two
  characters, three polls instead of the callout's limit, a message with a number
  and a newline. Clock: seven dates at ends of days, months, leap years and
  centuries, three seconds passing while they are read, words of 14 and 16 bits in
  place of 32 and 64 with frequencies and ticks at their limits. Msi: three
  controllers, two registers of two bits, codes 1 and 7 and three ports, three
  messages. AsInfo: twelve addresses, eight below 4G, a bank across that limit,
  images inside and outside banks, requests in both containers.
* `boot_inputs`. Page tables: 64 pages per half, in tables of four (three levels) or
  eight (two levels) entries, groups of two and four pages; startup lies across
  two L2 tables; automatic addresses are used up to the recursive entry;
  executables have segments in place and copied, with and without zeroes, that
  begin inside a page, that have zeroes only, and one linked below the base, which
  crashes; memory for everything, or for the first tables only. Trees: with each property there, missing or of a wrong length, `CellBase = 16`
  for 2^32, three queries so that the cache is filled, hit and stale; spin tables
  for three CPUs with shared and own addresses. Command lines: up to 32 words
  with the 19 arguments of `_main` (`MaxArgs`) filled by whole options, by one
  that loses its argument, or with options left over; 127 packed arguments, the most
  an `int8_t` counts (`Half` is 128), reached with mkifs's words, with one of the
  firmware's and before the board deletes one. No line goes beyond 127: see section 4.
  Device trees for them: at the register's address, at the argument's, at both or at
  none, with and without `bootargs`, and found only after `-u`, with workspace or
  without. Cores: equal, with
  other caches, features or levels. UEFI: a buffer of four characters and five to
  print. Sections: devices bare and with every tag, three items;
  texts of four lengths in words of four bytes and a following section, so that
  what is not cleared is seen.

**Deadlock** is not checked where the system may stop: startup ends in the kernel
or crashes (all startup modules), the GICs are at rest when no interrupt is left
(`gic_v2`, `gic_v3`), and a board that was reset stays so (`devices`).

**Fairness.** `SmpBoot`: weak fairness of CPU 0 and of each secondary core, which
run on processors of their own; none for the kernel, for PSCI or for `Evict`.
`GicV2`: weak fairness of a CPU that is inside a callout, and strong fairness of
taking an interrupt, since the kernel opens its interrupt window again and again;
devices raise finitely many interrupts (`MaxRaise`). `Fdt`: weak fairness of CPU 0
in `fdt_smp_spin_start` and of each parked core. `Watchdog`: time passes. `Console`:
weak fairness of the CPU in a callout and of the wire; none for a driver, which
may disable the UART for ever. `Msi`: weak fairness of the kernel, which serves
what the GIC signals, and of the latch. Nothing else needs fairness. In the joint runs each
of these is the fairness of the component at work.

## 4. Disagreements between code and documentation

Four runs show one each (`findings` in `PROJECT.json`). The following were met
while modelling and have no run of their own.

Start and memory:

* `lib/aarch64/cpu_syspage_memory.c:94` says that startup runs with the MMU
  disabled. `board/dk/main.c:145` enables it, and only `board_smp_start` turns it
  off again: with `-P1` the callouts are copied with the data cache on and nothing
  flushes them. With at least one secondary core the transfer runs uncached, which
  is proved (`TransferIsUncached`).
* `lib/ram.c:487` says of `reserve_ram` that the block is rounded up to the page
  size; the search is, the allocation at line 507 is not. `ram_manager` has such a
  request and shows that nothing else breaks.
* On the UEFI route the temporary system page is placed by `add_ram` before
  `do_raminfo` names what to avoid (`lib/init_raminfo_uefi.c:145`) and may lie in
  memory of runtime services; `FirmwareKept` has this exception. When the retries
  of the exit from boot services are used up startup goes on with them alive.
* `fdt_get_reg64_cells` returns all remaining entries, its description (line 47)
  says as many as asked for; `init_raminfo_fdt` has an array of eight.
  `fdt_get_reg_addr` passes no room for sizes and fails when the tree has them.
  `fdt_get_reg_addr` and `fdt_get_reg_int` return what it returns, at least 1, when
  they have taken the address from `reg`; "0 if successful, negative error code
  otherwise" (`fdt_get_reg_addr.c:39`, `fdt_get_reg_int.c:39`) holds only for an
  address taken from the node's name. Nothing in the repository calls them.
  `FirmwareRight` asks for what they store and that the result is no error.
* `lib/restore_ifs.c:259`: for an uncompressed image whose loader set no
  `imagefs_paddr` the data is taken from address 0, and `load_ifs` does not load
  the image anew. `MCHeaders` leaves that header out.
* The bootstraps' `alloc_ram` result is not looked at; `is_elf32` accepts any
  machine and `elf32_phdr` any class.
* `lib/aarch64/aarch64_map.c:133` says that the L2 table is mapped within itself;
  the entry holds the L1 table.

Interrupts:

* `lib/aarch64/gic_v2.c:211` "Get number of GIC SPIs" returns the number of all
  lines; `gic_v2_set_intr_trig_mode` adds 32 again and accepts 32 numbers beyond
  the last interrupt.
* GICv3: the command queue is not checked for room, and the ITS is polled 255
  times before an assertion; `gicr_base_for_cpu` (`gic_v3_its.c:733`) keeps 32 bits
  of an address; the memory-mapped callouts take a CPU's number for the index of
  its frame (`gic_v3.c:1918`); the comments at 1379 and 1807 do not say what the
  code does for the group of extended SPIs and the size of the pending table.
* MSI: code 6 of a second PCIe controller loses its offset, the ids of MSG1 are not
  told from those of port 0, and the comment says that bits are taken from the
  most to the least significant one. The first controller that is patched has to have the lowest
  address (`callout_interrupt_qoriq_lsx_msi_v1.S:72`).

Inputs:

* Device tree: the release address is written before `reg` is checked
  (`fdt_smp_spin_start.c:92`); an interrupt parent longer than a cell is accepted; a
  ring of parents never ends; `fdt_get_intr` refuses the number of cells that
  `fdt_get_intr_cells` allows; `fdt_psci_configure` sets the command before it
  knows the method; `lib/_main.c` aside, `board/dk/main.c:117` reports a failure of
  PSCI when it succeeded.
* Options: the count in `boot_args` is an `int8_t` that is not checked at 128
  (`bootstrap_cmdline.c:60`): with one more argument it is negative and the next
  `do_adjust` runs off the strings, which the lines of the run do not reach. A tree
  that `-u` finds gives the words for startup, up to the first `--`, to the next
  program (`fdt_tweak_cmdline.c:71`), which `ArgsRight` takes as it is; arguments beyond 19 are dropped silently
  (`_main.c:81`); a device tree address that was refused is remembered, so that a
  second `-u` is told it was processed; a crash message lacks its number
  (`hypervisor_setup.c:61`).
* Cores: `-F` is applied once the secondary cores have reset their flags; the
  secondary cores apply errata after they have left hypervisor mode.
* Strings and hwinfo: the serial number is never read, the provider is set twice,
  documentation of `hwibus_add_usb` and `hwibus_add_can` lists tags that are not added;
  `hwi_grow_tag` hides the offset it means to move.
* UEFI and ACPI: `is_uefi_boot` reads the table anew on each call; `add_acpi_table`
  before the first search goes through a null pointer; a second FADT shifts the
  list of tables; a message of a crash is lost while the console is suspended
  (`init_smp.c:67`). The length of a dump has eight bits.

Devices:

* Console: `-D` and `-K` have no effect on this board (`dk/main.c:94` before 99); the
  write of OVER8 is commented out (`stm32mp2_uart.c:296`), the prescaler's index is used
  before its bound is checked; the pl011 fraction can round to 64;
  `ksnprintf` writes one byte more than told; a UART behind memory is not
  programmed by the 8250 driver.
* Clock: the month of rtc72423 is not reduced to its digits (`hw_rtc_rtc72423.c:96`);
  mc146818 mistakes the century and the twelfth hour; leap years are wrong from 2100.
  `MCStarts` has no such dates where the chip would be wrong.
* `support/wdtkick/wdtkick.use:6` says that options can be stored in hwinfo;
  `main.c` reads the command line only. `support/wdtkick/main.c:250` calls the
  heartbeat interval 15 seconds; a message comes only when that is a multiple of
  the kick time.

## 5. Theorems

All proofs are checked by TLAPS to the last leaf. They hold for every value of
the constants that satisfies the named assumptions in the modules (at least one
CPU, at most eight GIC interfaces, PPIs below 32, sizes that are positive, a
timeout longer than the boot, the layouts `LayoutAssumption`, `SpaceAssumption` and
`ImagesAssumption` of image and address space, `MsiAssumption` on the registers and
ports of the MSI controllers), and what a theorem assumes besides is in its
statement: `Supported` for `RestoreIfs` and `Truthful` for `Fdt`, below.

* **SmpBootProofs.** `Invariance`: the inductive invariant is `TypeOK`, `BspInv`
  (where CPU 0 can be and what has then been done), `ApPlace` (how many cores are
  starting, waiting and parked for each place of CPU 0), `WordsInv` (what the
  shared words say about those places), `LspInv` (who is inside a growth of the
  page) and `WakeInv` (monitor and event of a sleeping core). None of the safety
  properties is inductive alone: that one core is on the stack follows from what
  `cpu_starting` can be at each place of CPU 0, so that the words must be tied to
  the program counters. From it follow `TypeCorrect`, `StackIsExclusive`,
  `GrowthIsSerial`, `CpuinfoIsRight`, `CopyIsUndisturbed`, `SpinIsAfterWrite`,
  `TransferIsUncached` and `WakeupIsNotLost`; `PageIsUndisturbed` joins three of
  them into the property that `smp_boot` checks. `CpuinfoRight` and
  `TransferUncached` are left to the proofs and not part of a run.
  `ReleasedExactlyOnce` counts cores: the addresses released are the cores in the
  kernel, those about to branch there and the one in `start_addr`. Its invariant
  `ReleaseInv` adds what an armed monitor says of the address a core has read, and
  that nothing is ever stored over an address.
* **GicV2Proofs.** `TypeOK`, `MapInv` (`gic_map` is the wiring), `SpiInv` and
  `SourceInv` (which source and which line a CPU can have read), `NoStuckActive`
  and `NoLostIpi`, which need each other's facts on what a CPU has acknowledged.
  `MaskedIsQuiet`, an action property, rests on `EnabledInv` (a line enabled at the
  controller is one the kernel has unmasked, for CPUs that are up) and `VectorInv`
  (the vector in hand is that of the interrupt read, on both paths of the id
  callouts). Results besides: `TypeCorrect`, `IpiIsNotLost`, `ActiveIsHandled`.
* **GicV3Proofs.** The invariant has six parts. `EntryInv`: each class of entries is
  in ascending order and within its range, which `EntriesAreDisjoint` needs and a
  new entry keeps. `CpuInv`: how far CPUs have been set up, and that each finds its
  own redistributor. `IpiInv`: the address in the system page reaches its CPU,
  whatever the order of the frames and with and without memory-mapped callouts;
  `NoLostIpi` is part of it. `LineInv`: an enabled line is one the kernel has
  unmasked. `QueueInv` (`RingInv`, `LockInv`): the slots between the read and the
  write pointer hold what was issued, the holder of the lock writes behind them and
  there is room, with the wrap of both pointers. `MapInv`: a collection is mapped or
  its MAPC is still to be read, and a changed configuration has an INVALL behind it.
  Results: `EntriesAreDisjoint`, `IpiIsNotLost`, `LpisAreRight`, and `MaskedIsQuiet`,
  an action property.
* **RamManagerProofs.** The loops of `ram.c` are folds over the lists. A fold is
  unfolded into the values of its accumulator (`FoldGraph`, `FoldSteps`), and what
  the accumulator has established after n entries is shown from n to n + 1 by the
  absence of a least counterexample (`Induct`). So each loop has a lemma that says
  what it does to sets of units: `AddMemDoes` (the range is added and the list stays
  ascending with gaps), `TakeOutDoes` (the block is gone and nothing else),
  `UsableDoes` (what `fix_size` leaves lies in the entry and meets no avoided range),
  `FindRamDoes` and `FindTopRamDoes` (what is found lies in the free list, is not
  avoided and has the size), `TakeOutAsDoes`, `ContainingDoes` and `SysramDoes` (the
  "sysram" entries). The inductive invariant is `Inv`: `Shape` (entries in range,
  lists ascending and within their room), `Accounts` (which unit is free, handed
  out, reserved or image), `BanksOnly` ("ram" entries are banks of the board) and the
  invariants of `RamPool`, with one lemma per action. `MemoryExact` alone is not
  inductive: that a new bank does not give free memory twice needs the "ram" entries
  to be banks, which do not overlap, and that a block found is nobody else's needs
  every block of workspace to be on the avoid list. Results: `ImplementsPool`, the
  refinement of `RamPool` by `RamManager!Spec`; `PoolIsExclusive`, that `RamPool`
  never gives memory to two owners; and from these two `MemoryIsExclusive`, the same
  of the RAM manager.

  The second half is about `RamInfo`, whose `InfoSpec` has the behaviours of
  `RamManager!Spec` as one route of five. First what the calls are: `OfTypeDoes` and
  `JoinedDoes` (descriptors picked and joined cover the memory of their types),
  `SortIs` (`efi_sort_map` changes the order only, whether or not the result is
  sorted), `NodesDo` (the ranges of the memory nodes). `Plan` says what every list of
  calls has: no memory is added twice or after an allocation, all of the source's RAM
  is added, all that the firmware keeps is allocated and, from other sources than
  UEFI, avoided before (`BoardPlan`, `TreePlan`, `UefiPlan`, `EfiPlan`). Then the
  calls themselves: `FirmwareKept` says nothing before the last call, so the
  invariant is `Progress`, which relates the calls still to be made to the lists: what
  is added and what is still to be added are the source's RAM, what is free of the
  firmware's memory is still to be allocated, what it uses is avoided or still to be.
  Behind the calls nothing is left of them, and `Spared` says that no block meets the
  firmware's memory. `ServInv` is the invariant of the boot services: who has
  announced himself, and where startup can be while they are alive. Results:
  `MemoryIsExact`, `FirmwareIsKept`, `BootServicesAreLeft` and `PoolIsKept`, all four
  properties of the run, for any device trees and maps. `TreesAssumption` and
  `MapsAssumption` are what such data must satisfy: ranges of memory nodes and
  descriptors of a map do not overlap (overlapping ones would be added twice), and a
  node's `reg` has the cells its ranges need, at most `REG_CHUNK` ranges (the
  code has no room for more).
* **SysPageProofs.** `LInv` (layout), `MInv` (contents), `OInv` (owners of patch
  data), `WInv` (what has been written) and `NInv` (phases). Results:
  `TypeCorrect`, `LayoutIsRight`, `FixedSectionsStay` (an action property) and
  `ImplementsStore`: each step of the page with its moving sections is a step of
  `SectionStore` or leaves it alone. `CalloutsAreRight` has two invariants more.
  `HookInv`: every callout on the page is in a slot of a routine in the output
  chain, so that the passes miss none. `PassInv` counts bytes: in the sizing pass
  what has been added up and what is still to be visited are at least the bytes of
  all callouts, in the writing pass what is written and what is to be visited are at
  most what was measured. The code of a callout is a set of bytes, so that the
  counts are cardinalities and slots that two routines share are counted once.
* **RestoreIfsProofs.** `PlaceInv`: every boot takes memory in the same order, so that
  the information is at the same address in each. `ImageInv`: what the image holds
  at each place of a boot. `InfoInv`: the information is invalid from the first store
  of startup to the last, and its entries name memory nobody else is given.
  `WholeInv`: information that would be accepted describes the image. `CleanInv`: it
  is accepted after a completed boot. `Ifs2Inv`: the same for the second image.
  Neither property is inductive: both relate this boot's RAM to what the next boot's
  checks will say of it. Results: `ImagesAreIntact`, `SavedIsRight`. Both assume
  `Supported`, which names limits of the code: an image that is not compressed lies
  where its header says, an executable has one writable segment (only the first is
  saved), a second image whose place the user gives is copied in every boot (its
  place is not reserved on the restoring path, see section 4), and that place is not
  the one of the information.
* **BootInputsProofs** has a part for each of the models that `BootInputs` joins.

  *Tables* (`IInv`). `TablesRight` says what a walk finds and nothing of the frames
  that the tables are in, so it is not inductive: a store into one table could show
  at addresses of another one. `TreeInv` has it that the tables form two trees, one
  per half: every table is in a frame that is in use and no two are in the same one,
  except for the recursive entries. A store through one entry
  is then seen by the pages below it and by no other. `MappedInv` follows the walk
  for every page, with the groups marked contiguous; `LoopInv` has how
  far the call in progress has come, and `AskedInv` what calls before it were for.
  The address arithmetic is that of quotients and remainders (`Address`,
  `PageNumber`, `IdxNext`), for both page sizes and any number of entries.

  *Areas* (`AreaInv`). `MapGroup` keeps `IInv` only if the page it maps is free, which
  the code never looks at. `Taken` is what has been asked for so far: startup's
  pages, the automatic ones below `free_vaddr`, the segments `load_elf64mmu` has
  dealt with, the last one perhaps in part. `PendingInv` and `CurrentInv` say that
  the calls to come and the one in progress ask for pages that are taken and not
  mapped; `CountInv` that `free_vaddr` and all that will still be taken from it stay
  within the automatic pages. That is a count over the callouts that have not asked
  yet, so that it is the cardinality of a set of pages.

  *Loading through the tables* (`ElfInv`). `LoadedInv` has for each unit of a segment
  dealt with where it is and that its page shows it, or will when the pending call is
  done; `SourceInv` that the image still has what is to come, `RangeInv` the range the
  kernel is told.

  *Loading one to one* (`BInv`). `DirInv` and `HeadersInv` have the place in the
  directory and the header at hand, `ChainInv` the entry points found so far,
  `PlacedInv` where each finished segment lies, and `StoredInv` that what is still to
  be moved has not been overwritten by what was: the segments are placed in
  the order of the directory, over parts of the image that are done with.

  *Interrupts of a device tree* (`Cached`). What is cached is the parent that its
  phandle and tree lead to, with its number of cells. Two searches from one node, with
  the cache and without it, are then at the same place after every round (`Alike`); a
  search is a fold, unfolded into its rounds by `IntrLoop`. `TreesAssumption`: no two trees
  have the same address. A board has one tree, whose address does not change.

  *Spin-table start* (`SpinInv`): the shim's words, in memory and in lines not yet
  cleaned, hold a core's number only when the start routine is in memory, and a core
  that has left has had its turn. These results assume `Truthful`: the cores of a tree
  have numbers of their own and none but the first has number zero.

  Results: `AreasStayApart`, `TablesAreRight`, `ElfIsLoaded`, `BootstrapsAreRight`,
  and from them `LoadedIsRight`; `IntrIsRight`; `OneIsReleasedAtATime` and `AllRunWhenDone`, the
  safety half of `EachStarts`.
* **DevicesProofs.** Watchdog: `ResetForCause` says nothing of the time that is left;
  `Margin` does: as long as there is no cause, what is left exceeds what the
  program may still take before the next kick. Results: `TypeCorrect`,
  `OnlyForCause`, and `StaysStopped`, which no run checks. MSI: a message is in one of
  several places, the status register, the bits the callout keeps between two calls,
  or its local word while it looks for the next one. `WordInv` and
  `QoriqInv` say which of them at each place of the id callout, `SlotInv` that each
  controller was patched with a slot of its own, `MsiInv` that a vector is cleared only
  when it is reported, and `PcieInv` that what the registers and the cascade hold was
  raised. Result: `MessagesAreRight`.

  *Address space section* (`InfoInv`). `AsInfoRight` does not say how entries lie in
  each other, which is what `as_add_containing` depends on. `Nested` does: a later
  entry lies in an earlier one or beside it, so that the last entry with an address is
  its innermost one. `PiecesOk` is the invariant of the loop over the containers: the
  list has each address that the containers so far have, once, under the innermost of
  them; `Serves` is what becomes of the list. `Nested` holds only until
  `add_sysram`, because `alloc_ram` moves the ends of entries; `SysramOk` takes over:
  the entries for the kernel are what is free, each in its RAM, and nothing is below
  them (`CutSo` follows the loop of `alloc_ram`). `ExactIn` remembers the request just
  served until the next one. The assumption is that ranges are not empty and end where
  memory does. Result:
  `SectionIsRight`.

  *Console* (`ConInv`). `LineRight` does not say what the writer relies on between its
  last poll and its write. `OutInv` does: as long as no driver stops the UART it is
  enabled, and a transmitter that was ready stays so until the character is written,
  because only the writer fills it. `InInv` has each key in one of three places, the
  keyboard, the UART's receiver or the kernel, in order. The assumption is that a
  board's devices are of the seven kinds. What the theorem leaves out is in the
  property: an stm32mp2 does not wait for the character the loader left, a `linflexd`
  callout writes into a full transmitter when it gives up, and a UART that its driver
  has disabled sends nothing. Result: `NothingIsLost`.

**Only model-checked:** liveness (`BootEnds`, `ShutdownReachesAll`, `IpiHandled`,
`EachStarts`, `UnattendedIsReset`, `CalloutReturns`, `Served`; TLAPS has no
fairness); `ConversionsRight` (option lines to fields and divisors, calendars, timer
arithmetic); `LinesRight`, `FirmwareRight` and `SectionsRight`, whose code is
loops over lists and strings; `CoresRight`, in a module with a RECURSIVE operator.
The induction theorems of the library take an operator as a parameter,
which the installed provers cannot instantiate: a proof about a loop has to go by way
of sets, as in `RamManagerProofs`.

## 6. Not modelled

* Identification of a GICv3 implementation and the direct LPI callouts that are
  never installed; the third port (MSG1) of the T18x MSI controllers.
* `watch_add_ram` (no caller registers a watcher); the memory map that a BIOS leaves.
* `load_elf32mmu()`, the same code as its 64-bit twin for files this machine does
  not run; the decompressors, which are library code;
  images with two writable segments per executable in `RestoreIfs`, of which the
  code saves only the first.
* `hwi_grow_tag`, which has no caller. Names of cores, a table.
* The boot loader's own spin page (`spin_smp.c`), which this board's firmware does
  not use.
* Word length, parity, flow control and FIFO thresholds of the UARTs; `timer_ns2tick`
  and the registers of the timer.
* Cache maintenance by set and way, register values of the MMU and of the
  hypervisor: straight-line register code.
* `print_sysp` (formats), entry and exception code, register headers, deployment
  (a host script, partition tables, prebuilt firmware).

## 7. Plan

Done: all parts of the inventory but those of section 6; theorems for SMP start, both
interrupt controllers, the MSI controllers, the RAM manager with its sources of RAM,
the exit from boot services, the system page with its callouts, the restore of the
image, the page tables with all that is mapped, both ways of loading executables, the
search for the interrupt parent, the spin-table start, the address space section, the
console's line and the watchdog.

Next theorem: the part of `SectionsRight` about the tags of `HwInfo`, whose walk is a
fold.
