# AlJefra OS: TLA+ specifications, model checking and proofs

This directory holds TLA+ specifications of the AlJefra OS kernel, TLC
configurations that check them on small instances, and TLAPS proofs of the
properties that matter most. Every definition is translated from the C source;
`PROJECT.json` maps each one to its lines.

## 1. The system and what is modelled

AlJefra OS is a single-image kernel for x86-64, AArch64 and RISC-V. One thread
runs the boot, then the shell. Concurrency comes from devices that work on their
own, from the network, from power loss, and from several cores that may call the
scheduler. `kernel_main` (`kernel/main.c:73`) starts the log, loads the built-in
drivers, mounts the file system, brings up the network, downloads missing drivers
from the marketplace and enters the shell.

| Part | Source | Module | Status |
|---|---|---|---|
| BMFS file system | `kernel/fs.c` | `BMFSDir`, `BMFS`; abstract `FileStore` | modelled, proved |
| TCP client | `net/tcp.c` | `TCP` | modelled |
| DHCP client and its two callers | `net/dhcp.c`, `kernel/dhcp.c`, `kernel/ai_bootstrap.c` | `DHCP` | modelled |
| Kernel log | `kernel/klog.c` | `KLog` | modelled |
| Panic | `kernel/panic.c` | `Panic` | modelled |
| DMA memory | `arch/*/io.c` | `DMA` | modelled, proved |
| virtio block driver and device | `drivers/storage/virtio_blk.c` | `VirtioBlk` (extends `DMA`) | modelled |
| OTA update | `kernel/ota.c` | `OTA` | modelled |
| Scheduler | `kernel/sched.c` | `Sched` | modelled, partly proved |
| Driver loader | `kernel/driver_loader.c` | `DriverLoader` (extends `DMA`) | modelled |
| Boot, AI bootstrap, marketplace download | `kernel/main.c`, `kernel/ai_bootstrap.c`, `ai/marketplace.c` | `Boot` (extends `DriverLoader`) | modelled / partly |
| Storage, network, USB, Wi-Fi and input drivers; MMU; locks; DNS, TLS; shell, chat, GUI; server; assembly kernel; user-space stack | see `PROJECT.json` | none | section 7 |

`VirtioBlk` and `Boot` are compositions: both take their memory from `DMA`, and
`Boot` puts the driver table, the network choice and the downloads together.
`MC*` modules only give constants their values. Modules without constants to
define are instantiated by their `.cfg` alone.

## 2. How the modules correspond to the code

**BMFS.** `dir` is `g_dir`, `disk` the directory on the device, `fds` the
descriptor table. One action per public call (`fs_init`, `fs_open`, `fs_close`,
`fs_write`, `fs_create`, `fs_delete`, `fs_sync`) and `Crash`. Each call that
flushes has a parameter that says how the flush ends: all sectors written, an
error after some of them, or a crash after some of them. File bytes are
abstracted to the blocks a call touches. `promised` is history: names whose
creation was reported as successful and not undone. `torn` records that a flush
was cut short while the disk was already behind memory; from then on the disk is a
mixture of three directories and no property is claimed. `FileStore` is the
abstract store: a set of named files, each with an extent of its own, in memory
and on the device. A call changes one file, and the device moves to the new set in
one step or not at all.

**TCP.** `tcp_connect`, `tcp_send`, `tcp_recv`, `tcp_close` poll the card; each
wait may end in a matching frame or a timeout at any moment. `c2s` and `s2c` are
the frames in flight. The server is environment. A byte is a connection and a
position, so a byte delivered in the wrong place or connection shows.

**DHCP.** `dhcp_discover` with its two waits, the retries of `dhcp_init`, and
`ai_bootstrap`'s own exchange. Frames carry a transaction number; they may be
lost, repeated, late, refused, and come from more than one server.

**KLog, Panic.** An entry is the number of the call that made it. A flush writes a
header and then one entry per step, and may be cut anywhere. `Panic` starts from
any frame chain a fault may leave: a cycle, null, a misaligned pointer.

**DMA, VirtioBlk.** `DMA` is the bump allocator of the three ports; `Reclaims`
separates x86-64, which never takes memory back, from the others, which take the
last block back. `VirtioBlk` has the descriptor table, both rings with wrapping
indices, the free list, the pages of a request, and a device that fetches,
carries out and completes chains on its own.

**OTA.** `ota_check`, `ota_download`, `ota_verify`, `ota_apply` and `ota_run`, in
any order. The staging buffer and the disk hold sectors of named versions, so
mixtures of two versions show. Power may fail between any two writes.

**Sched.** The task table and `g_current_task`, used from several cores.
`sched_block` is two steps because the code drops the lock in between.

**DriverLoader, Boot.** `g_loaded` is the driver table. Loading a package takes a
block for its code, may let the driver take memory of its own, and gives the code
back on failure. `Boot` walks through `load_builtin_drivers` (one step a device),
the storage test, `init_platform_services`, `start_network` (one step a driver
that is tried) and `ai_bootstrap` (one step a network operation). A device is
named by its kind. A kind stands for all devices the code treats alike; UFS and
Broadcom Wi-Fi are loaded as the storage and network drivers modelled. The DMA
memory of built-in drivers is taken before and does not move, so the region is
counted from behind it. A driver whose `init` fails has given back what it took.

## 3. Runs

Bounds are the constants of the `.cfg`. States are distinct states.

| Run | Bounds | States | Shows |
|---|---|---|---|
| `bmfs` | 2 names, 3 slots in 2 sectors, reserves 1 and 2 blocks | 75,602 | extents disjoint, descriptors coherent, created files survive, writes stay in their file, refinement of `FileStore` |
| `bmfs_full` | 2 names, 2 slots | violation | a full directory loses a file, section 6 |
| `tcp` | 2 connections, 3-byte request, 4-byte response, segments of 2, one fault | 128,637 | stream intact and acknowledged as delivered until a fault; no cross-talk, nothing unsent acknowledged and every call returns, with faults |
| `dhcp` | 0 to 2 servers, 2 attempts, 2 calls, 1 fault, 1 expiry | 179,741 | the address was committed by the server asked; a fault does not defeat the retries; calls return |
| `klog` | ring of 4, 7 entries, 2 boots, 1 failing write | 11,851 | dump is the latest entries, flushed entries can be replayed, a replay shows only genuine entries |
| `panic` | 2 frames, every chain, 2 panics, 2 boots | 167,625 | faithful and bounded trace, first report stands, panic ends |
| `virtio_blk` | queue of 8, indices modulo 8, 9 requests, 17 pages, 1 late answer, 1 device error | 210,599 | `HAL_OK` means done, calls return, descriptors and buffers exclusive until a deadline passes |
| `virtio_blk_reclaim` | a port that reclaims, 4 requests, 2 late answers | violation | section 6 |
| `ota` | 3 packages of 1 to 3 sectors, one unsigned, 4 calls, 1 fault or power loss | 93,276 | only signed packages are applied, clear flag means whole kernel, `ota_run` installs what was announced, calls return |
| `sched` | 4 tasks, 2 cores | 420 | only the current task runs, round robin, every ready task runs |
| `sched_block` | 3 tasks, 1 core | violation | section 6 |
| `boot` | 4 machines, table of 5, region of 9 pages, packages of 4 and 5 units | 319,224 | memory of loaded drivers kept and disjoint, only whole signed packages run with a key, active network and storage driver stay, all networks tried in rank order, ends clean, reaches the shell |

Why the bounds are enough. Three slots in two sectors allow a flush cut between
sectors and one slot that stays free. Two connections are what cross-talk needs,
and a two-segment response what gaps, repeats and reordering need. The log ring
wraps and crosses its flush threshold within 7 entries. Nine requests on a queue
of eight wrap indices and free list and use up the DMA region. A table of five is
filled by one of the machines and not by the others; nine pages run out in the
middle of a boot. A package of 5 units is above `MaxSize`, one of 4 below, and
with pages of 2 units a shortened download ends in another page than a whole one.

`bmfs` and `bmfs_full` have the constraint `NotTorn`: exploration stops at torn
directories, of which every property says nothing. `bmfs` uses symmetry in the
file names, which only safety properties are checked under, and a view that
leaves out `written`: no action reads it, and the action property on it is
evaluated on every transition, also between states the view takes for equal.
Type invariants are stated where a proof needs them or a buffer is bounded by them
(`BMFS`, `Sched`,
`DMA`, `OTA`). Deadlock is checked except in `klog`, `panic` and `tcp`, where the
machine may stop for good: the bounded boots, calls or ports are used up, or the
panic has halted it. The other bounded modules say so with a `Finished` or
`Shell` step that stutters.

## 4. Fairness

- `TCP`, `DHCP`, `OTA`, `Boot`: weak fairness of the client's own steps, timeouts
  among them. The calls are polling loops with deadlines (`tcp.c:461`,
  `dhcp.c:264`), so they run on and time out whatever the peer does. `TCP` and
  `DHCP` add that frames in flight arrive and servers answer; only
  `RequestArrives` depends on it, and says so with `[](faults = 0)`. In `Boot`
  the arrival of bytes is not fair: `BootEnds` holds with a silent server.
- `VirtioBlk`: the driver's loop, and the device.
- `Panic`: `kernel_panic` goes through its steps.
- `Sched`: the kernel loop calls `sched_tick` for ever (`syscall.c:107`), and a
  core inside `sched_block` reaches its `sched_yield`.
- `BMFS`, `DMA` and `KLog` have only safety properties and no fairness.

## 5. Proofs

All theorems hold for every value of the constants within the named assumptions.

`BMFSProofs` proves `TypeCorrect`, and, when clients use fewer names than there are
slots (`NamesFit`), `ExtentsStayDisjoint`, `NamesStayUnique`,
`DescriptorsStayCoherent`, `CreatedFilesSurvive`, `SizesStayWithinReserve`,
`WritesConfined` and `DescriptorsSuffice`. `NamesUnique`, `SizeWithinReserve` and
`DescriptorAvailable` are proved only; the other properties are checked too. The
assumption is the one the code needs: `bmfs_full` shows that a full directory
breaks it. The inductive invariant `SafeInv` strengthens the properties in two ways. It speaks of all live entries,
not only the ones in front of the first end marker, since a hidden entry could
come back; and it gives the directory a shape, in which the last slot is an end
marker and everything behind an end marker is one. Creating a file keeps the
shape because, by the pigeonhole principle, a slot before the last is free
(`SlotBeforeLast`). `AllocationFits` shows that first fit returns an unused extent.
`FlushAtomic` shows that a flush that writes some of the sectors leaves the old
directory or the new one, because a call changes one entry and entries do not
straddle sectors.

`BMFSRefines` proves that `BMFS` implements `FileStore` under the same
assumption: each action is a step of the store or leaves it alone.

`DMAProofs` proves `BlocksStayDisjoint`, with one lemma for allocation and one for
release. The invariant is inductive together with the type invariant: a release
moves the pointer back only over the last block, so no block reaches past it.
The theorem is about `DMA` alone. `Boot` releases a download by a size that may
be smaller than what it took; that this is harmless is checked by the `boot` run.

`SchedProofs` proves `OnlyCurrentEverRuns` for any number of tasks and cores.

Only model-checked: all liveness properties, and the properties of `TCP`, `DHCP`,
`KLog`, `Panic`, `VirtioBlk`, `OTA` and `Boot`. The prover handles neither fairness
nor induction over data.

## 6. Disagreements met

Three runs show the code doing something else than its own text says.

- `bmfs_full`: `fs.c:619` writes an end marker behind a reused slot; the comment at
  `fs.c:609` says the existing marker is still further down. After the directory
  has been full there is none, and the file behind the slot is lost.
- `virtio_blk_reclaim`: `virtio_blk.c:306` frees the status page of a request that
  timed out while the device still owns it. Where the port takes pages back, the
  late status lands in the next request's header, and `HAL_OK` is returned for a
  write that did not happen.
- `sched_block`: `sched_yield` marks the task `sched_block` has just blocked as
  ready (`sched.c:85`); `sched.h:42` says it blocks.

The following were met while reading and modelling. The properties are stated so
as not to claim them, and no run is spent on them.

- `net/tcp.c:509` acknowledges a segment that did not fit into the caller's buffer
  (`doc/network-stack.md:112`); `tcp.c:443` sends data once, without
  retransmission (`doc/network-stack.md:136`).
- `kernel/main.c:76` starts the log before the file system is mounted, so the
  replay `klog.c:11` announces finds nothing. `panic.c:332` does not flush the log
  (`doc/security_model.md:265`).
- `virtio_blk.c:291` decides on a timeout without a last look at the used index;
  `:127` and `:170` end the free list differently; each request takes two pages
  x86-64 never takes back (`virtio_blk.c:232`, `arch/x86_64/io.c:117`).
- `ota.c:583` overwrites the only kernel, so power loss leaves a mixture that the
  flag reports and nothing restores (`doc/security_model.md:340`); the LBA assumes
  4096-byte sectors; the flag and image lie where `fs.c:74` puts the directory.
- `sched.c:61` places stacks by their own size only, inside the DMA region of
  `arch/x86_64/io.c:62` for large ones.
- DHCP: retries differ from `doc/network-stack.md:194`; nothing renews a lease
  (`kernel/dhcp.c:172`); a second server's OFFER before the ACK fails the attempt
  (`net/dhcp.c:356`); `ai_bootstrap.c:293` replaces a lease by a static address.
- `main.c:597` takes `fs_create`'s result for a descriptor, so the network choice
  of `CHANGELOG.md:57` is never written; the boot diagnostics likewise.
- `device_has_driver` goes by category only (`ai_bootstrap.c:193`), and two devices
  with the same ids share one target (`:376`). With the table full a load succeeds
  without an entry (`driver_loader.c:52`, `:171`). More than half of a download is
  taken for all of it (`marketplace.c:590`); only the signature check notices.

## 7. Not modelled, and what is planned

In the order of the plan:

1. The reader-writer lock, mutex and work table of `aljefra/src/syscalls/smp.asm`
   and `hal_spin_lock` of the three ports, instruction by instruction, with a
   proof of mutual exclusion; `Sched` over that lock instead of an atomic one.
2. The descriptor rings of the network cards and the queues of NVMe and AHCI, with
   their devices, on top of `DMA`; the xHCI rings with cycle bits and USB Ethernet.
3. The Wi-Fi connection and the WPA2 handshake with lost and repeated frames.
4. The page tables and page allocator with the protection pass of `memprotect.c`.
5. The key ring of `keyboard.c`, DNS, the user-space TCP of `programs/netstack`,
   and the marketplace server under concurrent requests.
6. Composition: the log and the panic on top of `FileStore` instead of a file of
   their own. Proofs for `KLog`, `DriverLoader` and the TCP safety properties.

Left out for good: drawing, fonts, text and command parsing (no protocol state);
cipher and signature arithmetic, SHA-512, the vendored BearSSL (out of reach of
model checking, used through their result); tables read once at boot; the
evolution and GPU experiments, whose results promise nothing to check; build and
release scripts.
