# A TLA+ model of the OS2 (pakOS) kernel

OS2 is a small 32-bit x86 kernel: it boots through multiboot, sets up paging,
a frame allocator, a heap, descriptor tables and the interrupt controller,
scans the PCI bus, loads a driver for Intel 8254x network cards, sends three ARP
requests and stops.  It is single threaded; the concurrency is with hardware: the network
card's DMA and EEPROM, the processor's translation cache, interrupts, exceptions and NMIs,
and the serial port.  Its difficulty is in allocators
whose tables have to stay consistent over any order of calls, in conversions
between units (bytes, pages, descriptors), in failures nobody looks at, and in a
ring shared with a device.

## Inventory

| part | state | operations | interacts with |
|---|---|---|---|
| frame allocator, `kernel/mm/phy-mm.c` | stack of frame addresses and its pointer, in-use bitmap | `init_phymm`, `hwpalloc(n)`, `hwpfree(a, n)` | called by paging |
| paging, `kernel/mm/virt-mm.c` | page directory, page tables, head of the driver space | `mapfr`, `umapfr`, `mmap`, `munmap`, `maphwdev`, `_lpa` | frame allocator; heap, drivers; the TLB |
| heap, `kernel/mm/kmalloc.c` | doubly linked list of block headers, heap size | `kmalloc`, `kcalloc`, `krealloc`, `kfree`, `init_kmalloc` | grows through `mmap`; used by everybody |
| PCI, `kernel/pci-bus/pci.c` | device list, `netcard1` | `init_pci`, `load_pci_drivers` | configuration space; drivers; heap |
| network driver, `driver/eth/intel_8254x.c` | descriptor ring, tail, register base | `load_driver_eth_intel_8254x`, `add_tx_buffer` | card (registers, DMA), `_lpa`, `maphwdev` |
| packets, `kernel/net/netdev.c` | none | `netd_send_ipv4_arp_packet` | driver |
| console, `kernel/vga/vga.c` | screen, cursor | `vga_putchar`, `vga_print`, `vga_clear`, scrolling | serial port; `memmove`, hence heap |
| C library, `klibc/` | none | `strlen`, `memcpy`, `memset`, `memmove`, `itoa`, `printk` | heap, console |
| interrupts, `kernel/irq/` | IDT, the two 8259s | `init_idt`, `idt_mapint`, `idt_maptrap`, `init_pic`, `pic_yesirq`, `pic_noirq`, traps | heap, console; the processor |
| segments, `kernel/mm/gdt.c` | GDT | `init_gdt` | heap |
| serial port, `kernel/debug/serial.c` | the UART | `init_serial`, `serial_putchar` | console |
| boot code, `kernel/asm/boot.s` | first page tables, copy of the memory map | `_start` | boot loader, frame allocator |
| start, `kernel/kernel.c` | none | `kernel_init`, `_kguard`, `kpanic` | all of them |

What makes each part correct:

* frame allocator: a frame has one owner; the bitmap says who owns what; grants lie
  in the region;
* paging: two pages never share a frame by accident; what a table reaches is
  in use; a mapped region is contiguous in physical memory; the TLB agrees with the
  tables; frames are freed once and only when granted;
* heap: allocations are disjoint and as large as asked for; the list is sorted and
  consistent in both directions; free neighbours are merged; nothing is lost;
* PCI: each function that answers is found once; the list does not overflow; the
  card that is used is the card that was loaded;
* driver: packets leave once, whole and in order, and all of them; a descriptor is
  not written while the card works on it;
* console and serial port: the cursor stays on the screen, the screen shows the end of the
  log, and the line carries all of it;
* boot: code stays mapped while paging is turned on; the frames handed to the allocator are
  spare memory; its tables do not overlap;
* C library: numbers are printed right; what it writes past its allocations harms nobody;
  waiting costs no memory;
* interrupts: no device is taken for an exception; only lines asked for are open; every
  exception finds its handler; a panic is final.

`PROJECT.json` lists the places in the source where these are at risk
("hazards"), each with the properties that cover it or a note why none does.

## Modules

| module | models | notes |
|---|---|---|
| `PhyMM` | `phy-mm.c` | `hwpalloc`, `hwpfree` as operators on the allocator's record; callers as `Clients` |
| `MCPhyMM` | | the two loops of `hwpalloc` as the source writes them, compared with the sets of `PhyMM` |
| `AllocContract` | `kmalloc.h` | what the malloc family promises; no blocks, no list |
| `KMalloc` | `kmalloc.c` | implements `AllocContract` |
| `MCKMalloc` | | the walk of `__find_free_block`, and the bound on lost bytes |
| `VirtMM` | `virt-mm.c`, `_lpa` | composes with `PhyMM` (`Phy == INSTANCE PhyMM`) and refines its specification |
| `E1000` | `intel_8254x.c`, `netdev.c` | driver, card and EEPROM as processes |
| `Serial` | `serial.c` | the UART as a record, no variables of its own |
| `Vga` | `vga.c` | extends `Serial`: every character goes to both |
| `Boot` | `boot.s`, `init_phymm`, `linker.ld` | ends where `PhyMM` starts |
| `Klibc` | `kstdlib.c`, `kstdio.c`, `memmove`, `get_mac_addr` | extends `KMalloc`: the library's calls on the real allocator |
| `Irq` | `gdt.c`, `idt.c`, `cpu_traps.c`, `pic.c`, `kernel.c` | the kernel's thread and what cuts into it |
| `Pci` | `pci.c`, tail of `kernel_init` | |
| `MCKlibc` | `kstdlib.c`, `get_mac_addr` | the text of numbers, for which it needs recursion, and the bounds |
| other `MC*` | | the modules TLC is run on |
| `PhyMMProofs`, `E1000Proofs`, `VirtMMProofs`, `PciProofs`, `BootProofs`, `VgaProofs`, `IrqProofs` | | the theorems about each module |
| `KMallocProofs` | | the theorems about `KMalloc` and `Klibc`: lists of blocks, the callers, the library |

A C function that other functions call is an operator on a record of the
globals it changes and returns the set of its outcomes (or its outcome), so that
`krealloc` composes `kmalloc` and `kfree`, and `mapfr` composes `hwpalloc`, as in the
source.  Operations that a caller can start are actions.  The loops of `mmap`,
`munmap`, `maphwdev`, of the PCI scan and the stages of `add_tx_buffer` are taken
one iteration or stage at a time: the processor's TLB and the card act in between.
"The first that" is written as a set with one member (`{b \in S : \A c \in S : b <= c}`)
instead of a recursive walk, which keeps the modules provable; `LoopsAgree` and
`WalkAgrees` check these sets against the loops.

Definitions whose comment starts with "Fault:" are deliberately wrong variants of
the definition that follows them.  `PROJECT.json` ("mutants") says which property
each of them breaks: it documents what the property would catch.

### State and actions against the code

*PhyMM.*  Frame `f` is address `_hwa_mmstart + 4096 * f`; `pm.sp` is
`_hwas_sp - _hwas_bp`; `pm.stack` is `_hwas_bp[]`; `pm.inuse` is the set of bits
that are set, including bits past the region, which `hwpalloc(n)` can set.
`pm.mode = "wild"` records that a word outside the stack was used as a frame address:
what follows is undefined, and the model stops.  `Alloc`/`Free` are calls by an owner,
`StrayFree` a call on a free or foreign address.

*KMalloc.*  `heap.hdr` maps the address of each header on the list to its fields, so
addresses, sizes and pointers are real numbers of bytes and the 20 byte header, the
rounding to 16 and 4096 and the 256 byte split threshold are the code's.  Sums wrap at
`Word`.  `magic` is left out: callers free pointers they own.  `live` maps the
callers' pointers to the length they asked for.

*VirtMM.*  A page directory or table entry is the set of physical pages it names:
empty when not present.  A table is created from an uncleared frame, so each of
its entries starts as nothing or names one of `StalePages`, which may be any pages, frames that
are in use among them.  `NewTable` and `MapStep` are the two halves of `mapfr`; `call` is the
activation record of the function that is running; `tlb` is what the processor has cached, of
any present entry and at any time, between the two halves too.  `invlpg` is given the address of
the table entry, so no cached translation of a heap page changes: that is why no action
touches `tlb` but `Access` and `Evict`.  `FramesOwned` speaks of the pages that were handed out and
of what the tables say of them; what a stale cached entry leads to besides is `TlbFlushed` below.
Page counts are cut to 16 bits where `hwpalloc` and `hwpfree` take them.  `KernelNext` is what the kernel does today
(the heap grows upward, drivers map devices), `Next` anything `virt-mm.h` offers.
Physical page 0 as a page table (`hwpalloc` failed) sets `lost` and stops the model.

*E1000.*  `ReadBar` to `MacDone` are the stages of `load_driver_eth_intel_8254x`: `todo` lists
the EEPROM words or ring registers that come next, and `EepromAnswer` (external) is the
EEPROM.  Nothing resets the card, so `Firmware` says how its transmit unit may have
been left: TDLEN, TDH, TDT, and the enable bit, which `load_driver_eth_intel_8254x` only adds to.  Ring and
packets are blocks of the heap and lie at `RingOffset` and `BufferOffsets` in their pages.  The
card is given what `_lpa` makes of them, which keeps ten bits of the offset (`LpaOffset`): TDBAL
is the ring, and a descriptor's buffer the packet, only below 1024; otherwise the card finds
`Foreign` memory or sends something that is no packet (`Astray`).  Offsets above occur: the
descriptor tables that the heap holds before the ring take 2 KB alone.  `Send` starts a call of `add_tx_buffer`, `Waited`, `FillBuffer`,
`FillCommand` and `Kick` are its stages; `Fetch` and `Complete` are the card (external
to the repository: modelled from the way the driver uses it and its registers).  The
kernel sends whole packets only, one descriptor each.

*Vga, Serial.*  The screen and cursor of `vga.c`.  `log` is a history variable, every line
printed since the screen was cleared.  `uart` is the serial port with the registers that
`init_serial` writes; a character that finds its FIFO full is lost, and `UartSends`
(external) empties it at its own pace.  `owed` is the history of what the line still has to
carry.  A port that fails its test stays in loopback, where it accepts everything, or never empties
(`STUCK`), and then nothing more is printed: the wait of `serial_putchar` has no bound.  The screen
starts as firmware left it (`BootScreens`) and is cleared right after `init_serial`, by `kernel_init`
or, when it failed, by `_kguard`.

*Boot.*  Addresses are in kilobytes, offsets in the page of tables in bytes.  `Init` chooses the
end of the kernel image, the flags, the memory map (disjoint regions, one of which holds
the kernel, as multiboot promises when the flag is set) and the memory behind it.  The actions
are the stages of `_start`; `cpu.page` is the page instructions come from.  `UseRegion` and
`NextEntry` are the two ways through the body of `init_phymm`'s loop.  Conversions are kept:
`base_addr` is cut to 32 bits, the length is subtracted in 64 and divided into 32.  The entries
of a map are 24 bytes long, the `entry_size` of 20 that a multiboot loader writes for these fields and
the field itself; the walk adds what the field says, which is the same for every entry.

*Klibc.*  The library's functions on the heap map the heap of `KMalloc` to the heaps they may
leave.  `call` is the library call that runs, with what it has allocated so far: `Printk`,
`PrintNumber`, `Scroll` and `PrintkEnds` are the buffer, the body of the format's loop, a scroll
while `vga_print` shows the text, and the end; `GetMac`, `MacByte` and `MacEnds` likewise for
`get_mac_addr`.  A `printk` may print any number of numbers and scroll any number of times.
`Overrun` is a write just past an allocation: when the block fills its space that is the low byte of the
next header's `free` field, and what is written there is never `_MBLKFREE`, so the next block
is in use from then on.  Contents are modelled only for the digits of numbers, in `MCKlibc`.

*Irq.*  `stack` is the stack of contexts, each with what it runs and its interrupt flag; the
actions of `kernel_init` are taken when the bottom context runs.  Descriptors, gates, masks and
addresses are sets of bits; where the handlers are linked, `IsrAddr`, is a constant.  The 8259s take the twelve writes of `init_pic` one by one.  Vectors
nobody registered lead anywhere, or to the not-present exception.  `idt_mapint`, `pic_yesirq`,
`pic_noirq` are called as the keyboard's lines in `kernel_init`, which are commented out, show:
handler first, then the line.  The handlers of a page fault and of a key print before
they stop (`print`, then `Kbreak`), and may be cut into or fault while they do.  Which lines
`pic_noirqs` leaves open (`LeftOpen`) follows from the two masks it writes.

*Pci.*  `cfg` is the configuration space, chosen at the start.  `at` holds the loop
variables, `pc` the loop the scan is in.  `LoadCard` takes the outcome of the driver as
a parameter: success with or without an IP address, an error (64-bit BAR), a panic
(bus mastering), a stop (link down or paused), a wait for an EEPROM that does not answer.  `drv`
holds the driver's globals and the head of the driver space, which `maphwdev` moves by 32 bytes for
32 pages: a second card is mapped over the first, `regspace` points `shift` bytes into its registers,
or, since the flush misses the page, into the first card's, and its driver may wait for ever.

## Runs

Each passing run explores its whole state space.

| run | bounds | what it shows |
|---|---|---|
| `phymm` | 6 frames, 4 callers, requests of 1 to 3 frames, callers symmetric | frames are exclusive, bitmap exact, stack sorted, set definitions equal to the loops |
| `kmalloc` | heap of two pages, 3 allocations alive, lengths 200 and 1800, counts 0 and 2, at most 40 lost bytes | blocks tile the heap but for absorbed headers, list sound both ways and coalesced, each allocation served, first fit, `AllocContract` implemented |
| `virtmm` | 6 frames, tables of 2 entries, 2 heap tables, requests of 1 to 3 pages, a device of 2 pages, uncleared entries that name nothing, a managed frame or other memory | no frame of a page in use serves two purposes or is free, regions contiguous and the device reached, a cached translation is the page's own or one of an entry not yet written |
| `virtmm_unmap` | 4 frames, a table of 3 entries | regions survive other regions' unmapping; frames are freed once and by their owner |
| `e1000` | 64 descriptors, 7 packets, ring and packets at both ends of the first kilobyte of a page, TDH and TDT left at 0 or 3, an enabled card with both at 0 | loading ends; order, wholeness, no write under DMA, every packet is sent |
| `vga` | 3 rows of 5 columns, 4 lines, a FIFO of 2, an empty and full screens at the start | the screen is a window on the log through wraps, tabs and scrolls; the line carries it whole |
| `pci` | 2 buses, 2 slots, 2 functions, up to 4 functions present | each function found once, one card's ring with its registers while one card is mapped, the sequence ends |
| `boot` | maps of up to 3 regions out of 16, kernels of 2 and 3 pages, 2^32 as 1024 KB | code stays mapped, the first usable region is taken, its frames are spare unless a conversion loses something, the allocator starts as `PhyMM` assumes exactly under four conditions |
| `klibc` | heap continued up to three pages, 2 allocations alive, at most 40 lost bytes | overruns never cost a caller its data nor leave the heap, there is always room for the next `printk`, which numbers are printed right |
| `irq` | lines 1 and 9, faults 13 and 14, 3 contexts deep, 2 masks the BIOS may leave | interrupts come in at their vectors, exactly the lines asked for are open, every exception has its handler, a panic is final |

Two runs are expected to fail: each states one sentence of a comment, header or message
of the repository, and TLC shows a behaviour of the code that contradicts it
("findings" in `PROJECT.json`).

| run | what the code does |
|---|---|
| `phymm_borkd` | `hwpfree` of a single frame is always refused as a stack overrun |
| `e1000_stuck` | the card is told of an eighth of the ring: packets are not sent |

### Further deviations

The configurations below are kept beside the runs.  Each checks one statement about the
code that TLC refutes in seconds; they are not listed as runs because they ask nothing
new of the models.

| configuration | property | what the code does |
|---|---|---|
| `MCPhyMMRegion` | `WithinRegion` | a request that finds no run is granted frames past the region (`phy-mm.c:47`; `phy-mm.h:35` "Valid pages can be drawn from ...") |
| `MCPhyMMWild` | `NeverWild` | a word outside the stack serves as a frame address (`phy-mm.c:30`, `47`; `phy-mm.h:77`) |
| `MCKMallocOverflow` | `LiveFits` | `kcalloc`'s product wraps (`kmalloc.c:149`; `kmalloc.h:52`) |
| `MCVirtMMStillMapped` | `UnmappedIsUnmapped` | `munmap` leaves the first page mapped (`virt-mm.c:113`) |
| `MCVirtMMStaleTlb` | `TlbFlushed` | the flush names the table entry, not the page, and what the processor cached of an uncleared entry stays (`virt-mm.c:57`, `84`) |
| `MCVirtMMTwoDevices` | `DevicesMapped` | the second device's pointer is a few bytes above the first's (`virt-mm.c:127`) |
| `MCVirtMMExhausted` | `MmapAllocates` | `mmap` maps physical page 0 when memory is exhausted (`virt-mm.c:94`) |
| `MCE1000Bounds` | `RingInBounds` | the tail wraps one descriptor late (`intel_8254x.c:184`) |
| `MCE1000Length` | `LengthIsBuffer` | descriptors carry twice the buffer's length (`intel_8254x.c:144`) |
| `MCKMallocAllFreed` | `AllMemoryFreed` | each merge loses the 20 bytes of the header it absorbs (`kmalloc.c:218`; `kmalloc.c:264` "All memory should be freed after each test") |
| `MCE1000Lpa` | `BufferPhysical` | the descriptor of a packet 1024 bytes or more into its page does not name the packet (`intel_8254x.c:142` "physical address of buffer", `virt-mm.h:24`) |
| `MCE1000Ring` | `FetchedWhole` | the card looks for a ring 1024 bytes into its page at the page's start (`intel_8254x.c:263`, `virt-mm.h:24`) |
| `MCE1000Live` | `WireInOrder` | a card that firmware left enabled sends from a wrong place while its registers are replaced (`intel_8254x.c:271`, `282`) |
| `MCPciCard` | `CardUsable` | `kernel_init` uses a network card that was not found or not loaded, or has no IP address (`kernel.c:55`, `netdev.c:40`) |
| `MCBootNoMap` | `PanicsWithoutMap` | `or %eax, 1 << 6` writes memory; a missing map is not noticed (`boot.s:58`; `boot.s:59` "if flag not set, panic") |
| `MCBootSpill` | `InfoFits` | four times the map is copied, past the 1024 bytes reserved from eleven entries on (`boot.s:73`) |
| `MCIrqMasks` | `AllMasked` | line 9 is left open with no handler registered (`pic.c:35`; `pic.h:62` "and then masks all IRLs") |
| `MCPciFull` | `DevsFit` | the device list is not bounded (`pci.c:96`; `pci.c:166`) |

The passing properties pin down further ones: `HandsOver` says for which sizes the bitmap
starts on the last stack entry (one more than a multiple of 64) and that the bits of the last
`n % 8` frames are not cleared; `FramesAreSpare` when a region yields frames that are not memory
(smaller than the kernel, or reaching 4 GB); `TextRight` that a 64 bit number is printed wrong
when its lower half has leading zeros, or in decimal at all, and that a byte from 1 to 15 cuts a
hardware address short; `CallersSafe` holds although the terminator of `itoa` marks a free
remainder in use for good, which strands it.  Two more, without a property: `pic.h:43` has lines
2 and 9 on the wrong controllers, and `gdt.c` builds conforming code segments (access byte 0x9E)
where the values it keeps in a comment (`gdt.c:68`) have 0x9A.

### Why the bounds are enough

* *PhyMM*: with six frames and requests of up to three, runs are found at the bottom, in
  the middle and at the top, are not found with a free tail of 0, 1 and 2, and singles
  are popped through used entries.  The theorems below remove the bound.
* *KMalloc*: 200 and 1800 bytes make every branch happen: split and no split, reuse of
  a block by a smaller request, growth, merges on each side and both, `krealloc` in place
  and by moving, zero-length `kcalloc`.  `SelfTest` is 3000 where the code has 11000 so that
  the first block fits two pages; `Word` is 2^16.  Each merge loses 20 bytes, so that
  the state space is infinite; `MaxLost` cuts it after two.  `MaxHeap` leaves growth once.
* *VirtMM*: tables of two or three entries make regions straddle tables and tables be
  allocated between the frames of regions.  Stale entries name frame 1, which is
  handed out or becomes a table in the run, or page 50, which is no managed frame.
* *E1000*: 7 packets are what fits before the tail register reaches the length the card
  was told (`HwN` = 8): beyond, the code is wrong (`e1000_stuck`).  The kernel sends 3.
* *E1000*, loading: every outcome of the BAR, bus mastering, link and management word happens, and
  the card's registers start equal and unequal, switched on and off.  The offsets 1008 and 1023 are
  the last ones at which `_lpa` is right for a ring and for a packet.
* *Boot*: the regions of `MCBoot` lie around each size at which the tables change shape (0, 1,
  2, 64 and 65 frames, one that is not a multiple of 8, more than the limit of 128), and include one that does
  not start on a page, one smaller than the kernel, two across and one above 4 GB (in one of the two a frame
  itself is), and one that is reserved.  `InfoBytes` is 250 where the code has 1024, so that three entries overrun it.
* *Klibc*: `SelfTest` is 3000; a heap that has outgrown three pages (`Explored`) is checked but not
  continued, and `MaxHeap` is never reached, so that no step is refused for it; the lengths make a block that exactly
  fills the heap, one that splits off a small remainder and small ones, so that texts are
  followed by used, free and no blocks.  Numbers have two halves of 8 bits.
* *Irq*: line 1 is on the first controller, 9 on the second and one of those `pic_noirqs` leaves
  open; 13 and 14 are the two kinds of handlers.  Three contexts are the kernel, a handler and
  what cuts into it; deeper stacks repeat this.
* *Vga*: four lines scroll a three-row screen twice; five columns are one more than a tab.
* *Pci*: two of each kind exercise all loop ends; four functions include an absent root,
  a bus without devices and two cards with every pair of outcomes.

Deadlock is checked for `kmalloc`, `klibc` and `vga`.  The other runs say `CHECK_DEADLOCK FALSE`
because the system stops there: undefined behaviour in `PhyMM` and `VirtMM`, the end of
`kernel_init` in `E1000`, `Pci` and `Irq`, of `init_phymm` in `Boot`.

### Fairness

`E1000`: weak fairness on the stages of `add_tx_buffer`, since the processor does nothing
else and is not interrupted, and on the card's steps, since its transmit unit runs by
itself once enabled; on the stages of loading, for the same reason, and on `EepromAnswer`:
an EEPROM that never answers hangs the kernel.  None on `Send`.  `Pci`: weak fairness on `Next`, a sequential
program that runs.  The safety specifications have none.

## Proofs

Eight modules hold theorems.  Each is of the form `Spec => []Property` (or `Spec => Property`
for an action property and the refinements), for every value of the constants that satisfies
the assumptions stated beside them.  In each there is an inductive invariant, one lemma per
action that says the action keeps it, and one lemma per property that says the invariant
implies it; TLC has checked every invariant on the instance of the module's run (that of
`KMalloc` with its quantifier over all addresses as an equality of sets).

| module | theorem | property | hypothesis |
|---|---|---|---|
| `PhyMMProofs` | `TypeCorrect`, `FramesExclusive`, `BitmapExact`, `StackOrdered` | `TypeOK`, `Exclusive`, `InUseExact`, `StackInOrder` | |
| `KMallocProofs` | `TypeCorrect`, `BlocksNeverOverlap`, `ListStaysSound`, `CallersServed`, `ContractImplemented` | `TypeOK`, `BlocksTile`, `ListSound`, `LiveServed`, `ImplementsContract` | `SizesFit` |
| `KMallocProofs` | `CallersNeverHarmed`, `TerminatorInHeap`, `RoomForNextPrintk` | `CallersSafe`, `OverrunInHeap`, `PrintAgain` | of `KlibcSpec`, `LibraryFits` |
| `E1000Proofs` | `PacketsInOrder`, `DescriptorsWhole`, `CardUndisturbed` | `WireInOrder`, `FetchedWhole`, `NoWriteUnderDma` | `Prepared`, `RingLasts` |
| `VirtMMProofs` | `FramesHaveOneUse`, `MappingsLeadThere`, `CachedIsCurrent` | `FramesOwned`, `MappingsHold`, `TlbFresh` | of `KernelSpec` |
| `VirtMMProofs` | `RegionsStay`, `MappingsStay` | `RegionsContiguous`, `MappingsHold` | of `Spec`, `DriverSpaceFits`; `MappingsStay`: one device |
| `VirtMMProofs` | `ProtocolKept`, `OwnersApart` | `KeepsProtocol`; `Exclusive` and `InUseExact` of `PhyMM` | of `Spec`, `DriverSpaceFits` |
| `PciProofs` | `ScanFindsAll`, `RingAndRegistersAgree` | `FoundExactly`, `OneCard` | |
| `BootProofs` | `RunsWhereLoaded`, `FirstRegionTaken`, `FramesKeepClear`, `AllocatorStarts` | `RunsMapped`, `TakesFirst`, `FramesAreSpare`, `HandsOver` | `AllocatorStarts`: `LimitFits` |
| `VgaProofs` | `CursorOnScreen`, `ScreenShowsLog`, `LineKeepsUp` | `TypeOK`, `ShowsLog`, `LineFaithful` | |
| `IrqProofs` | `DevicesApart`, `LinesOpenExactly`, `ExceptionsHandled`, `PanicIsFinal` | `IrqsApart`, `OpenExactly`, `FaultsHandled`, `StopsForGood` | |

### Hypotheses

Where the code is right only under a condition that it does not check, the condition is a
hypothesis of the theorem and not an assumption of the module.

* `SizesFit`: every length a caller may ask for, and every product of `kcalloc`, is more than
  a page below the end of `size_t`.  `kmalloc.c` checks none of its sums; `MCKMallocOverflow`
  shows what happens otherwise.
* `LibraryFits`: the same of the library's own lengths, 32 bytes, the buffer of `printk` and the
  screen.
* `RingLasts`: all packets of a run fit the ring that the card was told of, an eighth of the
  real one.  `InvariantHolds` of `E1000Proofs` does without it: it says that driver and
  card agree until that many packets were handed over.  `e1000_stuck` is what comes after.
* `Prepared`: `Placed`, ring and packets lie in the first kilobyte of their pages, and `LeftQuiet`, a
  card that firmware left enabled has TDH and TDT at 0.  The code checks neither; `MCE1000Lpa`,
  `MCE1000Ring` and `MCE1000Live` are what happens otherwise.
* `LimitFits`: at most 193 frames are managed.  The stack and the rounded bitmap of 194 no
  longer fit the page that is left for them; the code's limit is 128.
* `KernelSpec` is what the kernel does today (`KernelNext`); under everything `virt-mm.h` offers,
  `Spec`, `TlbFresh` and, with a second device, `DevicesMapped` (`MCVirtMMTwoDevices`) are false.
  Hence one device in `MappingsStay`; and `OneCard` itself speaks of one mapped card.
* `DriverSpaceFits`: `maphwdev` adds pages where it should add bytes, so that all devices fall
  into the first page of the driver space as long as their pages add up to at most 4096.  The PCI list
  has 32 entries and the driver maps 32 pages for each.

### Why each invariant is what it is

*PhyMM.*  The conjunction of the invariants with `GrantsStartInside`: a grant starts in the
region.  Exclusiveness alone is not inductive.  That a scanned run is free of other callers'
frames needs the bitmap to be exact and the stack to be sorted (entries in a row are frames in a
row); that the end of a grant running past the region meets no other grant needs that every
other grant starts inside, below the run; and that the stack stays sorted needs that no push
ever happens, which is the type invariant's `pm.sp < NPages`.  `GrantOutcome` and `AllocOutcome`
say what `hwpalloc` may return, `TailIsHeld` is the case of a run past the region.

*KMalloc.*  `Chain`: each block's `next` is the nearest block above and its `prev` the nearest
below, and it ends at its successor or an absorbed header before it; `Merged`: no two free
neighbours; `Holds`: the callers hold exactly the blocks in use.  Splitting, growing and merging
are lemmas about a table of headers that say which `Chain` they leave, so that
`krealloc`, which combines them, composes their conclusions.  `Merged` is needed because `kfree`
looks one block to each side only.  The refinement follows from what a call leaves to the
other callers and from `BlocksTile`.

*Klibc.*  An overrun puts blocks in use that nobody holds, so `Holds` is false and `Owned`
replaces it: what callers and the running call hold are blocks in use and large enough.  Each
function of the library keeps what is in use (`Keeps`), whether or not its texts spill.  That the
spilled byte is in the heap at all is `LastBig`: the block at the end of the heap has more than 32
bytes.  The remainder of a split has, because the split saves 256; a block new from `mmap` has,
because it is a page or more; and a merge only adds.  Splitting with less saved
breaks it (mutant `SplitsTight`).  `PrintAgain` follows from what `kfree` leaves: a free block at
least as large as the one given back.

*E1000.*  `Loading`: until the ring is armed the card does nothing, because it is switched off or
its head and tail are equal and stay so while the registers are replaced.  `Sending`: the descriptors from head to tail are finished and carry the
packets that follow those on the wire, the ones past the tail are unused, the one at the tail
is as far as `add_tx_buffer` has come, and a busy card works on a copy of the one at its head.

*VirtMM.*  That no two pages share a frame depends on the books of regions (each holds the
frames it was granted, disjoint from the others and from the frames of tables, all marked in
use), and on how far the running call has come: a page is handed out only when its entry was
written, so that what uncleared entries name never counts;
translations last because a new table is installed only where there was none; what the TLB
holds of a page that no call has come to yet is what its uncleared entry named.  The allocator's steps are the
lemmas of `PhyMMProofs`.

For `Spec`, with `munmap`, the bitmap has to be exact (`ExactOK`): page tables and regions and
nothing else.  `munmap` gives `hwpfree` the translation of the region's first page, and that is
what `mmap` was granted because a region's pages are unmapped from the second on and its frames are
freed only when it leaves the books; the first page stays mapped to the end.  With that, `ProtocolKept`
goes action by action: each one allocates for one owner, frees what one owner holds, or touches
neither the allocator nor anybody's frames.  `OwnersApart` then takes the theorems of
`PhyMMProofs` over to paging, with page tables and regions as the clients.

*Pci.*  At every point of the three loops `gpci_devs` lists, once each, the functions that should
be found at places the loops have passed.  `FoundExactly` only speaks of the end.

*Boot.*  The contents of the page directory and both tables at each stage, for `RunsMapped`; that
no entry passed by was usable, for `TakesFirst`; what was computed from the entry taken, for the
other two.  These then are arithmetic of remainders: a frame never lies below its region
unless something wrapped, and the first frame to wrap would be at address 0 or straddle
4 GB.  The first attempt at this proof failed for a good reason: `FramesAreSpare` had not counted a frame
that itself straddles 4 GB, of which no region of the run made one.  Now `InChosen` asks for
frames that end below 4 GB, and the run has such a region.  `BootAssumption` says besides
that a word is a whole number of pages and that the tables span no more than a word, as
on the machine.

*Vga.*  The rows up to the cursor are the last lines of the log and the rows below it are blank.
The second half is why a scroll, which clears nothing, shows an empty line.  For the serial
port: its queue is what the line owes, and a port that failed its test owes nothing.

*Irq.*  The stack of contexts: a context with interrupts on has only such contexts below it,
and none before the `sti` of `kernel_init`; `kernel_init` is only at the bottom; `cli` and `hlt` are
off; a driver's handler is only above a context that was on.  Gates: each exception's gate that was
registered leads to that exception's handler, bit by bit, and later registrations are at
other vectors.  Chips: after each of the twelve words of `init_pic` what each 8259 has
taken, up to vectors 32 and 40, cascade and masks; then which lines are open is what was asked
for.  `PanicIsFinal` is an action property: a step from a panicked kernel leaves a panicked
kernel, because only a driver's handler ever returns, and `kernel_init` goes on only when it is
on top of the stack, where it is not once anything else is.

### Only model-checked

* Liveness (`EverySent`, `Loads`, `Ends`): fairness is out of the prover's reach.
* `LoopsAgree`, `WalkAgrees`, `TextRight`: they compare with loops written as recursive operators,
  and what these compute for every input needs induction over data.

Every other property of the passing runs is proved.

## Not modelled

* The bytes of packets (`netdev.c`) and the wording of texts, colours, `vga_puthex`: data that no
  property here tells apart.  `strlen`, `memcpy`, `memset` likewise work on contents; `serial_print`
  prints two diagnostics of the heap.
* What the kernel does once it is undefined: a frame address from outside the stack, physical
  page 0 as page table, a device past the end of the list, a copied memory map past its space, an
  interrupt through a gate nobody wrote.  The models stop there.
* `magic` and the calls of the heap with invalid pointers, which change nothing; the Linux build of
  `kmalloc.c`; code under `#if 0` (its comments are used as statements about the code).
* `___isr` of `boot.s`, which nothing calls.
* The heap over paging at once: `KMalloc` with byte addresses over `VirtMM` with tables has more
  states than TLC can visit at sizes where either is interesting.  What passes between them,
  growth by `mmap` at the end of the heap, is `KernelNext` of `VirtMM` and `new_blockspace` of
  `KMalloc`.

## Plan

All parts are modelled but for the above, and every safety invariant, action property and
refinement that the runs check is proved but for the three about recursive loops.  What is left:

1. The heap over paging: `new_blockspace` takes it for granted that `mmap` succeeds and that the
   next pages of the heap follow the last, which is `RegionsStay` of `VirtMMProofs` at the
   addresses of `KMallocProofs`.  A module that composes the two would say so in one theorem.
2. `netdev.c`: the bytes of the ARP frame, if packets are ever received.
3. If the driver is changed to tell the card of the whole ring, `RingLasts` is no longer needed,
   and the invariant has to say what happens when the tail wraps.
