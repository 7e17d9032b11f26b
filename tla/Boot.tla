-------------------------------- MODULE Boot --------------------------------
(***************************************************************************)
(* From the boot loader to a working frame allocator: kernel/asm/boot.s and *)
(* init_phymm of kernel/mm/phy-mm.c.                                        *)
(*                                                                          *)
(* Physical addresses and lengths are counted in kilobytes, PageUnits of    *)
(* them to a page, so that a region need not start on a page; what lies     *)
(* inside the page of tables after the kernel is counted in bytes from      *)
(* __kernel_end, which the linker script puts on a page boundary.  Page     *)
(* numbers of the first page tables are split into a directory index and a  *)
(* slot by TableSize.                                                       *)
(***************************************************************************)
EXTENDS Integers, Sequences

CONSTANTS
  PageUnits,    \* 4, kilobytes of a page
  Word,         \* 2^32 as a number of kilobytes
  Word64,       \* 2^64 as a number of kilobytes
  TableSize,    \* 1024, entries of a page table
  KernelSlot,   \* 256: the kernel is loaded at page 256 of physical memory, 1 MB
  HighTable,    \* 768, the directory entry of 0xc0000000
  VgaPage,      \* 0xb8, the physical page of the screen
  FrameLimit,   \* 128, the most frames that are managed
  InfoBytes,    \* 1024, sizeof meminfo_struct
  KernelEnds,   \* pages at which the kernel image may end
  EntryPool,    \* entries a memory map may hold
  BehindPool,   \* what the memory behind the map may look like
  MaxEntries    \* bound: entries of the memory map

ASSUME BootAssumption ==
  /\ PageUnits \in Nat \ {0} /\ Word \in Nat \ {0} /\ Word64 = Word * Word
  /\ Word % PageUnits = 0 /\ TableSize \in Nat /\ TableSize * PageUnits <= Word
  /\ KernelSlot \in 1 .. TableSize /\ HighTable \in 1 .. (TableSize - 2)
  /\ KernelEnds \subseteq (KernelSlot + 1) .. (TableSize - 1)
  /\ FrameLimit \in Nat \ {0} /\ InfoBytes \in Nat /\ MaxEntries \in Nat
  /\ \A e \in EntryPool \cup BehindPool : e.base \in Nat /\ e.length \in Nat /\ e.type \in Nat

VARIABLES
  pc,      \* where _start or init_phymm is
  mb,      \* what the boot loader left: flags, entries of the map, memory from there on
  kend,    \* the page at which the kernel image ends
  pde,     \* the page directory: directory index to the table it names
  pte,     \* pte_0 and pte_768: slot to the physical page it names
  cpu,     \* is paging on, and the logical page instructions come from
  at,      \* the entry of the map mmap_ptr points at
  pmm      \* the globals of phy-mm.c

vars == <<pc, mb, kend, pde, pte, cpu, at, pmm>>
booting == <<pde, pte, cpu>>

KernelStart == KernelSlot * PageUnits
KernelEnd   == kend * PageUnits
Slots       == 0 .. TableSize - 1
SelfTable   == TableSize - 1   \* 1023: the directory serves as its own last table

(* The bytes an entry takes: the entry_size of 20 and the field itself.     *)
EntryBytes == 24
Entry0     == [base |-> 0, length |-> 0, type |-> 0]

(* Stack entry i holds frame i of the region, but for the wiped entries,    *)
(* which hold address 0; inuse is the set of bits set in the bitmap.        *)
Unset == [size |-> 0, start |-> 0, sp |-> 0, wiped |-> {}, inuse |-> {}, bitmap |-> 0, end |-> 0]

-----------------------------------------------------------------------------
(* The memory map a boot loader may leave. *)

Overlap(e, f) == e.base < f.base + f.length /\ f.base < e.base + e.length
Holds(e, lo, hi) == e.base <= lo /\ hi <= e.base + e.length

(* The boot loader loads the kernel into available memory, and the regions  *)
(* of a map are disjoint.                                                   *)
Credible(m, k) ==
  /\ \E i \in 1 .. m.n : m.mem[i].type = 1 /\ Holds(m.mem[i], KernelStart, k * PageUnits)
  /\ \A i, j \in 1 .. m.n : i # j => ~Overlap(m.mem[i], m.mem[j])

(* Bit 6 of the flags says that there is a map; without it the fields for   *)
(* the map hold anything.  What follows the map in memory is anything too.  *)
Init ==
  /\ pc = "start" /\ kend \in KernelEnds
  /\ \E n \in 0 .. MaxEntries, flags \in {"zero", "other", "mmap"} :
       \E map \in [1 .. n -> EntryPool], behind \in BehindPool :
         /\ mb = [flags |-> flags, n |-> n, mem |-> Append(map, behind)]
         /\ flags = "mmap" => Credible(mb, kend)
         /\ flags = "zero" => n = 0
  /\ pde = [t \in {0, HighTable, SelfTable} |-> "none"]
  /\ pte = [t \in {"pte_0", "pte_768"} |-> [s \in Slots |-> {}]]
  /\ cpu = [paging |-> FALSE, page |-> KernelSlot]
  /\ at = 0 /\ pmm = Unset

-----------------------------------------------------------------------------
(* _start *)

(* `or %eax, 1 << 6' writes memory, so that only flags of zero are refused. *)
CheckFlags ==
  /\ pc = "start"
  /\ pc' = IF mb.flags = "zero" THEN "panic" ELSE "copy"
  /\ UNCHANGED <<mb, kend, booting, at, pmm>>

(* copy_meminfo counts dwords up to a length that is in bytes: four times   *)
(* the map is copied.  Past meminfo_struct it overwrites initialised data   *)
(* of other files; nothing is said of what follows.                         *)
CopiedBytes == IF mb.n = 0 THEN 4 ELSE 4 * EntryBytes * mb.n

CopyMeminfo ==
  /\ pc = "copy"
  /\ pc' = IF CopiedBytes > InfoBytes THEN "spilled" ELSE "tables"
  /\ UNCHANGED <<mb, kend, booting, at, pmm>>

(* fill_loop maps physical pages from 1 MB on to the slots from 256 on, and *)
(* the slot below them to the screen.                                       *)
HighEntries(s) ==
  IF s >= KernelSlot THEN {s} ELSE IF s = KernelSlot - 1 THEN {VgaPage} ELSE {}

(* The temporary mapping of the page _start runs in.                        *)
LowEntries(s) == IF s = KernelSlot THEN {KernelSlot} ELSE {}

BuildTables ==
  /\ pc = "tables"
  /\ pde' = [pde EXCEPT ![0] = "pte_0", ![HighTable] = "pte_768", ![SelfTable] = "pde_table"]
  /\ pte' = [t \in DOMAIN pte |-> [s \in Slots |-> IF t = "pte_0" THEN LowEntries(s) ELSE HighEntries(s)]]
  /\ pc' = "enable"
  /\ UNCHANGED <<mb, kend, cpu, at, pmm>>

EnablePaging ==
  /\ pc = "enable"
  /\ cpu' = [cpu EXCEPT !.paging = TRUE]
  /\ pc' = "jump"
  /\ UNCHANGED <<mb, kend, pde, pte, at, pmm>>

(* Fault: the lower mapping is removed before the jump.                     *)
JumpHighLate ==
  /\ pc = "jump"
  /\ pde' = [pde EXCEPT ![0] = "none"]
  /\ pc' = "unmap"
  /\ UNCHANGED <<mb, kend, pte, cpu, at, pmm>>

(* pre_init_kernel is in .text, the page after the multiboot section.       *)
JumpHigh ==
  /\ pc = "jump"
  /\ cpu' = [cpu EXCEPT !.page = HighTable * TableSize + KernelSlot + 1]
  /\ pc' = "unmap"
  /\ UNCHANGED <<mb, kend, pde, pte, at, pmm>>

(* The lower mapping goes, cr3 is reloaded, kernel_init is called and comes *)
(* to init_phymm.                                                           *)
UnmapLow ==
  /\ pc = "unmap"
  /\ pde' = [pde EXCEPT ![0] = "none"]
  /\ pc' = "walk"
  /\ UNCHANGED <<mb, kend, pte, cpu, at, pmm>>

-----------------------------------------------------------------------------
(* init_phymm *)

(* What mmap_ptr sees at entry i: the copy reaches four times as far as the *)
(* map, and meminfo_struct is zero beyond.                                  *)
Seen(i) == IF (i + 1) * EntryBytes <= CopiedBytes /\ i + 1 <= mb.n + 1 THEN mb.mem[i + 1] ELSE Entry0

Usable(e) == e.base >= KernelStart /\ e.type = 1

(* The image and the page of tables behind it.                              *)
KernelSize == KernelEnd - KernelStart + PageUnits

(* Fault: the length is that of the whole region.                           *)
RegionPagesWhole(e) == ((e.length % Word64) \div PageUnits) % Word

(* base_addr is cut to 32 bits; the difference of lengths is taken in 64    *)
(* bits and its quotient kept in 32.                                        *)
RegionStart(e) == ((e.base % Word) + KernelSize) % Word
RegionPages(e) == (((e.length - KernelSize) % Word64) \div PageUnits) % Word

ManagedFrames(e) == IF RegionPages(e) > FrameLimit THEN FrameLimit ELSE RegionPages(e)

(* Fault: room for the stack is reckoned in entries, not in bytes.          *)
BitmapAtEntries(n) == ((n - 1 + 255) \div 256) * 256

(* Offsets from __kernel_end, in bytes: _hwas_sp is the last entry of the   *)
(* stack, the bitmap starts at the next multiple of 256 from there, and     *)
(* __phymm_end is a page further, cut to a multiple of 1024.                *)
StackTop(n)    == 4 * (n - 1)
BitmapBytes(n) == n \div 8
BitmapAt(n)    == ((StackTop(n) + 255) \div 256) * 256
PhymmEnd(n)    == ((BitmapAt(n) + BitmapBytes(n) + 4096) \div 1024) * 1024

(* Entries of the stack that clearing the bitmap wipes out.                 *)
Wiped(n) == {i \in 0 .. n - 1 : BitmapAt(n) <= 4 * i /\ 4 * i < BitmapAt(n) + BitmapBytes(n)}

(* Only whole bytes of the bitmap are cleared: the bits of the last n % 8   *)
(* frames are what memory held.  With a single frame that is the frame's    *)
(* own address on the stack, whose low bit is clear.                        *)
LeftoverBits(n) == IF n = 1 THEN {{}} ELSE SUBSET ((8 * BitmapBytes(n)) .. (n - 1))

(* The body of the if in init_phymm's loop.                                 *)
UseRegion ==
  /\ pc = "walk" /\ Usable(Seen(at))
  /\ \E n \in {ManagedFrames(Seen(at))} : \E bits \in LeftoverBits(n) :
       pmm' = [size |-> n, start |-> RegionStart(Seen(at)), sp |-> n - 1, wiped |-> Wiped(n),
               inuse |-> bits, bitmap |-> BitmapAt(n), end |-> PhymmEnd(n)]
  /\ pc' = "ok"
  /\ UNCHANGED <<mb, kend, booting, at>>

(* Fault: the last entry of the map is not looked at.                       *)
NextEntryShort ==
  /\ pc = "walk" /\ ~Usable(Seen(at))
  /\ at' = at + 1
  /\ pc' = IF at + 1 < mb.n - 1 THEN "walk" ELSE "failed"
  /\ UNCHANGED <<mb, kend, booting, pmm>>

(* The loop goes on while the next entry starts at or before the end of the *)
(* map.                                                                     *)
NextEntry ==
  /\ pc = "walk" /\ ~Usable(Seen(at))
  /\ at' = at + 1
  /\ pc' = IF (at + 1) * EntryBytes <= mb.n * EntryBytes THEN "walk" ELSE "failed"
  /\ UNCHANGED <<mb, kend, booting, pmm>>

Next ==
  \/ CheckFlags
  \/ CopyMeminfo
  \/ BuildTables
  \/ EnablePaging
  \/ JumpHigh
  \/ UnmapLow
  \/ UseRegion
  \/ NextEntry

Spec == Init /\ [][Next]_vars

-----------------------------------------------------------------------------
(* Properties *)

Walk(lp) ==
  LET t == lp \div TableSize
  IN IF t \notin DOMAIN pde \/ pde[t] = "none" THEN {} ELSE pte[pde[t]][lp % TableSize]

(* Through the last directory entry the tables themselves are seen.         *)
TableSeen(t) == IF pde[SelfTable] = "pde_table" THEN pde[t] ELSE "none"

High(p) == HighTable * TableSize + p

(* Page tables and program counter agree.  From the instruction that turns  *)
(* paging on to kernel_init each instruction is fetched from the physical   *)
(* page it was loaded at; when kernel_init runs, the image and the page of  *)
(* the frame allocator's tables are mapped to where they were loaded, the   *)
(* screen is mapped just below, nothing is mapped in the lower half, so     *)
(* that a NULL pointer faults, and mapfr finds the kernel's table where it  *)
(* looks for it.                                                            *)
FetchMapped == cpu.paging => Walk(cpu.page) = {cpu.page % TableSize}

KernelMapped ==
  pc \in {"walk", "ok", "failed"} =>
    /\ \A p \in KernelSlot .. kend : Walk(High(p)) = {p}
    /\ Walk(High(KernelSlot - 1)) = {VgaPage}
    /\ \A s \in Slots : Walk(s) = {}
    /\ TableSeen(HighTable) = "pte_768" /\ TableSeen(0) = "none"

RunsMapped == FetchMapped /\ KernelMapped

FirstUsable(hi) == {i \in 0 .. hi : Usable(Seen(i)) /\ \A j \in 0 .. i - 1 : ~Usable(Seen(j))}

(* init_phymm takes the first usable entry of the map and fails only when   *)
(* there is none; an entry past the map's end is taken only when no entry   *)
(* of the map is usable and the memory behind it happens to look like one.  *)
TakesFirst ==
  /\ pc = "ok" => IF FirstUsable(mb.n - 1) # {} THEN at \in FirstUsable(mb.n - 1) ELSE at \in FirstUsable(mb.n)
  /\ pc = "failed" => FirstUsable(mb.n) = {}

Frame(i) == (pmm.start + PageUnits * i) % Word
Frames   == 0 .. pmm.size - 1
Chosen   == Seen(at)

(* Neither of the conversions lost anything: the region can hold the image  *)
(* and the managed part of it ends below 4 GB.                              *)
NothingLost ==
  /\ Chosen.length >= KernelSize
  /\ Chosen.base + KernelSize + PageUnits * pmm.size <= Word

(* All of frame i is in the chosen region and has 32-bit addresses.         *)
InChosen(i) == Holds(Chosen, Frame(i), Frame(i) + PageUnits) /\ Frame(i) + PageUnits <= Word

(* The frames on the stack lie in the chosen region, below 4 GB, exactly    *)
(* when neither the subtraction of the kernel's size nor the cut to 32 bits *)
(* lost anything; and then, with a map a boot loader leaves, none of them   *)
(* overlaps the kernel image or the page of the stack and the bitmap.       *)
FramesAreSpare ==
  pc = "ok" /\ pmm.size > 0 =>
    /\ NothingLost <=> \A i \in Frames : InChosen(i)
    /\ NothingLost /\ mb.flags = "mmap" /\ at < mb.n =>
         \A i \in Frames : Frame(i) + PageUnits <= KernelStart \/ KernelEnd + PageUnits <= Frame(i)

(* The stack and the bitmap, with the bits of the last frames, end before   *)
(* __phymm_end; that is one page after the kernel, whatever the number of   *)
(* frames, and where the frames of the kernel's own region start.           *)
TablesInPage ==
  /\ pmm.bitmap + ((pmm.size + 7) \div 8) <= pmm.end
  /\ pmm.end = 4096
  /\ Chosen.base = KernelStart => pmm.start = (KernelEnd + PageUnits) % Word

(* InitPm of PhyMM: every entry holds its page frame, no bit is set, and    *)
(* stack and bitmap do not overlap.                                         *)
StartsAsAssumed ==
  /\ pmm.size > 0 /\ pmm.sp = pmm.size - 1
  /\ \A i \in Frames : Frame(i) % PageUnits = 0
  /\ pmm.wiped = {} /\ pmm.inuse = {}
  /\ StackTop(pmm.size) < pmm.bitmap

(* The tables fit the page the kernel leaves for them, and the allocator    *)
(* starts in the state that PhyMM assumes exactly when there is a frame,    *)
(* the region starts on a page, the number of frames is not one more than   *)
(* a multiple of 64, and memory held no bits where the bitmap was not       *)
(* cleared.                                                                 *)
HandsOver ==
  pc = "ok" =>
    /\ TablesInPage
    /\ StartsAsAssumed <=> /\ pmm.size > 0 /\ pmm.size % 64 # 1
                           /\ Chosen.base % PageUnits = 0 /\ pmm.inuse = {}

(* boot.s: "if flag not set, panic".                                        *)
PanicsWithoutMap == pc = "walk" => mb.flags = "mmap"

(* boot.s reserves meminfo_struct for the copy of the map.                  *)
InfoFits == pc # "spilled"

=============================================================================
