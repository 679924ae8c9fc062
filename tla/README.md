# HyperMI: a TLA+ model of the SecureVM module

HyperMI keeps the virtual machines of a host apart even from a compromised
KVM.  Its code in this repository is the kernel module `secureVM.ko`
(`src/SecureVM/`, 5047 lines): it patches thirteen functions of a modified host
kernel so that page table updates, page faults, VMCS accesses and everything
that moves a page frame from one VM to another pass through the module.  The
modified kernel itself is not in the repository; what the module needs of it is
modelled as *external*, as far as the handlers' arguments and tests imply it.
(`src/linux-4.4.1` holds generated build output only: configuration headers,
parser tables, module symbols.)

- [1. The system](#1-the-system)
- [2. The modules and how they map to the code](#2-the-modules-and-how-they-map-to-the-code)
- [3. The runs](#3-the-runs)
- [4. What is proved](#4-what-is-proved)
- [5. Where code and documents part](#5-where-code-and-documents-part)
- [6. What is not modelled](#6-what-is-not-modelled)
- [7. Plan](#7-plan)
- [8. Running it](#8-running-it)

## 1. The system

| Component | State | Operations | Reached from |
|---|---|---|---|
| Page tag table (PPTT), `gate_function.h` 1209-1503 | `pageflag[Num_pfn2]`: owner and flag bits (used 0x80, shared 0x01, merged 0x08) of every frame | `new_handle_pfn_modify`, `new_handle_pfn_map`, `new_ksm_page_modify`, `new_clean_page_modify`, `new_inflate_page_modify`, `new_deflate_page_modify` | KVM's EPT violation path, KSM, reclaim, balloon |
| Switch gate, `gate_function.h` 305-435, `interupt.h`, `native_gate_function.h` | `pgd_addr_cp_gate`, `oldcr3` (globals); CR3, CR2 and the interrupt flag of each CPU | `new_native_set_pte`, `new_native_set_pmd`, `new_do_page_fault`, the first lines of `new_vmcs_readl` | every page table update, and every page fault on a kernel address |
| Hooks, `hookcr32.c`, `set_hook.h` | `orig_code_*`, `hook_code_*`, the first twelve bytes of each hooked function | `my_init`, `set_hook_*`, `my_exit` | `insmod`, `rmmod` |
| Page table copy, `copy_pg.h`, `find.h` | `pgd_addr_cp` and the page tables in memory | `set_pgd_cp`, `copy_pagetable*`, `update_pagetable*`, `find` | `copy_pagetable`, `cl_cp_pgtable`, `update_pagetable`, `update_pagetable2` and `find` are exported; nothing calls the rest (`my_init` has the call of `set_pgd_cp` commented out) |
| Protection walks, `set_pgprot.h`, `set_pgprotrw.h` | write bits of page table entries | `set_pgtable_prot`, 2 to 6 | `set_pgtable_prot` is exported; 2 to 6 are neither exported nor called |
| VMCS monitor, `gate_function.h` 569-775 | `value`, `vmcswriteflag`, counters | `new_vmcs_writel`, `new_vmcs_readl`, `new_vmcs_clear` | KVM |
| Gates of the control register writes, `gate_function.h` 334-355, 438-500 | the gate's globals | `new_native_write_cr0`, `cr3`, `cr4`, `cr8` | exported; no hook leads to them |
| VM registry, `gate_function.h` 891-1205 | list of VMs and EPT roots | `new_tdp_page_fault`, `new_kvm_mmu_load`, ... | nothing: the hooks are commented out |

**Interaction.**  `my_init` connects each handler to the kernel function it
replaces: from then on a call of that function jumps to the handler, which does
the function's work itself (`snative_set_pte`, `sdo_page_fault`, ...), usually
between the two halves of the switch gate.  The page tag handlers have no gate;
they share `pageflag` with each other and with no lock.  The gate's handlers
share two globals.  The page fault handler calls code that updates page tables,
so it enters the gate from within the gate.

**What is hard here.**

- *Interleaving*: `flag |= bit` is a load and a store; VCPUs of several VMs fault
  on one KSM page while ksmd merges another into it (PageTagRace).
- *Shared globals and nesting*: one `oldcr3` for all CPUs and all levels of
  interrupts and faults; user code that faults on a kernel address takes the gate
  as well, and its body turns interrupts on and may sleep (SwitchGate).
- *Missing notifications*: a VM's teardown, copy on write, `madvise` and the
  promotion of a page to a KSM page call no hook, so tags go stale (PageTag).
- *A module that comes late*: VMs run when the hooks are set, one after another,
  and frames mapped before have blank tags (PageTagLoad).
- *Boundaries*: pfn `p` is tagged in `pageflag[p - 1]`, and the handlers test it
  in three different ways, or not at all (PageTag).
- *Code that changes under its caller*: twelve bytes patched in two stores while
  other CPUs run them, and a module freed while threads are in it (Hooks).
- *Nested loops over four levels of tables* with invalid, large and huge entries, and a
  store whose index is another loop's (PageTableCopy, PageTableLoops).

`PROJECT.json` lists each of these at its line, with the properties aimed at it.

**What makes each component correct.**  Page tag table: a frame whose tag says
private is mapped by one VM, the one it names; a mapped frame is tagged.
Switch gate: interrupts off inside (a user fault's body excepted, which turns them
on), what they were and the caller's page table after it.
Hooks: live calls reach the handler; unloading ends and leaves the kernel as it
was.
Page table copy: the copy translates as the original does, and making it changes no
translation of the original, though `find` may set write bits in it on the way to
the copy's address.  The walks 3 to 6, which set and clear the write bit, change
no translation either; `set_pgtable_prot` and `set_pgtable_prot2` do: they wipe
entries (`&=` for `&`, `set_pgprot.h:39` and `82`).

## 2. The modules and how they map to the code

| Module | Models | Abstracts |
|---|---|---|
| `PageTag` | the page tag table and its six handlers, each an atomic step of the host's operation that calls it | `struct PageFlag` to an owner and a set of bits, messages |
| `FrameIsolation` | what the table promises: no owners, no bits, no KSM | everything but holders and "public" |
| `PageTagRace` | the handlers at the grain of single loads and stores | ranges (in `PageTag`), which pages the balloon may take |
| `PageTagLoad` | `PageTag` composed with `my_init` and `my_exit`, whose page tag hooks come and go one by one | the other seven hooks, the bytes of a hook (in `Hooks`) |
| `SwitchGate` | the gate, an action per instruction that changes state | what the bodies compute |
| `Hooks` | `my_init`, the thirteen `set_hook_*`, `my_exit`, the module's release, threads in what is patched | instruction bytes to *own*, *jump*, *zero* |
| `PageTableCopy` | the copies, updates, walks and protection functions, each stated for all entries at once | 512 entries to `K`, an address to four indices, where `get_zeroed_page` finds a page |
| `PageTableLoops` | the nested loops of the copies, store by store | as `PageTableCopy` |
| `MC...` | constants, symmetry and initial memories for TLC | |
| `..._proofs` | the TLAPS proofs | |

No module composes all of the others: the gate's globals, the page tables and the
page tags are disjoint, and each is connected to the host and not to one another.
The hooks meet the page tags, in `PageTagLoad`: which of them are there decides
what the table is told.  `FrameIsolation` is the abstract specification that
`PageTag` and `PageTagRace` refine, and `PageTagLoad` of the entries it has seen;
`MCPageTagUntrusted` composes `PageTag`
with a host that maps any frame anywhere.

### PageTag

Variables: `pageflag` is the array, indexed by pfn (slot `p` is `pageflag[p-1]`),
extended to the memory around the array so that a write out of bounds is seen
(`Foreign`, `Outside`).  `live`, `back`, `ept`, `ksm` and `balloon` are the host's
part: the running VMs, whose memory each frame holds, which EPTs map it, which
frames `PageKsm` is true of.

Each handler is a function on tables (`Verified`, `Mapped`, `Merged`, `Cleaned`,
`Ballooned`), each host operation an action that applies it: `ResolveTo` is KVM's
fault path, which calls `handle_pfn_modify`, looks at its result and then calls
`handle_pfn_map`; `KsmMerge` is `replace_page`, `Reclaim` is `shrink_page_list`.
`VmDestroy`, `Drop`, `Zap` and `KsmPromote` call nothing: that is why tags go
stale, and why the properties are not obvious.

Assumptions about the host, each an external definition: KSM calls
`ksm_page_modify` with a `kpage` that is already a KSM page (the handler tests
`PageKsm(kpage)`); reclaim calls `clean_page_modify` before the page is free; a
fault of a VM is resolved to memory of that VM, to free memory, or to a frame
common by design (zero page).  A VM may fault again on a frame that its EPT maps
already, and both handlers run again.  No VM runs when the module is loaded; that is
`PageTagLoad`'s subject.

### PageTagRace

A thread per VCPU, ksmd and kswapd; `pc` is the next load or store.  `reg` holds
the flags a thread has loaded and will store.  The host's locks are those the
kernel takes around the handlers: a page under merge or reclaim is not
referenced by another operation, KVM resolves one fault of a VM at a time, but
faults of different VMs on one KSM page overlap, with each other and with a
merge into that page.  The balloon handlers are a single store each, which no lock
keeps from the others; `given` remembers where theirs was the last.  Where a
handler copies an owner (`kpage`'s from `page`'s) the load and the store are two
steps, and the balloon may come between them (`loaded`).

### PageTagLoad

`hooked` is the set of the six page tag functions that lead to their handlers.
`SetHook` adds them in `my_init`'s order and `Restore` removes them in
`my_exit`'s, which differs.  Between any two of these steps VMs start, fault, share,
free and die.  Each host step is `PageTag`'s own (`HostMerge`, `HostReclaim`, ...),
with the handler's effect on the table where the function is hooked (`Through`)
and without it where it is not.  `Insmod` and `ExitReturns` leave a zeroed table,
as `pageflag` is the module's own static data.

The tag of a frame mapped before the load is blank, and no code looks for such
frames.  What the tags are worth is therefore stated with a history variable:
`since` holds the EPT entries made while `handle_pfn_map` was hooked.  One such entry
is enough for the tag of its frame to be right about *all* entries of the frame,
the older ones included: a frame can get a second holder only as a KSM page, and
a fault on a KSM page sets the shared bit whoever else holds it.  When a hook is
taken back `my_exit` may leave a tag that grows stale, but `handle_pfn_map` goes
second, and with it the claim.

### SwitchGate

A CPU runs a stack of handlers (`lvl`, `frame`), pushed by a call, an interrupt,
a page fault on a kernel address or a call out of the page fault body.  The steps and what
they stand for are listed at the head of the module.

- `sti` takes effect after the instruction behind it, so `sti; popf` is one step.
- No barrier stands between the assignment of `pgd_addr_cp_gate` and its use, so
  the compiler may keep it in a register: `EnterWorld` takes either value.
  `oldcr3` is used behind the barrier of `__flush_tlb_all` and is loaded anew.
- The asm helpers are inlined (they must be: `pushf` and `popf` pair up across
  two of them).
- The body of the page fault calls a page table update at most once (`body2`,
  `tail2`), which bounds the run, not the nesting.
- The gate is taken by every fault on a kernel address, user code's included: the
  test of `error_code` is commented out (`gate_function.h:409`).  For user code
  `__do_page_fault` turns interrupts on (`LocalIrqEnable`), in the body inside the
  gate and in the one after it, and may then sleep (`Sleep`; the emulation of a
  vsyscall, which this kernel has, touches user memory).  While it sleeps others
  run, take the gate and fault, so `pgd_addr_cp_gate`, `oldcr3` and CR2 are then
  whatever they left; the scheduler comes back with the task's own page table.
  The stack of handlers is a task's then, and the task is assumed to wake up on
  the CPU it slept on.  `slept` remembers that a body has slept in the gate since
  the CPU last changed its address space.
- User code faults outside every handler and with interrupts on; a kernel fault
  comes anywhere.  The kernel is not preemptible (`CONFIG_PREEMPT` is off), so
  apart from `Sleep` the scheduler runs outside every handler.
- `vmcs_readl` has only the first two lines of the gate left; the rest is
  commented out, and the model goes from `setOld` to `return`.

### Hooks

Each `set_hook_*` is `make_rw`, a copy of the old bytes and two stores (`memcpy`
of twelve bytes becomes eight and four).  `my_exit` writes back.  `free_module`
waits for the running CPUs (`grace`) and then the module's text is gone: a thread
still in a handler is `lost`, one that executes half a hook is `wild`.  A thread
is in one hooked function at a time.  Only the page fault handler sleeps.
Liveness is about the unload: `my_exit` and `delete_module` end although threads
sleep in a handler, since what they wait for is running CPUs and not sleepers.

### PageTableCopy

`mem` holds the table pages, `Root` is the pgd `read_cr3` names and `copy` is
`pgd_addr_cp`.  A page of `get_zeroed_page` is named by the call that asks for it
and the indices that lead to it: what such a page is used for is known from its
name, and two calls never get the same one, as the module frees none.

Each function is one step.  A copy runs for many thousands of loads and stores
without a lock, and the kernel may change its tables meanwhile: that is not
modelled, and neither are new mappings the kernel makes between calls, only the
loss of mappings (`Unmap`).  The properties speak of kernel tables that stand still
while a function runs.

The three copies of the nested loop differ in the half of the pgd they copy
(`CopyHalf`).  `CopiedPgd`, `CopiedPud` and `CopiedPmd` say what each entry of a new
page ends up with.  The loop body's second store, `set_pmd(pmd_new+i2, ...)`, makes
a pmd entry depend on all its neighbours: `LastStored` is the entry of the old page
the last store to it was made from.  That this is what the loops leave is not
obvious, so `PageTableLoops` has the loops themselves, one operator for the body of
each, one recursive function for the iterations.  `LoopsTranslate`, which the run
checks, is stated of what these loops leave; `LoopsAgree` says that it is what
`PageTableCopy` has, and is proved.
The walks (`find`, `set_pgtable_prot` to `6`) visit entries one by one as well;
each visit is independent of the others, and they are stated for all at once only.

`update_pagetable` assigns each pgd entry before it tests the new one, so its
inner three loops are dead: the model's `UpdatePagetable` is the assignment.
`clear_newpgd_addr` clears a local copy of a pte, so all that it does to memory
is what `find` does on the way: set the write bit of each entry.
`set_pgtable_prot` and `set_pgtable_prot2` use `&=` where `set_pgtable_prot4` has
`&`, and wipe the entries they visit (`Wipe`).

## 3. The runs

All of these end well within five minutes with two workers.

| Run | Module | Result | Distinct states | Question |
|---|---|---|---|---|
| `pagetag_inside` | MCPageTag | holds | 270 000 | is private exclusive and mapped used, where the table covers the machine? |
| `pagetag_edge` | MCPageTag | holds | 334 000 | ... and at pfn 0, at `Num_pfn2`, behind it, and for common frames? |
| `pagetag_load` | MCPageTagLoad | holds | 436 000 | what are tags worth when the module comes and goes under running VMs? |
| `pagetag_untrusted` | MCPageTagUntrusted | violated | | does the handler refuse what an untrusted host asks for? |
| `pagetag_race` | MCPageTagRace | holds | 3 550 000 | do tags settle when or-s and stores overlap, and isolate meanwhile? |
| `gate_one` | MCSwitchGate | holds | 136 000 | do two globals suffice for nested gates on one CPU; are interrupts masked inside and restored, user faults on kernel addresses included; do handlers return? |
| `gate_exit_order` | MCSwitchGate | violated | | is the exit gate in the documented order? |
| `gate_two_cpus` | MCSwitchGate | violated | | does each CPU return to its own world? |
| `gate_nested_fault` | MCSwitchGate | violated | | does the page fault handler read CR2 before all else? |
| `hooks_load_unload` | MCHooks | holds | 23 000 | are live calls served, is the kernel restored, whom does the unload catch, and does it end? |
| `pagetable_copy` | MCPageTableCopy | holds | 38 000 | does what the loops make translate as the original but for two exceptions, and do walks and copies leave translations alone? |
| `pagetable_all_mapped` | MCPageTableCopy | violated | | ... and without them? |

**Bounds and why they are enough.**

- *PageTag*: three VMs (an owner, a sharer and a newcomer) and frames 0, 1, 2
  in `inside`; `edge` has two VMs and a table of two frames on a machine of four,
  so frame 2 is `Num_pfn2` itself (admitted by the KVM handlers, refused by the
  KSM handler), frame 3 is beyond and frame 1 is common.  A merge needs two
  frames, a lost tag needs one.  VMs are symmetric.  The proofs lift these
  bounds.
- *PageTagLoad*: two VMs and frames 1 and 2, which can be merged; any number of
  loads and unloads.  The constraint `FrameZeroKept` keeps frame 0 (which no table
  tags, and `edge` covers) out of the VMs' memory.  The proofs lift all three.
- *PageTagRace*: three VCPUs of three VMs and two frames.  A bit is lost when
  one thread stores flags loaded before another's store; for the loss to show in
  a settled tag, two VMs must have finished while a third holds stale flags.  The
  constraint `RepeatsBound` has a fault on a frame that the VM's EPT maps already run
  alone or beside one other fault, not beside two.  The proofs lift it.
- *SwitchGate*: `Depth` bounds the nesting: three on one CPU (a gate in a gate in
  a gate, with two page tables and one fault address; which address CR2 holds
  matters to `gate_nested_fault` only, which has two).  The proofs lift it, and
  hold for any number of CPUs where the property does: the interrupt flag is each
  CPU's own.  `gate_two_cpus` has what two CPUs do to the globals.
- *Hooks*: two threads, one function whose handler sleeps and one whose handler
  does not; loads and unloads without bound.  All thirteen functions are patched.
  Deadlock is not checked here: a thread that has gone wild or is lost has
  stopped the machine.
- *PageTableCopy*: `K` = 2 entries a page, so that the pud and the pmd index
  coincide for some addresses and not for others, and the user and the kernel
  half have one pgd entry each.  The initial tables mix tables, 2 MB pages, one
  of them at physical address 0, a 1 GB page and a hole.  `MaxCopies` = 2 calls that
  copy: two deep copies, or one and an update of the user half.  `MaxEdits` = 1
  entry unmapped by the kernel, or one walk that wipes, anywhere in the sequence;
  `update_pagetable` and the other walks are not bounded.  The proofs lift `K` to any
  even number and have no other bound.

**The properties.**

- `PrivateIsExclusive`: a mapped frame without the shared bit is in one EPT, and
  its tag names that VM (or the hypervisor, if the balloon handlers gave it
  away).  `ImplementsIsolation` says it as a refinement: no private frame is
  granted twice and no shared bit disappears while the frame is mapped.
- `MappedIsUsed`: neither a reclaim nor a merge blanks the tag of a mapped frame.
- `HandoverUnmapped`: a private tag passes to a VM only while no other VM's EPT maps
  the frame.
- `TableBounds`: no KVM or KSM handler tags memory outside the array; none
  writes there if the array covers the machine.  `clean_page_modify` and the
  balloon handlers have no range test, so the second half needs its premise.
- `SeenIsExclusive`, `SeenIsUsed`, `SeenImplementsIsolation`: what is left of these
  promises when the module comes and goes, see PageTagLoad above.
- `SharedSettles`, `UsedSettles`, `OwnerSettles`: what holds of a frame no
  handler is working on, whatever was lost in between.  The merged bit can be
  lost; nothing reads it.
- `RaceImplementsIsolation`: what holds meanwhile.  It depends on
  `handle_pfn_modify` setting the shared bit before `handle_pfn_map` loads the flags
  to set the used bit; the or in `handle_pfn_map` alone, which looks sufficient,
  would not do (mutant `VerifyBlind`).
- `InterruptsKept`: from `popf` to `ret` interrupts are what they were before the gate,
  also where a user fault's body turned them on inside; only its second body, behind
  the gate, can turn them on again before `iret`.  `BodyMasked`: they are off in the gate
  of every page table update and every fault of the kernel itself, those that nest
  in a user fault's body with interrupts on included.  `OwnPageTable`: one CPU is
  always on the page table of its address space, up to a sleep inside the gate; from
  there to the next change of the address space it may be on another.
  `HandlersReturn`: gates unwind.
- `KernelRestored`, `LiveCallsServed`, `OnlySleepersLost`, `UnloadCompletes`: the
  hooks.
- `LoopsTranslate`: what the loops leave maps as the original does, with the same
  right to write, but for what `Lost` names: the pmd entry whose index equals that
  of its pud, if an entry behind it leads to a table too, and a large page at physical
  address 0, which `is_invalid` takes for unmapped.  These are losses the code has,
  not ones the property catches: `pagetable_all_mapped` shows the first.
- `ApartOrInSync`: after a deep copy
  the two tables share no page of the kernel half, after `update_pagetable` they
  agree and go on agreeing.  `OriginalKept`: a step that copies keeps every translation
  of the kernel's table and changes its entries at most by write bits, and by these
  only where `find` walks to a copy made for the first time.  `WalksKeepMappings`: the
  walks 3 to 6 change no translation in either table.

**Fairness.**  Two properties need it.  `HandlersReturn`: `FairSpec` of SwitchGate
is strong fairness of the gate's own steps, for each CPU and level of nesting.  A
CPU always retires the instruction it stands at; an interrupt or a fault in
between returns to it, interrupts do not arrive at a rate at which the
interrupted code never runs, and a body that sleeps wakes up.  `UnloadCompletes`: `FairSpec` of Hooks is weak
fairness of `my_init`, `my_exit` and the release (straight-line code of a process
that runs), and of each thread that runs in a hooked function (which does not
loop).  A thread asleep may sleep for ever.  Nothing else is fair: loads, calls,
interrupts and faults may or may not come.

**Mutants.**  Each property of each passing run is paired in `PROJECT.json` with
a plausible bug, an operator defined next to the one it replaces, that the
property catches (a test that admits pfn 0, flags assigned instead of or-ed,
`sti` without `popf`, a hook left out of `my_exit`, `flag_pud` for `flag_pmd`, a
page of ptes shared with the original, ...).

## 4. What is proved

TLAPS checks these for every value of the constants.  The assumptions are the
named `ASSUME`s of each module: owners are distinct values, sizes are positive
naturals; of the page tables, that a run starts with a kernel table whose entries
lead to pages of the next level (`KernelTables`), as the processor needs it.

| Module | Theorems | Constants |
|---|---|---|
| `PageTag_proofs` | `TypeCorrect`, `PrivateExclusive`, `MappedUsed`, `Handover`, `BoundsKept`, `Refinement` | any VMs, machine, table size, common frames |
| `FrameIsolation_proofs` | `IsolationHolds` | any VMs and frames |
| `PageTagLoad_proofs` | `LoadTypeCorrect`, `SeenExclusive`, `SeenUsed`, `SeenRefinement` | as `PageTag_proofs` |
| `PageTagRace_proofs` | `TypeCorrect`, `SharedAtRest`, `UsedAtRest`, `OwnerAtRest`, `Refinement` | any vcpus, VMs and frames |
| `SwitchGate_proofs` | `TypeCorrect`, `InterruptsAreKept`, `BodiesAreMasked` | any CPUs, page tables and depth |
| | `PageTableIsKept` | one CPU, any depth |
| `Hooks_proofs` | `TypeCorrect`, `CodeRestored`, `CallsServed`, `SleepersLost` | any threads, any functions called |
| `PageTableCopy_proofs` | `TypeCorrect`, `CopiesTranslate`, `ApartOrSync`, `OriginalUntouched`, `WalksKeep` | any even `K`, any number of copies and edits, any well formed kernel tables |
| `PageTableLoops_proofs` | `LoopsCompute`, `LoopsKeepTranslation` | as `PageTableCopy_proofs` |

**PageTag.**  The invariant is `IInv == TypeOK /\ HostSound /\ PrivateIsExclusive`.
`PrivateIsExclusive` alone is not inductive: that a fault adds a second holder
only to a KSM page, where `handle_pfn_map` sets the shared bit in the same step,
needs that the frames outside KSM back at most one VM (`HostSound`, which the
host's actions keep and the proof establishes).  `MappedIsUsed`, `TableBounds`
and `HandoverUnmapped` are proved on top of it.  `Refinement` maps each host
action to a `Withdraw` or `Grant` on every frame; `IsolationHolds` proves that the
abstract specification has the property it exists for.

**PageTagLoad.**  `LInv` adds to the host's soundness which hooks can be there in
which phase (`MapHookInPhase`, `CurFromOne`), that `since` holds entries of the
present EPTs only, and none while `handle_pfn_map` is not hooked (`SinceSound`).
With these `SeenIsExclusive` and `SeenIsUsed` are inductive: the handlers' effects
are those lemmas of `PageTag_proofs` state, and a step on one frame is lifted to the
table by `FrameStep`.

**PageTagRace.**  That a bit is set when a frame comes to rest says nothing of the
stores still on their way, so none of the three properties is inductive.  The
invariant follows the loaded copies.  On a KSM frame every fault begins with an
or of the shared bit (`handle_pfn_modify`), and from then on neither the tag nor
any copy loaded later lacks the bit (`SharedInv`); the used bit is never missing
from the tag or a copy of a frame that is held by KSM, because a page becomes a
KSM page only while nobody works on it (`UsedInv`).  On a private frame one fault
is at work at a time, and `OwnerInv` and `UsedInv` say from which of its steps on
the tag is right.  `WorkInv` and `HostInv` state what the references and locks of
the host give: no daemon on a frame under fault, one fault for each VM and frame.
`Refinement` needs the same facts at every step: each store of flags carries the
shared bit or stores back what is there, but for those of a daemon that has
unmapped the frame.

**SwitchGate.**  `FlagInv` says where the caller's interrupt flag is at every
moment: in the CPU (`TopFlag`), in what `pushf` saved (`SavedFlags`), and, for a
handler that something interrupted, in the `if0` of the handler above it
(`Resumes`).  `PgInv` says that, on one CPU, every level of nesting that has set
`pgd_addr_cp_gate` or `oldcr3` and not yet used it finds there the page table of the
current address space (`GateGlobals`): an inner gate stores what the outer one
had stored, which is why two globals suffice on one CPU and why they do not on
two (`gate_two_cpus`).  A sleep in a user fault's body ends this, and so `PgInv` holds
of the CPUs that have not `slept`.  In such a fault's bodies the CPU's flag is either
of the two (`Opens`, `HasFlag`); afterwards the one that counts is what `pushf` saved.

**Hooks.**  `CodeInPhase` says, for the point `my_init` or `my_exit` has reached,
which functions begin with their own bytes, which with the jump and which with
half of it, and that what was saved is the function's own code; it needs that the
two lists name the same functions and that no function is hooked twice
(`InstallsFacts`, `RestoresFacts`).  `ThreadSound` follows the threads through the
grace period: one that is not asleep has left the handlers when the text goes.

**PageTableCopy.**  The invariant is `IInv == TypeOK /\ Linked(mem) /\ InStep`.
`Linked` keeps the pages level by level: an entry that the code or the processor
follows leads to a page of the next level, the kernel's entries to the kernel's own
pages, and those of a new pud or pmd page to new pages.  It is what copies,
walks and wiped entries have in common (`CopyLinked`, `WeakerLinked`), and with it a
walk for one level cannot reach a page of another.  `InStep` says of the copy's
kernel half that it repeats the original's entries, write bits aside, after
`update_pagetable`, and leads to new pages before.  There is a third case, which
`ApartOrInSync` does not show: after `set_pgtable_prot2` has wiped the *original's*
kernel half a copy may share pages with what it was, and the two are apart because
the original has none left.
`CopiesTranslate` follows a walk through the copy and the original side by side: the
entries are alike, or both walks have ended.  Both cases of `Lost` are
used in the proof, and only there: the first where `LastStored` is the entry
itself, the second where an invalid pmd entry becomes `Null`.

**PageTableLoops.**  `LoopsCompute` is an induction over data, which the library's
theorems cannot give here (they take an operator as parameter).  It is had from two
facts: a set of numbers that is not empty has a least (`LeastExists`, from the well
foundedness of the naturals), so two functions that begin and go on alike are one
(`SameLoop`).  `At` is the memory when given entries are done; its values between the
iterations satisfy the loop's recursion (`StepPmd`, `StepPud`, `StepPgd`) and are
therefore the loop's own (`PmdLoopDone`, `PudLoopDone`, `PgdLoopDone`).
`LoopsKeepTranslation` follows from `LoopsCompute` and `CopiesTranslate`.

**Only model-checked.**  `HandlersReturn` and `UnloadCompletes`: liveness is outside
TLAPS's reach here.  The violated runs are counterexamples and need no proof.

## 5. Where code and documents part

Each of the first five is a run; the rest is noted only.

- `pagetag_untrusted`: `new_handle_pfn_modify` recognises a private frame of
  another VM and returns 0, as for every frame (`gate_function.h:1265`), so KVM
  goes on and maps it.  README.md:42 says such double mapping is hindered.
- `gate_exit_order`: `ENABLE_INT` comes before `writecr3(oldcr3)`; the figure of
  the gate has it after.
- `gate_two_cpus`: `oldcr3` is one global, so a CPU can leave the gate on another
  CPU's page table.
- `gate_nested_fault`: `new_do_page_fault` reads CR2, calls `printk` and only then the
  two `sdo_page_fault`, each of which reads CR2 anew; a fault in between replaces
  it.  The trace ends at the first of the two reads, inside the gate.
- `pagetable_all_mapped`: `copy_pg.h:211` stores a pmd entry at index `i2` where
  `i3` is meant.
- The gate loads the page table that is already in use (`pgd_addr_cp_gate` is set
  from `read_cr3()` on each entry); README.md:50 speaks of a new one.
- The paper has the entry address removed from the old page table;
  `clear_newpgd_addr` clears a local copy of the pte.
- A user fault on a kernel address runs with interrupts on inside the gate, and one
  that sleeps there leaves it on another address space's page table, even on one CPU
  (`OwnPageTable` holds up to there only).
- `set_pgtable_prot` and `set_pgtable_prot2` wipe the entries they mean to test.
- `make_rw` leaves the pages of hooked functions writable for good.

## 6. What is not modelled

- *VMCS monitor* beyond its hooks and the gate lines of `new_vmcs_readl`.  The
  filter compares an unsigned counter with zero (`count_vmcs_wr < 0`,
  `gate_function.h:607`) and is never entered; `vmcswriteflag` is written and read
  nowhere else.  What remains of each function is the one instruction of the
  function it replaces, and `value` reaches the caller in a register.
- *Gates of the control register writes* (`new_native_write_cr0` and the like): the
  gate of `SwitchGate` around another instruction, exported and hooked nowhere.
- *VM registry and EPT root monitor*: no hook leads to it.
- *`set_hook_*` functions without a caller* (some forty): the same body as those
  modelled.  `make_no_rw` and `make_invalid_addr` have no caller either.
- *What the entries hold that the gate's bodies write.*  They write twice, inside
  the gate and after it; a bit that the processor sets in between is lost
  (`gate_function.h:329`, listed as a hazard).  The model would need the
  processor's own table walks, and nothing in the repository says what should
  hold.
- *The kernel at work on its tables during a copy or a walk*, and mappings it adds
  between them: see PageTableCopy in section 2.
- *Output*: `printk`, the counters that decide what is printed (`pfnusedmark`,
  `KSMusedmark`), `printk_pgtable`, `new_clean_page_modify1` (which reports random
  numbers as released pages and changes nothing).
- *CR0/CR4 bits and model specific registers* `init_struct` sets: no handler of
  the thirteen reads them.
- *The host kernel*: external, see section 2.  `src/linux-4.4.1` is generated output
  of its build, most of the repository's lines and none of HyperMI's logic.

## 7. Plan

**Done**, in this order, the most important behaviour first: `PageTag`,
`FrameIsolation` and their proofs; `PageTagRace`; `SwitchGate` and its proofs;
`Hooks`; `PageTableCopy`; `PageTagLoad` and its proofs; liveness of the unload; the
proofs of `Hooks` and `PageTagRace`; `PageTableLoops` and the proofs about the page
tables.  Every safety property of a passing run is a theorem.

**Left**, of small worth next to what it takes:

- `PageTagLoad` at the grain of `PageTagRace`, with a hook set while a fault is
  between its two handlers.

## 8. Running it

    tlc -workers 2 -config MCPageTagInside.cfg MCPageTag
    tlapm PageTag_proofs.tla

Each run's module and `.cfg` are in `PROJECT.json`; bounds and model values are in
the `.cfg`, initial memories and symmetry sets in the `MC` modules.
