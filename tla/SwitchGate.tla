----------------------------- MODULE SwitchGate -----------------------------
(***************************************************************************)
(* The switch gate of gate_function.h: the sequence every gated handler    *)
(* runs around its body.                                                   *)
(*                                                                         *)
(*     pgd_addr_cp_gate = __va(read_cr3());    setPgd                      *)
(*     oldcr3 = read_cr3();                    setOld                      *)
(*     DISABLE_INT_FIRST();                    cli     pushf; cli          *)
(*     writecr3(__pa(pgd_addr_cp_gate));       enter   (then flush, cli)   *)
(*     ... body ...                            body                        *)
(*     ENABLE_INT();                           sti     sti; popf           *)
(*     writecr3(oldcr3);                       exit                        *)
(*     ... body again, for some handlers ...   tail                        *)
(*                                                                         *)
(* pgd_addr_cp_gate and oldcr3 are globals of the module, shared by every  *)
(* CPU and every level of nesting.  The sti takes effect after the popf    *)
(* that follows it, so the two are one step.                               *)
(*                                                                         *)
(* A CPU runs a stack of handlers: interrupts, kernel page faults and the  *)
(* page fault body's own page table updates enter the gate again.          *)
(*                                                                         *)
(* A page fault on a kernel address takes the gate whoever caused it.  If  *)
(* user code did, __do_page_fault turns interrupts on and may sleep.  The  *)
(* stack is then a task's: while it sleeps others have the CPU, and it is  *)
(* assumed to wake up on the CPU it slept on.                              *)
(***************************************************************************)
EXTENDS Integers

CONSTANTS
    Cpu,
    Mm,        \* address spaces, each named by its page table (cr3 value)
    NoMm,
    Addr,      \* kernel addresses that can fault
    NoAddr,
    Fault,     \* whose page faults: of the kernel ("trap"), of user code ("user")
    Depth      \* bound: handlers nested on one CPU

ASSUME DepthAssumption == Depth \in Nat \ {0}
ASSUME AddrAssumption  == NoAddr \notin Addr
ASSUME MmAssumption    == NoMm \notin Mm
ASSUME FaultAssumption == Fault \subseteq {"trap", "user"}

Level   == 1 .. Depth
\* The handlers my_init installs that take the gate, or its first two lines.
Writer  == {"set_pte", "set_pmd"}
Handler == Writer \cup {"do_page_fault", "vmcs_readl"}
Pc      == {"none", "setPgd", "setOld", "cli", "enter", "body", "body2",
            "sti", "exit", "tail", "tail2", "return"}
Inside  == {"body", "body2", "sti", "exit"}      \* the gate's page table is on
Masked  == {"enter", "body", "body2", "sti"}     \* from cli to popf
First   == {"body", "body2"}     \* the body in the gate, and the one after it
Second  == {"tail", "tail2"}
Entry   == {"call", "trap", "user"}
Frame   == [who : Handler, pc : Pc, entry : Entry,
            if0 : BOOLEAN,          \* interrupts enabled when it was entered
            flags : BOOLEAN,        \* what pushf saved
            pgd : Mm \cup {NoMm},    \* pgd_addr_cp_gate as this handler set it
            fault : Addr \cup {NoAddr}]
NoFrame == [who |-> "set_pte", pc |-> "none", entry |-> "call",
            if0 |-> FALSE, flags |-> FALSE, pgd |-> NoMm, fault |-> NoAddr]

VARIABLES
    pgdGate,    \* pgd_addr_cp_gate
    oldcr3,
    cr3, cr2,   \* registers of each CPU
    ifl,        \* its interrupt flag
    mm,         \* the address space the scheduler put it on
    lvl,        \* how many handlers it is in
    frame,      \* and where in each
    slept       \* history: a body slept in the gate, and the CPU has not
                \* changed its address space since

globals == <<pgdGate, oldcr3>>
vars    == <<pgdGate, oldcr3, cr3, cr2, ifl, mm, lvl, frame, slept>>

Init ==
    /\ pgdGate \in Mm /\ oldcr3 \in Mm        \* whatever sec_monitor_test left
    /\ mm \in [Cpu -> Mm]
    /\ cr3 = mm
    /\ cr2 = [c \in Cpu |-> NoAddr]
    /\ ifl = [c \in Cpu |-> TRUE]
    /\ lvl = [c \in Cpu |-> 0]
    /\ frame = [c \in Cpu |-> [l \in Level |-> NoFrame]]
    /\ slept = [c \in Cpu |-> FALSE]

Top(c)      == frame[c][lvl[c]]
At(c, where) == lvl[c] > 0 /\ Top(c).pc = where
Goto(c, to) == frame' = [frame EXCEPT ![c][lvl[c]].pc = to]

-----------------------------------------------------------------------------
(* Entering a handler.                                                     *)

Enter(c, who, how, a) ==
    /\ lvl[c] < Depth
    /\ lvl' = [lvl EXCEPT ![c] = @ + 1]
    /\ frame' = [frame EXCEPT ![c] =
          [l \in Level |->
             IF l = lvl[c] + 1
             THEN [who |-> who, pc |-> "setPgd", entry |-> how, if0 |-> ifl[c],
                   flags |-> FALSE, pgd |-> NoMm, fault |-> a]
             ELSE IF l = lvl[c] /\ @[l].pc = "body" /\ how = "call"
                  THEN [@[l] EXCEPT !.pc = "body2"]
             ELSE IF l = lvl[c] /\ @[l].pc = "tail" /\ how = "call"
                  THEN [@[l] EXCEPT !.pc = "tail2"]
             ELSE @[l]]]

\* Kernel code calls a hooked function, interrupts on or off.
Call(c, who) ==
    /\ lvl[c] = 0
    /\ Enter(c, who, "call", NoAddr)
    /\ UNCHANGED <<globals, cr3, cr2, ifl, mm, slept>>

\* new_native_set_pte, new_native_set_pmd, new_vmcs_readl.
CallSetPte(c) == Call(c, "set_pte")
CallSetPmd(c) == Call(c, "set_pmd")
CallReadl(c)  == Call(c, "vmcs_readl")

\* The page fault body updates page tables (vmalloc_fault), once a run here.
BodyCall(c, who) ==
    /\ At(c, "body") \/ At(c, "tail")
    /\ Top(c).who = "do_page_fault"
    /\ who \in Writer
    /\ Enter(c, who, "call", NoAddr)
    /\ UNCHANGED <<globals, cr3, cr2, ifl, mm, slept>>

\* An interrupt whose handler calls a hooked function.
Interrupt(c, who) ==
    /\ ifl[c]
    /\ who \in Writer
    /\ Enter(c, who, "trap", NoAddr)
    /\ ifl' = [ifl EXCEPT ![c] = FALSE]
    /\ UNCHANGED <<globals, cr3, cr2, mm, slept>>

\* new_do_page_fault on a kernel address: the trap turns interrupts off and
\* leaves the address in cr2.  Kernel code can fault anywhere, user code runs
\* outside every handler and with interrupts on.  The test of error_code that
\* would keep user code out of the gate is commented out.  (A user address
\* bypasses the gate.)
PageFault(c, how, a) ==
    /\ how = "user" => lvl[c] = 0 /\ ifl[c]
    /\ Enter(c, "do_page_fault", how, a)
    /\ cr2' = [cr2 EXCEPT ![c] = a]
    /\ ifl' = [ifl EXCEPT ![c] = FALSE]
    /\ UNCHANGED <<globals, cr3, mm, slept>>

-----------------------------------------------------------------------------
(* The gate.                                                               *)

\* Mutant: read_cr2 for read_cr3.
SetPgdCr2(c) ==
    /\ At(c, "setPgd")
    /\ pgdGate' = cr2[c]
    /\ Goto(c, "setOld")
    /\ UNCHANGED <<oldcr3, cr3, cr2, ifl, mm, lvl, slept>>

SetPgd(c) ==
    /\ At(c, "setPgd")
    /\ pgdGate' = cr3[c]
    /\ frame' = [frame EXCEPT ![c][lvl[c]].pc = "setOld",
                              ![c][lvl[c]].pgd = cr3[c]]
    /\ UNCHANGED <<oldcr3, cr3, cr2, ifl, mm, lvl, slept>>

\* Mutant: oldcr3 keeps what sec_monitor_test left in it.
SetOldOnce(c) ==
    /\ At(c, "setOld")
    /\ Goto(c, IF Top(c).who = "vmcs_readl" THEN "return" ELSE "cli")
    /\ UNCHANGED <<globals, cr3, cr2, ifl, mm, lvl, slept>>

\* vmcs_readl has the rest of its gate commented out.
SetOld(c) ==
    /\ At(c, "setOld")
    /\ oldcr3' = cr3[c]
    /\ Goto(c, IF Top(c).who = "vmcs_readl" THEN "return" ELSE "cli")
    /\ UNCHANGED <<pgdGate, cr3, cr2, ifl, mm, lvl, slept>>

\* DISABLE_INT_FIRST: pushf; cli.
DisableIntFirst(c) ==
    /\ At(c, "cli")
    /\ frame' = [frame EXCEPT ![c][lvl[c]].pc = "enter",
                              ![c][lvl[c]].flags = ifl[c]]
    /\ ifl' = [ifl EXCEPT ![c] = FALSE]
    /\ UNCHANGED <<globals, cr3, cr2, mm, lvl, slept>>

\* Mutant: the page table switched with the interrupts let in again.
EnterWorldOpen(c) ==
    /\ At(c, "enter")
    /\ cr3' = [cr3 EXCEPT ![c] = pgdGate]
    /\ ifl' = [ifl EXCEPT ![c] = Top(c).flags]
    /\ Goto(c, "body")
    /\ UNCHANGED <<globals, cr2, mm, lvl, slept>>

\* writecr3(__pa(pgd_addr_cp_gate)); DISABLE_INT_SECOND is a second cli.  No
\* barrier stands between the assignment and this use, so the compiler may load
\* the global or use the value the handler assigned.  (oldcr3 is used behind the
\* barrier of __flush_tlb_all, and loaded.)
EnterWorld(c) ==
    /\ At(c, "enter")
    /\ \E pgd \in {pgdGate, Top(c).pgd} \cap Mm : cr3' = [cr3 EXCEPT ![c] = pgd]
    /\ ifl' = [ifl EXCEPT ![c] = FALSE]
    /\ Goto(c, "body")
    /\ UNCHANGED <<globals, cr2, mm, lvl, slept>>

\* snative_set_pte, snative_set_pmd or sdo_page_fault ends.
Body(c) ==
    /\ At(c, "body") \/ At(c, "body2")
    /\ Goto(c, "sti")
    /\ UNCHANGED <<globals, cr3, cr2, ifl, mm, lvl, slept>>

\* local_irq_enable, in the __do_page_fault of either body, if user code faulted
\* (bad area, emulation of a vsyscall).
InUserBody(c) == lvl[c] > 0 /\ Top(c).entry = "user" /\ Top(c).pc \in First \cup Second
LocalIrqEnable(c) ==
    /\ InUserBody(c) /\ ~ifl[c]
    /\ ifl' = [ifl EXCEPT ![c] = TRUE]
    /\ UNCHANGED <<globals, cr3, cr2, mm, lvl, frame, slept>>

\* Then it may sleep (the emulation touches user memory).  Others run, take the
\* gate and fault; the scheduler comes back with the task's own page table.
Sleep(c) ==
    /\ lvl[c] = 1 /\ InUserBody(c) /\ ifl[c]
    /\ pgdGate' \in Mm /\ oldcr3' \in Mm
    /\ \E a \in Addr : cr2' = [cr2 EXCEPT ![c] = a]
    /\ cr3' = [cr3 EXCEPT ![c] = mm[c]]
    /\ slept' = [slept EXCEPT ![c] = @ \/ Top(c).pc \in First]
    /\ UNCHANGED <<ifl, mm, lvl, frame>>

\* Mutant: sti alone, which a masked caller does not survive.
EnableIntAlways(c) ==
    /\ At(c, "sti")
    /\ ifl' = [ifl EXCEPT ![c] = TRUE]
    /\ Goto(c, "exit")
    /\ UNCHANGED <<globals, cr3, cr2, mm, lvl, slept>>

\* ENABLE_INT: sti; popf.
EnableInt(c) ==
    /\ At(c, "sti")
    /\ ifl' = [ifl EXCEPT ![c] = Top(c).flags]
    /\ Goto(c, "exit")
    /\ UNCHANGED <<globals, cr3, cr2, mm, lvl, slept>>

\* writecr3(oldcr3).
ExitWorld(c) ==
    /\ At(c, "exit")
    /\ cr3' = [cr3 EXCEPT ![c] = oldcr3]
    /\ Goto(c, "tail")
    /\ UNCHANGED <<globals, cr2, ifl, mm, lvl, slept>>

\* Mutant: the second write calls the hooked function, and so the gate.
TailHooked(c) ==
    /\ At(c, "tail") \/ At(c, "tail2")
    /\ Goto(c, "setPgd")
    /\ UNCHANGED <<globals, cr3, cr2, ifl, mm, lvl, slept>>

\* The second snative_set_pte / snative_set_pmd / sdo_page_fault ends.
Tail(c) ==
    /\ At(c, "tail") \/ At(c, "tail2")
    /\ Goto(c, "return")
    /\ UNCHANGED <<globals, cr3, cr2, ifl, mm, lvl, slept>>

\* ret, or iret, which restores the flag the trap found.
Return(c) ==
    /\ At(c, "return")
    /\ ifl' = [ifl EXCEPT ![c] = IF Top(c).entry = "call" THEN @ ELSE Top(c).if0]
    /\ lvl' = [lvl EXCEPT ![c] = @ - 1]
    /\ frame' = [frame EXCEPT ![c][lvl[c]] = NoFrame]
    /\ UNCHANGED <<globals, cr3, cr2, mm, slept>>

-----------------------------------------------------------------------------
(* The rest of the kernel on that CPU.                                     *)

\* The scheduler.  The kernel is not preemptible, so it runs outside every
\* handler but for one that sleeps (Sleep).
SwitchMm(c, m) ==
    /\ lvl[c] = 0 /\ ifl[c]
    /\ m # mm[c]
    /\ mm' = [mm EXCEPT ![c] = m]
    /\ cr3' = [cr3 EXCEPT ![c] = m]
    /\ slept' = [slept EXCEPT ![c] = FALSE]
    /\ UNCHANGED <<globals, cr2, ifl, lvl, frame>>

\* Kernel code masks and unmasks interrupts for itself.
CallerMasks(c) ==
    /\ lvl[c] = 0
    /\ ifl' = [ifl EXCEPT ![c] = ~@]
    /\ UNCHANGED <<globals, cr3, cr2, mm, lvl, frame, slept>>

Step(c) ==
    \/ SetPgd(c) \/ SetOld(c) \/ DisableIntFirst(c) \/ EnterWorld(c) \/ Body(c)
    \/ EnableInt(c) \/ ExitWorld(c) \/ Tail(c) \/ Return(c)

Next == \E c \in Cpu :
    \/ Step(c)
    \/ CallSetPte(c) \/ CallSetPmd(c) \/ CallReadl(c)
    \/ \E who \in Writer : BodyCall(c, who) \/ Interrupt(c, who)
    \/ \E how \in Fault, a \in Addr : PageFault(c, how, a)
    \/ LocalIrqEnable(c) \/ Sleep(c)
    \/ \E m \in Mm : SwitchMm(c, m)
    \/ CallerMasks(c)

Spec == Init /\ [][Next]_vars

\* A CPU executes the instruction it stands at, sooner or later, on every
\* level of nesting: interrupts and faults return to it and do not recur at one
\* instruction for ever, nor does a body sleep for ever.
FairSpec == Spec /\ \A c \in Cpu, l \in Level : SF_vars(lvl[c] = l /\ Step(c))

-----------------------------------------------------------------------------
(* What the gate promises.                                                 *)

TypeOK ==
    /\ pgdGate \in Mm /\ oldcr3 \in Mm
    /\ cr3 \in [Cpu -> Mm] /\ mm \in [Cpu -> Mm]
    /\ cr2 \in [Cpu -> Addr \cup {NoAddr}]
    /\ ifl \in [Cpu -> BOOLEAN]
    /\ lvl \in [Cpu -> 0 .. Depth]
    /\ frame \in [Cpu -> [Level -> Frame]]
    /\ slept \in [Cpu -> BOOLEAN]

\* Interrupts as the handler's own code finds them: the caller's, or off.
OwnFlag(f) == f.entry = "call" /\ f.if0

\* From popf to ret, interrupts are what they were before the gate, on every
\* CPU and level of nesting (DISABLE_INT_FIRST, ENABLE_INT): no nested gate
\* leaves them on behind a caller that had them off, or off behind one that had
\* them on.  What the first body of a user fault turned on, popf turns off; what
\* the second turns on stays on up to iret.
InterruptsKept ==
    \A c \in Cpu : lvl[c] > 0 /\ Top(c).pc \in {"exit", "tail", "tail2", "return"}
        => \/ ifl[c] = OwnFlag(Top(c))
           \/ Top(c).entry = "user" /\ Top(c).pc # "exit"

\* Interrupts are off in the gate of a page table update and of the kernel's own
\* faults, up to popf, whatever nests in it and whatever it is nested in: also
\* where a user fault's body, which turns them on, is what calls the update.
BodyMasked ==
    \A c \in Cpu : lvl[c] > 0 /\ Top(c).pc \in Masked /\ Top(c).entry # "user"
        => ~ifl[c]

\* A CPU always runs on the page table of the address space the scheduler put
\* it on (writecr3(oldcr3)).  True of one CPU, nested gates included, until a
\* user fault sleeps in the gate: its writecr3(oldcr3) loads what the others
\* left, and only the next change of the address space puts that right.
OwnPageTable == \A c \in Cpu : ~slept[c] => cr3[c] = mm[c]

\* Every handler returns: gates nested by interrupts, faults and the page
\* fault body always unwind (the second body runs outside the hooked function).
HandlersReturn == \A c \in Cpu : lvl[c] > 0 ~> lvl[c] = 0

-----------------------------------------------------------------------------
(* What documents and comments say of it, and the code does not do.        *)

\* README.md:46, the figure of the gate: "Exit gate: 1 flush TLB 2 write cr3
\* 3 set interrupt".  So interrupts are off all the time the gate's page table
\* is on.
MaskedInside ==
    \A c \in Cpu : lvl[c] > 0 /\ Top(c).pc \in Inside => ~ifl[c]

\* The same figure, "5 jump to normal world", and the paper's section III-D:
\* "the control flow returns to the normal world".  So a CPU outside every
\* handler is on the page table it came from.
ReturnsToNormalWorld == \A c \in Cpu : lvl[c] = 0 => cr3[c] = mm[c]

\* native_gate_function.h:48: "We must [...] call read_cr2() before calling
\* anything else", lest a nested fault replace it.  So the address each of the
\* two sdo_page_fault reads is the one the kernel's fault was taken for.
HandlesItsOwnFault ==
    \A c \in Cpu : (At(c, "body") \/ At(c, "tail")) /\ Top(c).who = "do_page_fault"
        /\ Top(c).entry = "trap"
        => cr2[c] = Top(c).fault

=============================================================================
