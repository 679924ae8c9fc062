------------------------------- MODULE Hooks -------------------------------
(***************************************************************************)
(* How secureVM.ko enters and leaves the kernel: my_init and my_exit of    *)
(* hookcr32.c, and the set_hook_* functions of set_hook.h, which patch the *)
(* entry of a kernel function with                                         *)
(*                                                                         *)
(*     mov $new_function, %rax;  jmp *%rax                                 *)
(*                                                                         *)
(* twelve bytes, written by a memcpy that the compiler turns into a store  *)
(* of eight bytes (Low) and one of four (High), while other CPUs call the  *)
(* function.  my_exit copies the saved bytes back, the kernel then waits   *)
(* for the running CPUs to pass through the scheduler and frees the module *)
(* with its handlers (delete_module, external).                            *)
(*                                                                         *)
(* A thread is in one hooked function at a time; the handlers themselves   *)
(* are SwitchGate and PageTag.                                             *)
(***************************************************************************)
EXTENDS Integers, Sequences

CONSTANTS
    Thread,
    Called     \* bound: the hooked functions that threads call in this run

\* What my_init hooks, in order, and what my_exit puts back, in order.
Installs == << "native_set_pte", "native_set_pmd", "do_page_fault",
               "vmcs_readl", "vmcs_writel", "vmcs_clear",
               "handle_pfn_modify", "handle_pfn_map",
               "clean_page_modify", "testforshrinkpage_modify",
               "ksm_page_modify", "inflate_page_modify", "deflate_page_modify" >>
\* Mutant: the second KVM hook forgotten on the way out.
RestoresShort == << "native_set_pte", "native_set_pmd", "do_page_fault",
               "vmcs_writel", "vmcs_readl", "vmcs_clear",
               "handle_pfn_modify",
               "ksm_page_modify", "clean_page_modify", "testforshrinkpage_modify",
               "inflate_page_modify", "deflate_page_modify" >>
Restores == << "native_set_pte", "native_set_pmd", "do_page_fault",
               "vmcs_writel", "vmcs_readl", "vmcs_clear",
               "handle_pfn_modify", "handle_pfn_map",
               "ksm_page_modify", "clean_page_modify", "testforshrinkpage_modify",
               "inflate_page_modify", "deflate_page_modify" >>

Hooked == {Installs[i] : i \in 1 .. Len(Installs)}

\* Of the handlers only the page fault's may sleep: __do_page_fault takes
\* mmap_sem and waits for pages.
Sleeps(f) == f = "do_page_fault"

Bytes == {"own", "jump", "zero"}
Code  == [low : Bytes, high : Bytes]
Own   == [low |-> "own", high |-> "own"]
Zero  == [low |-> "zero", high |-> "zero"]
Jump  == [low |-> "jump", high |-> "jump"]

ASSUME CalledAssumption == Called \subseteq Hooked

VARIABLES
    phase,      \* of the module: out, loading, live, unloading, waiting
    cur, stage, \* where my_init or my_exit is
    code,       \* the first twelve bytes of each function
    orig,       \* orig_code_*, zero when the module is loaded
    writable,   \* the functions whose page make_rw has made writable
    grace,      \* threads that must still pass through the scheduler
    pc, fn,     \* each thread, and the function it is in
    fresh       \* history: it entered since my_init last returned

module == <<phase, cur, stage, code, orig, writable, grace>>
thread == <<pc, fn, fresh>>
vars   == <<phase, cur, stage, code, orig, writable, grace, pc, fn, fresh>>

NoFn == "none"

Init ==
    /\ phase = "out" /\ cur = 0 /\ stage = "rw"
    /\ code = [f \in Hooked |-> Own]
    /\ orig = [f \in Hooked |-> Zero]
    /\ writable = {}
    /\ grace = {}
    /\ pc = [t \in Thread |-> "out"]
    /\ fn = [t \in Thread |-> NoFn]
    /\ fresh = [t \in Thread |-> FALSE]

-----------------------------------------------------------------------------
(* my_init and the set_hook functions.                                     *)

\* insmod: the module's buffers start as zeros.
Insmod ==
    /\ phase = "out"
    /\ phase' = "loading" /\ cur' = 1 /\ stage' = "rw"
    /\ orig' = [f \in Hooked |-> Zero]
    /\ UNCHANGED <<code, writable, grace, thread>>

Patching(f, s) ==
    /\ phase = "loading" /\ stage = s
    /\ cur <= Len(Installs) /\ Installs[cur] = f

MakeRw(f) ==
    /\ Patching(f, "rw")
    /\ writable' = writable \cup {f}
    /\ stage' = "save"
    /\ UNCHANGED <<phase, cur, code, orig, grace, thread>>

\* Mutant: the jump written before the bytes it replaces are saved.
SaveOrigLate(f) ==
    /\ Patching(f, "save")
    /\ orig' = [orig EXCEPT ![f] = [code[f] EXCEPT !.low = "jump"]]
    /\ stage' = "low"
    /\ UNCHANGED <<phase, cur, code, writable, grace, thread>>

SaveOrig(f) ==
    /\ Patching(f, "save")
    /\ orig' = [orig EXCEPT ![f] = code[f]]
    /\ stage' = "low"
    /\ UNCHANGED <<phase, cur, code, writable, grace, thread>>

PatchLow(f) ==
    /\ Patching(f, "low") /\ f \in writable
    /\ code' = [code EXCEPT ![f].low = "jump"]
    /\ stage' = "high"
    /\ UNCHANGED <<phase, cur, orig, writable, grace, thread>>

\* Mutant: sizeof of a pointer, so that eight bytes are copied.
PatchHighLost(f) ==
    /\ Patching(f, "high") /\ f \in writable
    /\ stage' = "rw" /\ cur' = cur + 1
    /\ UNCHANGED <<phase, code, orig, writable, grace, thread>>

PatchHigh(f) ==
    /\ Patching(f, "high") /\ f \in writable
    /\ code' = [code EXCEPT ![f].high = "jump"]
    /\ stage' = "rw" /\ cur' = cur + 1
    /\ UNCHANGED <<phase, orig, writable, grace, thread>>

SetHook(f) == MakeRw(f) \/ SaveOrig(f) \/ PatchLow(f) \/ PatchHigh(f)

SetHookPte       == SetHook("native_set_pte")
SetHookPmd       == SetHook("native_set_pmd")
SetHookPagefault == SetHook("do_page_fault")
SetHookReadl     == SetHook("vmcs_readl")
SetHookWritel    == SetHook("vmcs_writel")
SetHookClear     == SetHook("vmcs_clear")
SetHookPfnModify == SetHook("handle_pfn_modify")
SetHookPfnMap    == SetHook("handle_pfn_map")
SetHookClean     == SetHook("clean_page_modify")
SetHookShrink    == SetHook("testforshrinkpage_modify")
SetHookKsm       == SetHook("ksm_page_modify")
SetHookInflate   == SetHook("inflate_page_modify")
SetHookDeflate   == SetHook("deflate_page_modify")

InitReturns ==
    /\ phase = "loading" /\ cur > Len(Installs)
    /\ phase' = "live" /\ cur' = 0
    /\ UNCHANGED <<stage, code, orig, writable, grace, thread>>

-----------------------------------------------------------------------------
(* my_exit, and the kernel's release of the module.                        *)

\* Mutant: one buffer past the last saved one written back.
RmmodTwice ==
    /\ phase = "live"
    /\ phase' = "unloading" /\ cur' = Len(Restores) + 2 /\ stage' = "low"
    /\ fresh' = [t \in Thread |-> FALSE]
    /\ UNCHANGED <<code, orig, writable, grace, pc, fn>>

Rmmod ==
    /\ phase = "live"
    /\ phase' = "unloading" /\ cur' = 1 /\ stage' = "low"
    /\ fresh' = [t \in Thread |-> FALSE]
    /\ UNCHANGED <<code, orig, writable, grace, pc, fn>>

RestoreLow ==
    /\ phase = "unloading" /\ stage = "low" /\ cur <= Len(Restores)
    /\ LET f == Restores[cur] IN code' = [code EXCEPT ![f].low = orig[f].low]
    /\ stage' = "high"
    /\ UNCHANGED <<phase, cur, orig, writable, grace, thread>>

RestoreHigh ==
    /\ phase = "unloading" /\ stage = "high"
    /\ LET f == Restores[cur] IN code' = [code EXCEPT ![f].high = orig[f].high]
    /\ stage' = "low" /\ cur' = cur + 1
    /\ UNCHANGED <<phase, orig, writable, grace, thread>>

Running == {"entry", "prologue", "jmp", "original", "handler"}

\* Mutant: a wait for everyone who is in a handler, asleep or not.
ExitReturnsAll ==
    /\ phase = "unloading" /\ cur > Len(Restores)
    /\ phase' = "waiting" /\ cur' = 0 /\ stage' = "rw"
    /\ grace' = {t \in Thread : pc[t] \in Running \cup {"asleep"}}
    /\ UNCHANGED <<code, orig, writable, thread>>

\* my_exit returns; synchronize_sched starts to wait for those now running.
ExitReturns ==
    /\ phase = "unloading" /\ cur > Len(Restores)
    /\ phase' = "waiting" /\ cur' = 0 /\ stage' = "rw"
    /\ grace' = {t \in Thread : pc[t] \in Running}
    /\ UNCHANGED <<code, orig, writable, thread>>

\* The module's text is gone, and with it whoever is in it or returns to it.
FreeModule ==
    /\ phase = "waiting" /\ grace = {}
    /\ phase' = "out"
    /\ pc' = [t \in Thread |-> IF pc[t] \in {"handler", "asleep"} THEN "lost" ELSE pc[t]]
    /\ UNCHANGED <<cur, stage, code, orig, writable, grace, fn, fresh>>

-----------------------------------------------------------------------------
(* Threads.                                                                *)

Becomes(t, from, to) ==
    /\ pc[t] = from /\ pc' = [pc EXCEPT ![t] = to]
    /\ UNCHANGED <<fn, fresh>>

Call(t, f) ==
    /\ pc[t] = "out"
    /\ pc' = [pc EXCEPT ![t] = "entry"]
    /\ fn' = [fn EXCEPT ![t] = f]
    /\ fresh' = [fresh EXCEPT ![t] = (phase = "live")]
    /\ UNCHANGED module

\* The first instruction: the function's own, or the mov, which spans both
\* stores and loads a wrong address if one is missing.
Fetch(t) ==
    /\ LET c == code[fn[t]] IN
       Becomes(t, "entry", CASE c.low = "own" -> "prologue"
                             [] c = Jump      -> "jmp"
                             [] OTHER         -> "wild")
    /\ UNCHANGED module

\* The rest of the twelve bytes, all there as they were, ...
PrologueRuns(t) ==
    /\ Becomes(t, "prologue", "original")
    /\ code[fn[t]].high = "own"
    /\ UNCHANGED module

\* ... or changed under the thread, wherever it is among them.
PrologueBreaks(t) ==
    /\ Becomes(t, "prologue", "wild")
    /\ code[fn[t]] # Own
    /\ UNCHANGED module

\* The jmp, which is in the second store; the module may be gone by then.
JmpTaken(t) ==
    /\ Becomes(t, "jmp", CASE code[fn[t]].high # "jump" -> "wild"
                           [] phase = "out"             -> "lost"
                           [] OTHER                     -> "handler")
    /\ UNCHANGED module

Sleep(t) ==
    /\ Sleeps(fn[t])
    /\ Becomes(t, "handler", "asleep")
    /\ grace' = grace \ {t}
    /\ UNCHANGED <<phase, cur, stage, code, orig, writable>>

Wake(t) == Becomes(t, "asleep", "handler") /\ UNCHANGED module

\* The function returns, and the thread meets the scheduler sooner or later.
Leave(t) ==
    /\ pc[t] \in {"original", "handler"}
    /\ pc' = [pc EXCEPT ![t] = "out"]
    /\ fn' = [fn EXCEPT ![t] = NoFn]
    /\ fresh' = [fresh EXCEPT ![t] = FALSE]
    /\ grace' = grace \ {t}
    /\ UNCHANGED <<phase, cur, stage, code, orig, writable>>

LoadStep ==
    \/ Insmod
    \/ SetHookPte \/ SetHookPmd \/ SetHookPagefault
    \/ SetHookReadl \/ SetHookWritel \/ SetHookClear
    \/ SetHookPfnModify \/ SetHookPfnMap \/ SetHookClean \/ SetHookShrink
    \/ SetHookKsm \/ SetHookInflate \/ SetHookDeflate
    \/ InitReturns
UnloadStep == Rmmod \/ RestoreLow \/ RestoreHigh \/ ExitReturns \/ FreeModule
ThreadStep(t) ==
    \/ \E f \in Called : Call(t, f)
    \/ Fetch(t) \/ PrologueRuns(t) \/ PrologueBreaks(t) \/ JmpTaken(t)
    \/ Sleep(t) \/ Wake(t) \/ Leave(t)

Next == LoadStep \/ UnloadStep \/ \E t \in Thread : ThreadStep(t)

Spec == Init /\ [][Next]_vars

\* insmod and rmmod run to their end, and a thread that runs goes on running:
\* hooked functions do not loop.  A thread that sleeps may sleep for ever, and
\* nobody has to load the module, unload it or call anything.
ModuleRuns == (LoadStep /\ ~Insmod) \/ (UnloadStep /\ ~Rmmod)
ThreadRuns(t) ==
    Fetch(t) \/ PrologueRuns(t) \/ PrologueBreaks(t) \/ JmpTaken(t) \/ Leave(t)

FairSpec ==
    /\ Spec
    /\ WF_vars(ModuleRuns)
    /\ \A t \in Thread : WF_vars(ThreadRuns(t))

-----------------------------------------------------------------------------
(* What loading and unloading promise.                                     *)

TypeOK ==
    /\ phase \in {"out", "loading", "live", "unloading", "waiting"}
    /\ cur \in 0 .. Len(Installs) + 1
    /\ stage \in {"rw", "save", "low", "high"}
    /\ code \in [Hooked -> Code]
    /\ orig \in [Hooked -> Code]
    /\ writable \subseteq Hooked
    /\ grace \subseteq Thread
    /\ pc \in [Thread -> Running \cup {"out", "asleep", "wild", "lost"}]
    /\ fn \in [Thread -> Called \cup {NoFn}]
    /\ fresh \in [Thread -> BOOLEAN]

\* Once the module is gone, every kernel function is byte for byte its own
\* again, however often it was loaded (set_hook_*, my_exit): each hook saves
\* before it patches, each is restored, and none from another load's bytes.
KernelRestored == phase \in {"out", "waiting"} => \A f \in Hooked : code[f] = Own

\* From insmod's return to rmmod a call of a hooked function reaches its
\* handler, and nothing else.
LiveCallsServed ==
    \A t \in Thread : fresh[t] => pc[t] \in {"entry", "jmp", "handler", "asleep"}

\* The kernel's wait covers every handler that does not sleep: whoever the
\* release of the module catches in its text, or on the way there, is in the
\* page fault handler.
OnlySleepersLost == \A t \in Thread : pc[t] = "lost" => Sleeps(fn[t])

\* rmmod ends (my_exit, delete_module), unless a thread was caught in half a
\* hook: threads that sleep in the page fault handler, for ever perhaps, do
\* not hold it up, and those that run on through the patched functions leave.
UnloadCompletes ==
    phase = "unloading" ~> (phase = "out" \/ \E t \in Thread : pc[t] = "wild")

=============================================================================
