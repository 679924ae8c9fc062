---------------------------- MODULE PageTagLoad ----------------------------
(***************************************************************************)
(* PageTag under a module that comes and goes: my_init hooks the six page  *)
(* tag handlers one after the other while VMs run and map memory, my_exit  *)
(* takes them back one after the other, and with the module goes its       *)
(* table, which is zero again at the next load.  In a function that is not *)
(* hooked the host's own body runs, which has no table to touch.           *)
(*                                                                         *)
(* A frame mapped before the load has a blank tag, and nothing in my_init  *)
(* looks for such frames.  The model says what the tags are worth then:    *)
(* they speak for the entries made since handle_pfn_map was hooked.        *)
(***************************************************************************)
EXTENDS PageTag, Sequences

\* The hooks of the table in my_init's order.
Installs == << "handle_pfn_modify", "handle_pfn_map", "clean_page_modify",
               "ksm_page_modify", "inflate_page_modify", "deflate_page_modify" >>

\* Mutant: the second KVM hook forgotten on the way out.
RestoresShort == << "handle_pfn_modify", "ksm_page_modify", "clean_page_modify",
                    "inflate_page_modify", "deflate_page_modify" >>

\* And in my_exit's.
Restores == << "handle_pfn_modify", "handle_pfn_map", "ksm_page_modify",
               "clean_page_modify", "inflate_page_modify", "deflate_page_modify" >>

Hook == {Installs[i] : i \in 1 .. Len(Installs)}

VARIABLES
    phase,      \* of the module: out, loading, live, unloading
    cur,        \* the hook that my_init or my_exit is at
    hooked,     \* the functions that lead to their handlers
    since       \* history: the EPT entries made since handle_pfn_map is hooked

module   == <<phase, cur, hooked>>
loadVars == <<pageflag, live, back, ept, ksm, balloon, phase, cur, hooked, since>>

NewTable == [p \in Slot |-> IF p \in Tracked THEN Blank ELSE Outside]
Unseen   == [p \in Frame |-> {}]

LoadInit ==
    /\ Init
    /\ phase = "out" /\ cur = 0 /\ hooked = {}
    /\ since = Unseen

-----------------------------------------------------------------------------
(* The module.                                                             *)

Insmod ==
    /\ phase = "out"
    /\ phase' = "loading" /\ cur' = 1
    /\ pageflag' = NewTable
    /\ UNCHANGED <<hostVars, hooked, since>>

\* One set_hook_* of my_init.
SetHook ==
    /\ phase = "loading" /\ cur <= Len(Installs)
    /\ hooked' = hooked \cup {Installs[cur]}
    /\ cur' = cur + 1
    /\ UNCHANGED <<pageflag, hostVars, phase, since>>

InitReturns ==
    /\ phase = "loading" /\ cur > Len(Installs)
    /\ phase' = "live" /\ cur' = 0
    /\ UNCHANGED <<pageflag, hostVars, hooked, since>>

Rmmod ==
    /\ phase = "live"
    /\ phase' = "unloading" /\ cur' = 1
    /\ UNCHANGED <<pageflag, hostVars, hooked, since>>

\* One memcpy of my_exit.
Restore ==
    /\ phase = "unloading" /\ cur <= Len(Restores)
    /\ hooked' = hooked \ {Restores[cur]}
    /\ cur' = cur + 1
    /\ since' = IF "handle_pfn_map" \in hooked' THEN since ELSE Unseen
    /\ UNCHANGED <<pageflag, hostVars, phase>>

\* The module is freed, and its table with it.
ExitReturns ==
    /\ phase = "unloading" /\ cur > Len(Restores)
    /\ phase' = "out" /\ cur' = 0
    /\ pageflag' = NewTable
    /\ UNCHANGED <<hostVars, hooked, since>>

-----------------------------------------------------------------------------
(* The host's steps, each through the hooks that are there.                *)

\* The table after a call of f, with the handler's result or untouched.
Through(f, t, new) == IF f \in hooked THEN new ELSE t

\* What becomes of the entries made since, when the host changes the EPTs.
Keep == since' = [p \in Frame |-> since[p] \cap ept'[p]]

HostAlone ==
    /\ \/ \E v \in VM : VmCreate(v) \/ VmDestroy(v)
       \/ \E v \in VM, p \in Frame : Zap(v, p) \/ Drop(v, p)
       \/ \E p \in Frame : KsmPromote(p)
    /\ Keep
    /\ UNCHANGED module

\* An EPT violation: handle_pfn_modify where it is hooked, then handle_pfn_map
\* where it is.
FaultThrough(v, p) ==
    /\ v \in live
    /\ v \in back[p] \/ ~Owned(p) \/ p \in Common
    /\ LET t == Through("handle_pfn_modify", pageflag, Verified(pageflag, p)) IN
       IF "handle_pfn_modify" \in hooked /\ Verdict(t, p, v) # 0
       THEN /\ pageflag' = t
            /\ UNCHANGED <<back, ept, since>>
       ELSE /\ pageflag' = Through("handle_pfn_map", t, Mapped(t, p, v))
            /\ back' = [back EXCEPT ![p] = @ \cup {v}]
            /\ ept' = [ept EXCEPT ![p] = @ \cup {v}]
            /\ since' = IF "handle_pfn_map" \in hooked
                        THEN [since EXCEPT ![p] = @ \cup {v}]
                        ELSE since
    /\ UNCHANGED <<live, ksm, balloon, module>>

MergeThrough(page, kpage) ==
    /\ HostMerge(page, kpage)
    /\ pageflag' = Through("ksm_page_modify", pageflag, Merged(pageflag, page, kpage))
    /\ Keep
    /\ UNCHANGED module

ReclaimThrough(p) ==
    /\ HostReclaim(p)
    /\ pageflag' = Through("clean_page_modify", pageflag, Cleaned(pageflag, p))
    /\ Keep
    /\ UNCHANGED module

InflateThrough(p) ==
    /\ HostInflate(p)
    /\ pageflag' = Through("inflate_page_modify", pageflag, Ballooned(pageflag, p))
    /\ UNCHANGED <<module, since>>

DeflateThrough(p) ==
    /\ HostDeflate(p)
    /\ pageflag' = Through("deflate_page_modify", pageflag, Ballooned(pageflag, p))
    /\ UNCHANGED <<module, since>>

LoadNext ==
    \/ Insmod \/ SetHook \/ InitReturns
    \/ Rmmod \/ Restore \/ ExitReturns
    \/ HostAlone
    \/ \E v \in VM, p \in Frame : FaultThrough(v, p)
    \/ \E page, kpage \in Frame : MergeThrough(page, kpage)
    \/ \E p \in Frame : ReclaimThrough(p) \/ InflateThrough(p) \/ DeflateThrough(p)

LoadSpec == LoadInit /\ [][LoadNext]_loadVars

-----------------------------------------------------------------------------
(* What the tags are worth under a module that comes and goes.             *)

LoadTypeOK ==
    /\ TypeOK
    /\ phase \in {"out", "loading", "live", "unloading"}
    /\ cur \in 0 .. Len(Installs) + 1
    /\ hooked \subseteq Hook
    /\ since \in [Frame -> SUBSET VM]

\* One entry made through handle_pfn_map restores the whole promise for its
\* frame (handle_pfn_map, ksm_page_modify): if the tag then lacks the shared
\* bit, the frame is in one EPT only, entries older than the module included,
\* and the tag names that VM or the hypervisor.
SeenIsExclusive ==
    \A p \in Told : since[p] # {} /\ ~Shared(p) =>
        \E v \in VM : ept[p] = {v} /\ pageflag[p].owner \in {v, NoOwner}

\* A frame with an entry made through handle_pfn_map carries the used bit,
\* whichever of the other hooks are still missing or already gone: the order of
\* my_init and my_exit never blanks the tag of a frame the table has seen mapped.
SeenIsUsed ==
    \A p \in Frame \cap Tracked : since[p] # {} => Has(pageflag, p, "used")

\* Of the entries it has seen, the table implements FrameIsolation through any
\* number of loads, unloads and half-installed hooks.
Seen == INSTANCE FrameIsolation WITH
    Frame   <- Told,
    holders <- [p \in Told |-> since[p]],
    public  <- {p \in Told : Shared(p)}
SeenImplementsIsolation == Seen!Spec

=============================================================================
