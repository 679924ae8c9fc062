---------------------------- MODULE Hooks_proofs ----------------------------
(***************************************************************************)
(* Proofs about Hooks, for every number of threads and every choice of the *)
(* functions they call.                                                    *)
(***************************************************************************)
EXTENDS Hooks, TLAPS

\* The functions hooked, or restored, before the i-th.
Before(s, i) == {s[j] : j \in 1 .. i - 1}

\* What the first bytes of f are, by where my_init or my_exit is.
CodeInPhase ==
    /\ phase \in {"out", "waiting"} => \A f \in Hooked : code[f] = Own
    /\ phase = "loading" => \A f \in Hooked :
          /\ f \in Before(Installs, cur) => code[f] = Jump /\ orig[f] = Own
          /\ f \notin Before(Installs, cur) =>
                IF f = Installs[cur] /\ stage = "high"
                THEN code[f] = [low |-> "jump", high |-> "own"] /\ orig[f] = Own
                ELSE code[f] = Own
          /\ f = Installs[cur] /\ stage = "low" => orig[f] = Own
    /\ phase = "live" => \A f \in Hooked : code[f] = Jump /\ orig[f] = Own
    /\ phase = "unloading" => \A f \in Hooked :
          /\ orig[f] = Own
          /\ f \in Before(Restores, cur) => code[f] = Own
          /\ f = Restores[cur] /\ stage = "high" => code[f].low = "own"

StageInPhase ==
    /\ phase \in {"loading", "unloading"} => cur \in 1 .. 14
    /\ phase = "unloading" => stage \in {"low", "high"}
    /\ phase = "unloading" /\ stage = "high" => cur <= 13
    /\ phase = "loading" /\ cur = 14 => stage = "rw"

ThreadSound ==
    \A t \in Thread :
       /\ pc[t] = "out" \/ fn[t] \in Called
       /\ fresh[t] => phase = "live" /\ pc[t] \in {"entry", "jmp", "handler", "asleep"}
       /\ pc[t] = "asleep" => Sleeps(fn[t])
       /\ pc[t] = "lost" => Sleeps(fn[t])
       /\ phase = "out" => pc[t] \notin {"jmp", "handler", "asleep"}
       /\ phase = "waiting" /\ t \notin grace =>
             /\ pc[t] # "jmp"
             /\ pc[t] = "handler" => Sleeps(fn[t])

\* The inductive invariant.
IInv == TypeOK /\ StageInPhase /\ CodeInPhase /\ ThreadSound

-----------------------------------------------------------------------------
(* The two lists.                                                          *)

LEMMA InstallsFacts ==
    /\ Len(Installs) = 13
    /\ \A i \in 1 .. 13 : Installs[i] \in Hooked
    /\ \A i, j \in 1 .. 13 : Installs[i] = Installs[j] => i = j
    /\ \A f \in Hooked : \E i \in 1 .. 13 : f = Installs[i]
  <1>1. Len(Installs) = 13
    BY DEF Installs
  <1>2. \A i, j \in 1 .. 13 : Installs[i] = Installs[j] => i = j
    BY DEF Installs
  <1> QED
    BY <1>1, <1>2 DEF Hooked

LEMMA RestoresFacts ==
    /\ Len(Restores) = 13
    /\ \A i \in 1 .. 13 : Restores[i] \in Hooked
    /\ \A f \in Hooked : \E i \in 1 .. 13 : f = Restores[i]
  <1>1. Len(Restores) = 13
    BY DEF Restores
  <1>2. \A i \in 1 .. 13 : \E j \in 1 .. 13 : Restores[i] = Installs[j]
    BY DEF Restores, Installs
  <1>3. \A j \in 1 .. 13 : \E i \in 1 .. 13 : Installs[j] = Restores[i]
    BY DEF Restores, Installs
  <1>4. \A i \in 1 .. 13 : Restores[i] \in Hooked
    BY <1>2, InstallsFacts
  <1>5. ASSUME NEW f \in Hooked PROVE \E i \in 1 .. 13 : f = Restores[i]
    <2>1. PICK j \in 1 .. 13 : f = Installs[j]
      BY InstallsFacts
    <2> QED
      BY <1>3, <2>1
  <1> QED
    BY <1>1, <1>4, <1>5

LEMMA BeforeFacts ==
    /\ \A s : Before(s, 1) = {}
    /\ \A s : \A i \in 1 .. 13 : Before(s, i + 1) = Before(s, i) \cup {s[i]}
    /\ \A f \in Hooked : f \in Before(Installs, 14) /\ f \in Before(Restores, 14)
    /\ \A i \in 1 .. 13 : Installs[i] \notin Before(Installs, i)
  <1>1. \A s : Before(s, 1) = {}
    BY DEF Before
  <1>2. ASSUME NEW s, NEW i \in 1 .. 13
        PROVE  Before(s, i + 1) = Before(s, i) \cup {s[i]}
    <2>1. 1 .. (i + 1) - 1 = (1 .. i - 1) \cup {i}
      OBVIOUS
    <2> QED
      BY <2>1 DEF Before
  <1>3. \A f \in Hooked : f \in Before(Installs, 14) /\ f \in Before(Restores, 14)
    BY InstallsFacts, RestoresFacts DEF Before
  <1>4. \A i \in 1 .. 13 : Installs[i] \notin Before(Installs, i)
    BY InstallsFacts DEF Before
  <1> QED
    BY <1>1, <1>2, <1>3, <1>4

LEMMA CodeFacts ==
    /\ Own \in Code /\ Zero \in Code /\ Jump \in Code
    /\ \A c \in Code : \A b \in Bytes :
          /\ [c EXCEPT !.low = b] \in Code /\ [c EXCEPT !.low = b].low = b
          /\ [c EXCEPT !.low = b].high = c.high
          /\ [c EXCEPT !.high = b] \in Code /\ [c EXCEPT !.high = b].high = b
          /\ [c EXCEPT !.high = b].low = c.low
    /\ Own.low = "own" /\ Own.high = "own" /\ Jump.low = "jump" /\ Jump.high = "jump"
    /\ \A c \in Code : c.low = "own" /\ c.high = "own" => c = Own
    /\ \A c \in Code : c.low = "jump" /\ c.high = "jump" => c = Jump
  BY DEF Code, Bytes, Own, Zero, Jump

-----------------------------------------------------------------------------
(* The module's steps.                                                     *)

\* Threads stay as they are, and nothing about them changes with the phase.
LEMMA ThreadsUntouched ==
    ASSUME IInv, UNCHANGED thread,
           \/ phase' = phase /\ grace' = grace
           \/ phase' \in {"loading", "live"} /\ phase # "live"
    PROVE  ThreadSound'
  BY DEF IInv, ThreadSound, thread

LEMMA InitIInv == Init => IInv
  <1> SUFFICES ASSUME Init PROVE IInv
    OBVIOUS
  <1>1. TypeOK
    BY CodeFacts, InstallsFacts DEF Init, TypeOK, NoFn
  <1>2. StageInPhase /\ CodeInPhase /\ ThreadSound
    BY DEF Init, StageInPhase, CodeInPhase, ThreadSound
  <1> QED
    BY <1>1, <1>2 DEF IInv

LEMMA InsmodStep == IInv /\ Insmod => IInv'
  <1> SUFFICES ASSUME IInv, Insmod PROVE IInv'
    OBVIOUS
  <1>1. /\ phase = "out" /\ phase' = "loading" /\ cur' = 1 /\ stage' = "rw"
        /\ orig' = [f \in Hooked |-> Zero]
        /\ UNCHANGED <<code, writable, grace, pc, fn, fresh>>
    BY DEF Insmod, thread
  <1>2. TypeOK'
    BY <1>1, CodeFacts, InstallsFacts DEF IInv, TypeOK
  <1>3. StageInPhase' /\ CodeInPhase'
    BY <1>1, BeforeFacts DEF IInv, StageInPhase, CodeInPhase
  <1>4. ThreadSound'
    BY <1>1, ThreadsUntouched DEF thread
  <1> QED
    BY <1>2, <1>3, <1>4 DEF IInv

\* A step of a set_hook function.
LEMMA SetHookStep == \A f \in Hooked : IInv /\ SetHook(f) => IInv'
  <1> SUFFICES ASSUME NEW f \in Hooked, IInv, SetHook(f) PROVE IInv'
    OBVIOUS
  <1>1. /\ phase = "loading" /\ phase' = "loading" /\ cur \in 1 .. 13
        /\ f = Installs[cur] /\ f \notin Before(Installs, cur)
        /\ UNCHANGED <<grace, pc, fn, fresh>>
    BY InstallsFacts, BeforeFacts
       DEF IInv, StageInPhase, SetHook, MakeRw, SaveOrig, PatchLow, PatchHigh,
           Patching, thread
  <1>2. ThreadSound'
    BY <1>1, ThreadsUntouched DEF thread
  <1>3. code \in [Hooked -> Code] /\ orig \in [Hooked -> Code]
    BY DEF IInv, TypeOK
  <1>4. CASE MakeRw(f)
    <2>1. /\ stage = "rw" /\ stage' = "save" /\ cur' = cur
          /\ UNCHANGED <<code, orig>> /\ writable' = writable \cup {f}
      BY <1>4 DEF MakeRw, Patching
    <2>2. TypeOK'
      BY <1>1, <2>1 DEF IInv, TypeOK
    <2>3. StageInPhase' /\ CodeInPhase'
      BY <1>1, <2>1 DEF IInv, StageInPhase, CodeInPhase
    <2> QED
      BY <1>2, <2>2, <2>3 DEF IInv
  <1>5. CASE SaveOrig(f)
    <2>1. /\ stage = "save" /\ stage' = "low" /\ cur' = cur
          /\ UNCHANGED <<code, writable>> /\ orig' = [orig EXCEPT ![f] = code[f]]
      BY <1>5 DEF SaveOrig, Patching
    <2>2. TypeOK'
      BY <1>1, <1>3, <2>1 DEF IInv, TypeOK
    <2>3. code[f] = Own
      BY <1>1, <2>1 DEF IInv, CodeInPhase
    <2>4. StageInPhase' /\ CodeInPhase'
      BY <1>1, <1>3, <2>1, <2>3 DEF IInv, StageInPhase, CodeInPhase
    <2> QED
      BY <1>2, <2>2, <2>4 DEF IInv
  <1>6. CASE PatchLow(f)
    <2>1. /\ stage = "low" /\ stage' = "high" /\ cur' = cur
          /\ UNCHANGED <<orig, writable>>
          /\ code' = [code EXCEPT ![f] = [code[f] EXCEPT !.low = "jump"]]
      BY <1>6 DEF PatchLow, Patching
    <2>2. code[f] = Own /\ orig[f] = Own
      BY <1>1, <2>1 DEF IInv, CodeInPhase
    <2>3. [Own EXCEPT !.low = "jump"] = [low |-> "jump", high |-> "own"]
      BY DEF Own
    <2>4. code' \in [Hooked -> Code]
      BY <1>3, <2>1, CodeFacts DEF Bytes
    <2>5. TypeOK'
      BY <1>1, <2>1, <2>4 DEF IInv, TypeOK
    <2>6. StageInPhase' /\ CodeInPhase'
      BY <1>1, <1>3, <2>1, <2>2, <2>3 DEF IInv, StageInPhase, CodeInPhase
    <2> QED
      BY <1>2, <2>5, <2>6 DEF IInv
  <1>7. CASE PatchHigh(f)
    <2>1. /\ stage = "high" /\ stage' = "rw" /\ cur' = cur + 1
          /\ UNCHANGED <<orig, writable>>
          /\ code' = [code EXCEPT ![f] = [code[f] EXCEPT !.high = "jump"]]
      BY <1>7 DEF PatchHigh, Patching
    <2>2. code[f] = [low |-> "jump", high |-> "own"] /\ orig[f] = Own
      BY <1>1, <2>1 DEF IInv, CodeInPhase
    <2>3. [code[f] EXCEPT !.high = "jump"] = Jump
      BY <2>2 DEF Jump
    <2>4. code' = [code EXCEPT ![f] = Jump]
      BY <2>1, <2>3
    <2>5. TypeOK'
      BY <1>1, <1>3, <2>1, <2>4, CodeFacts, InstallsFacts DEF IInv, TypeOK
    <2>6. StageInPhase'
      BY <1>1, <2>1 DEF IInv, StageInPhase
    <2>7. CodeInPhase'
      <3>1. Before(Installs, cur') = Before(Installs, cur) \cup {f}
        BY <1>1, <2>1, BeforeFacts
      <3> QED
        BY <1>1, <1>3, <2>1, <2>2, <2>4, <3>1 DEF IInv, CodeInPhase
    <2> QED
      BY <1>2, <2>5, <2>6, <2>7 DEF IInv
  <1> QED
    BY <1>4, <1>5, <1>6, <1>7 DEF SetHook

LEMMA InitReturnsStep == IInv /\ InitReturns => IInv'
  <1> SUFFICES ASSUME IInv, InitReturns PROVE IInv'
    OBVIOUS
  <1>1. /\ phase = "loading" /\ phase' = "live" /\ cur = 14 /\ cur' = 0
        /\ UNCHANGED <<stage, code, orig, writable, grace, pc, fn, fresh>>
    BY InstallsFacts DEF IInv, StageInPhase, InitReturns, thread
  <1>2. TypeOK'
    BY <1>1, InstallsFacts DEF IInv, TypeOK
  <1>3. StageInPhase' /\ CodeInPhase'
    BY <1>1, BeforeFacts DEF IInv, StageInPhase, CodeInPhase
  <1>4. ThreadSound'
    BY <1>1, ThreadsUntouched DEF thread
  <1> QED
    BY <1>2, <1>3, <1>4 DEF IInv

LEMMA RmmodStep == IInv /\ Rmmod => IInv'
  <1> SUFFICES ASSUME IInv, Rmmod PROVE IInv'
    OBVIOUS
  <1>1. /\ phase = "live" /\ phase' = "unloading" /\ cur' = 1 /\ stage' = "low"
        /\ fresh' = [t \in Thread |-> FALSE]
        /\ UNCHANGED <<code, orig, writable, grace, pc, fn>>
    BY DEF Rmmod
  <1>2. TypeOK'
    BY <1>1, InstallsFacts DEF IInv, TypeOK
  <1>3. StageInPhase' /\ CodeInPhase'
    BY <1>1, BeforeFacts DEF IInv, StageInPhase, CodeInPhase
  <1>4. ThreadSound'
    BY <1>1 DEF IInv, ThreadSound
  <1> QED
    BY <1>2, <1>3, <1>4 DEF IInv

LEMMA RestoreStep == IInv /\ (RestoreLow \/ RestoreHigh) => IInv'
  <1> SUFFICES ASSUME IInv, RestoreLow \/ RestoreHigh PROVE IInv'
    OBVIOUS
  <1> DEFINE f == Restores[cur]
  <1>1. /\ phase = "unloading" /\ phase' = "unloading"
        /\ cur \in 1 .. 13 /\ f \in Hooked /\ orig[f] = Own
        /\ UNCHANGED <<orig, writable, grace, pc, fn, fresh>>
    BY RestoresFacts
       DEF IInv, StageInPhase, CodeInPhase, RestoreLow, RestoreHigh, thread
  <1>2. ThreadSound'
    BY <1>1, ThreadsUntouched DEF thread
  <1>3. code \in [Hooked -> Code] /\ code[f] \in Code
    BY <1>1 DEF IInv, TypeOK
  <1>4. CASE RestoreLow
    <2>1. /\ stage = "low" /\ stage' = "high" /\ cur' = cur
          /\ code' = [code EXCEPT ![f] = [code[f] EXCEPT !.low = "own"]]
      BY <1>1, <1>4, CodeFacts DEF RestoreLow
    <2> DEFINE c == [code[f] EXCEPT !.low = "own"]
    <2>2. c \in Code /\ c.low = "own" /\ (code[f] = Own => c = Own)
      BY <1>3 DEF Code, Bytes, Own
    <2> HIDE DEF c, f
    <2>3. TypeOK'
      BY <1>1, <1>3, <2>1, <2>2 DEF IInv, TypeOK, c
    <2>4. StageInPhase' /\ CodeInPhase'
      BY <1>1, <1>3, <2>1, <2>2 DEF IInv, StageInPhase, CodeInPhase, c, f
    <2> QED
      BY <1>2, <2>3, <2>4 DEF IInv
  <1>5. CASE RestoreHigh
    <2>1. /\ stage = "high" /\ stage' = "low" /\ cur' = cur + 1
          /\ code' = [code EXCEPT ![f] = [code[f] EXCEPT !.high = "own"]]
      BY <1>1, <1>5, CodeFacts DEF RestoreHigh
    <2>2. [code[f] EXCEPT !.high = "own"] = Own
      <3>1. code[f].low = "own"
        BY <1>1, <2>1 DEF IInv, CodeInPhase
      <3> QED
        BY <1>3, <3>1 DEF Code, Own
    <2>3. code' = [code EXCEPT ![f] = Own]
      BY <2>1, <2>2
    <2>4. Before(Restores, cur') = Before(Restores, cur) \cup {f}
      BY <1>1, <2>1, BeforeFacts
    <2> HIDE DEF f
    <2>5. TypeOK'
      BY <1>1, <1>3, <2>1, <2>3, CodeFacts, InstallsFacts DEF IInv, TypeOK
    <2>6. StageInPhase' /\ CodeInPhase'
      BY <1>1, <1>3, <2>1, <2>3, <2>4 DEF IInv, StageInPhase, CodeInPhase
    <2> QED
      BY <1>2, <2>5, <2>6 DEF IInv
  <1> QED
    BY <1>4, <1>5

LEMMA ExitReturnsStep == IInv /\ ExitReturns => IInv'
  <1> SUFFICES ASSUME IInv, ExitReturns PROVE IInv'
    OBVIOUS
  <1>1. /\ phase = "unloading" /\ phase' = "waiting" /\ cur = 14 /\ cur' = 0
        /\ stage' = "rw" /\ grace' = {t \in Thread : pc[t] \in Running}
        /\ UNCHANGED <<code, orig, writable, pc, fn, fresh>>
    BY RestoresFacts DEF IInv, StageInPhase, ExitReturns, thread
  <1>2. TypeOK'
    BY <1>1, InstallsFacts DEF IInv, TypeOK
  <1>3. StageInPhase' /\ CodeInPhase'
    BY <1>1, BeforeFacts DEF IInv, StageInPhase, CodeInPhase
  <1>4. ThreadSound'
    BY <1>1 DEF IInv, ThreadSound, Running
  <1> QED
    BY <1>2, <1>3, <1>4 DEF IInv

LEMMA FreeModuleStep == IInv /\ FreeModule => IInv'
  <1> SUFFICES ASSUME IInv, FreeModule PROVE IInv'
    OBVIOUS
  <1>1. /\ phase = "waiting" /\ grace = {} /\ phase' = "out"
        /\ UNCHANGED <<cur, stage, code, orig, writable, grace, fn, fresh>>
        /\ pc' = [t \in Thread |->
                    IF pc[t] \in {"handler", "asleep"} THEN "lost" ELSE pc[t]]
    BY DEF FreeModule
  <1>2. TypeOK'
    BY <1>1 DEF IInv, TypeOK
  <1>3. StageInPhase' /\ CodeInPhase'
    BY <1>1 DEF IInv, StageInPhase, CodeInPhase
  <1>4. ThreadSound'
    BY <1>1 DEF IInv, ThreadSound
  <1> QED
    BY <1>2, <1>3, <1>4 DEF IInv

-----------------------------------------------------------------------------
(* The threads' steps.                                                     *)

\* A thread moves while the module stays where it is.
LEMMA ThreadMoves ==
    ASSUME IInv, NEW t \in Thread, NEW to, NEW g, NEW h,
           to \in Running \cup {"out", "asleep", "wild", "lost"},
           g \in Called \cup {NoFn}, h \in BOOLEAN,
           pc' = [pc EXCEPT ![t] = to],
           fn' = [fn EXCEPT ![t] = g],
           fresh' = [fresh EXCEPT ![t] = h],
           grace' \in {grace, grace \ {t}},
           UNCHANGED <<phase, cur, stage, code, orig, writable>>,
           to = "out" \/ g \in Called,
           h => phase = "live" /\ to \in {"entry", "jmp", "handler", "asleep"},
           to \in {"asleep", "lost"} => Sleeps(g),
           phase = "out" => to \notin {"jmp", "handler", "asleep"},
           phase = "waiting" /\ t \notin grace' =>
               to # "jmp" /\ (to = "handler" => Sleeps(g))
    PROVE  IInv'
  <1>1. TypeOK'
    BY DEF IInv, TypeOK
  <1>2. StageInPhase' /\ CodeInPhase'
    BY DEF IInv, StageInPhase, CodeInPhase
  <1>3. ASSUME NEW u \in Thread
        PROVE  /\ pc'[u] = "out" \/ fn'[u] \in Called
               /\ fresh'[u] => /\ phase' = "live"
                               /\ pc'[u] \in {"entry", "jmp", "handler", "asleep"}
               /\ pc'[u] = "asleep" => Sleeps(fn'[u])
               /\ pc'[u] = "lost" => Sleeps(fn'[u])
               /\ phase' = "out" => pc'[u] \notin {"jmp", "handler", "asleep"}
               /\ phase' = "waiting" /\ u \notin grace' =>
                     /\ pc'[u] # "jmp"
                     /\ pc'[u] = "handler" => Sleeps(fn'[u])
    <2>1. CASE u = t
      BY <2>1 DEF IInv, TypeOK
    <2>2. CASE u # t
      BY <2>2 DEF IInv, TypeOK, ThreadSound
    <2> QED
      BY <2>1, <2>2
  <1>4. ThreadSound'
    BY <1>3 DEF ThreadSound
  <1> QED
    BY <1>1, <1>2, <1>4 DEF IInv

LEMMA ThreadStepKeeps == \A t \in Thread : IInv /\ ThreadStep(t) => IInv'
  <1> SUFFICES ASSUME NEW t \in Thread, IInv, ThreadStep(t) PROVE IInv'
    OBVIOUS
  <1>1. /\ pc \in [Thread -> Running \cup {"out", "asleep", "wild", "lost"}]
        /\ fn \in [Thread -> Called \cup {NoFn}]
        /\ fresh \in [Thread -> BOOLEAN]
    BY DEF IInv, TypeOK
  <1>2. /\ fn = [fn EXCEPT ![t] = fn[t]] /\ fresh = [fresh EXCEPT ![t] = fresh[t]]
        /\ fn[t] \in Called \cup {NoFn} /\ fresh[t] \in BOOLEAN
    BY <1>1
  <1>3. ASSUME pc[t] # "out" PROVE fn[t] \in Called /\ fn[t] \in Hooked
    BY <1>3, CalledAssumption DEF IInv, ThreadSound
  <1>4. /\ fresh[t] => phase = "live" /\ pc[t] \in {"entry", "jmp", "handler", "asleep"}
        /\ pc[t] = "asleep" => Sleeps(fn[t])
        /\ phase = "out" => pc[t] \notin {"jmp", "handler", "asleep"}
        /\ phase = "waiting" /\ t \notin grace =>
             pc[t] # "jmp" /\ (pc[t] = "handler" => Sleeps(fn[t]))
    BY DEF IInv, ThreadSound
  <1>5. ASSUME NEW f \in Called, Call(t, f) PROVE IInv'
    <2>1. /\ pc' = [pc EXCEPT ![t] = "entry"] /\ fn' = [fn EXCEPT ![t] = f]
          /\ fresh' = [fresh EXCEPT ![t] = (phase = "live")]
          /\ UNCHANGED <<phase, cur, stage, code, orig, writable, grace>>
      BY <1>5 DEF Call, module
    <2> QED
      BY <2>1, ThreadMoves DEF Running
  <1>6. CASE Fetch(t)
    <2> DEFINE c == code[fn[t]]
               to == CASE c.low = "own" -> "prologue"
                       [] c = Jump      -> "jmp"
                       [] OTHER         -> "wild"
    <2>1. /\ pc[t] = "entry" /\ pc' = [pc EXCEPT ![t] = to]
          /\ UNCHANGED <<fn, fresh, phase, cur, stage, code, orig, writable, grace>>
      BY <1>6 DEF Fetch, Becomes, module
    <2>2. fn[t] \in Called /\ fn[t] \in Hooked
      BY <1>3, <2>1
    <2>3. phase = "live" => c = Jump
      BY <2>2 DEF IInv, CodeInPhase
    <2>4. phase \in {"out", "waiting"} => c = Own
      BY <2>2 DEF IInv, CodeInPhase
    <2>5. /\ to \in {"prologue", "jmp", "wild"}
          /\ phase = "live" => to = "jmp"
          /\ phase \in {"out", "waiting"} => to = "prologue"
      BY <2>3, <2>4, CodeFacts
    <2> HIDE DEF to
    <2> QED
      BY <1>2, <1>4, <2>1, <2>2, <2>5, ThreadMoves DEF Running
  <1>7. CASE PrologueRuns(t) \/ PrologueBreaks(t)
    <2>1. /\ pc[t] = "prologue"
          /\ \E to \in {"original", "wild"} : pc' = [pc EXCEPT ![t] = to]
          /\ UNCHANGED <<fn, fresh, phase, cur, stage, code, orig, writable, grace>>
      BY <1>7 DEF PrologueRuns, PrologueBreaks, Becomes, module
    <2>2. ~fresh[t]
      BY <1>4, <2>1
    <2> QED
      BY <1>2, <1>3, <2>1, <2>2, ThreadMoves DEF Running
  <1>8. CASE JmpTaken(t)
    <2> DEFINE to == CASE code[fn[t]].high # "jump" -> "wild"
                       [] phase = "out"             -> "lost"
                       [] OTHER                     -> "handler"
    <2>1. /\ pc[t] = "jmp" /\ pc' = [pc EXCEPT ![t] = to]
          /\ UNCHANGED <<fn, fresh, phase, cur, stage, code, orig, writable, grace>>
      BY <1>8 DEF JmpTaken, Becomes, module
    <2>2. fn[t] \in Called /\ fn[t] \in Hooked /\ phase # "out"
      BY <1>3, <1>4, <2>1
    <2>3. phase = "live" => code[fn[t]] = Jump
      BY <2>2 DEF IInv, CodeInPhase
    <2>4. to \in {"wild", "handler"} /\ (phase = "live" => to = "handler")
      BY <2>2, <2>3, CodeFacts
    <2> HIDE DEF to
    <2> QED
      BY <1>2, <1>4, <2>1, <2>2, <2>4, ThreadMoves DEF Running
  <1>9. CASE Sleep(t)
    <2>1. /\ pc[t] = "handler" /\ pc' = [pc EXCEPT ![t] = "asleep"]
          /\ Sleeps(fn[t]) /\ grace' = grace \ {t}
          /\ UNCHANGED <<fn, fresh, phase, cur, stage, code, orig, writable>>
      BY <1>9 DEF Sleep, Becomes
    <2>2. fn[t] \in Called /\ phase # "out"
      BY <1>3, <1>4, <2>1
    <2> QED
      BY <1>2, <1>4, <2>1, <2>2, ThreadMoves
  <1>10. CASE Wake(t)
    <2>1. /\ pc[t] = "asleep" /\ pc' = [pc EXCEPT ![t] = "handler"] /\ Sleeps(fn[t])
          /\ UNCHANGED <<fn, fresh, phase, cur, stage, code, orig, writable, grace>>
      BY <1>4, <1>10 DEF Wake, Becomes, module
    <2>2. fn[t] \in Called /\ phase # "out"
      BY <1>3, <1>4, <2>1
    <2> QED
      BY <1>2, <1>4, <2>1, <2>2, ThreadMoves DEF Running
  <1>11. CASE Leave(t)
    <2>1. /\ pc' = [pc EXCEPT ![t] = "out"] /\ fn' = [fn EXCEPT ![t] = NoFn]
          /\ fresh' = [fresh EXCEPT ![t] = FALSE] /\ grace' = grace \ {t}
          /\ UNCHANGED <<phase, cur, stage, code, orig, writable>>
      BY <1>11 DEF Leave
    <2> QED
      BY <2>1, ThreadMoves
  <1> QED
    BY <1>5, <1>6, <1>7, <1>8, <1>9, <1>10, <1>11 DEF ThreadStep

-----------------------------------------------------------------------------
(* The invariant and what follows from it.                                 *)

LEMMA StepIInv == IInv /\ [Next]_vars => IInv'
  <1> SUFFICES ASSUME IInv, [Next]_vars PROVE IInv'
    OBVIOUS
  <1>1. ASSUME NEW f, SetHook(f),
               f \in {"native_set_pte", "native_set_pmd", "do_page_fault",
                      "vmcs_readl", "vmcs_writel", "vmcs_clear",
                      "handle_pfn_modify", "handle_pfn_map", "clean_page_modify",
                      "testforshrinkpage_modify", "ksm_page_modify",
                      "inflate_page_modify", "deflate_page_modify"}
        PROVE  IInv'
    <2>1. Installs[cur] = f /\ phase = "loading" /\ cur <= 13
      BY <1>1, InstallsFacts
         DEF SetHook, MakeRw, SaveOrig, PatchLow, PatchHigh, Patching
    <2>2. f \in Hooked
      BY <2>1, InstallsFacts DEF IInv, StageInPhase
    <2> QED
      BY <1>1, <2>2, SetHookStep
  <1>2. CASE LoadStep
    BY <1>1, <1>2, InsmodStep, InitReturnsStep
       DEF LoadStep, SetHookPte, SetHookPmd, SetHookPagefault, SetHookReadl,
           SetHookWritel, SetHookClear, SetHookPfnModify, SetHookPfnMap,
           SetHookClean, SetHookShrink, SetHookKsm, SetHookInflate, SetHookDeflate
  <1>3. CASE UnloadStep
    BY <1>3, RmmodStep, RestoreStep, ExitReturnsStep, FreeModuleStep DEF UnloadStep
  <1>4. CASE \E t \in Thread : ThreadStep(t)
    BY <1>4, ThreadStepKeeps
  <1>5. CASE UNCHANGED vars
    BY <1>5 DEF vars, IInv, TypeOK, StageInPhase, CodeInPhase, ThreadSound
  <1> QED
    BY <1>2, <1>3, <1>4, <1>5 DEF Next

\* The types hold in every reachable state.
THEOREM TypeCorrect == Spec => []TypeOK
  <1>1. IInv => TypeOK
    BY DEF IInv
  <1> QED
    BY <1>1, InitIInv, StepIInv, PTL DEF Spec

\* However often the module is loaded, the kernel's code is its own again once
\* the module is gone.
THEOREM CodeRestored == Spec => []KernelRestored
  <1>1. IInv => KernelRestored
    BY DEF IInv, CodeInPhase, KernelRestored
  <1> QED
    BY <1>1, InitIInv, StepIInv, PTL DEF Spec

\* A call made while the module is live reaches its handler.
THEOREM CallsServed == Spec => []LiveCallsServed
  <1>1. IInv => LiveCallsServed
    BY DEF IInv, ThreadSound, LiveCallsServed
  <1> QED
    BY <1>1, InitIInv, StepIInv, PTL DEF Spec

\* Only threads in the page fault handler lose the text they run.
THEOREM SleepersLost == Spec => []OnlySleepersLost
  <1>1. IInv => OnlySleepersLost
    BY DEF IInv, ThreadSound, OnlySleepersLost
  <1> QED
    BY <1>1, InitIInv, StepIInv, PTL DEF Spec

=============================================================================
