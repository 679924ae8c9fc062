------------------------- MODULE SwitchGate_proofs -------------------------
(***************************************************************************)
(* Proofs about SwitchGate: its types, the interrupt flag on any number of *)
(* CPUs and levels of nesting, and the page table of a single CPU.         *)
(***************************************************************************)
EXTENDS SwitchGate, TLAPS

LEMMA LevelFacts ==
    /\ 1 \in Level
    /\ \A n \in 0 .. Depth : n > 0 => n \in Level /\ n - 1 \in 0 .. Depth
    /\ \A n \in 0 .. Depth : n < Depth => n + 1 \in Level /\ n + 1 \in 0 .. Depth
  BY DepthAssumption DEF Level

LEMMA NoFrameType == NoFrame \in Frame
  BY DEF NoFrame, Frame, Entry, Handler, Writer, Pc

-----------------------------------------------------------------------------
(* Types.                                                                  *)

LEMMA TypeInit == Init => TypeOK
  <1> SUFFICES ASSUME Init PROVE TypeOK
    OBVIOUS
  <1>1. frame \in [Cpu -> [Level -> Frame]]
    BY NoFrameType DEF Init
  <1>2. lvl \in [Cpu -> 0 .. Depth]
    BY DepthAssumption DEF Init
  <1> QED
    BY <1>1, <1>2 DEF Init, TypeOK

\* A step that moves the top frame within its handler keeps frame's type.
LEMMA TypeGoto ==
    ASSUME TypeOK, NEW c \in Cpu, lvl[c] > 0, NEW to \in Pc, Goto(c, to)
    PROVE  frame' \in [Cpu -> [Level -> Frame]]
  <1>1. lvl[c] \in Level
    BY LevelFacts DEF TypeOK
  <1>2. frame[c][lvl[c]] \in Frame
    BY <1>1 DEF TypeOK
  <1>3. [frame[c][lvl[c]] EXCEPT !.pc = to] \in Frame
    BY <1>2 DEF Frame
  <1>4. frame' = [frame EXCEPT ![c] =
                    [frame[c] EXCEPT ![lvl[c]] = [frame[c][lvl[c]] EXCEPT !.pc = to]]]
    BY DEF Goto
  <1>5. [frame[c] EXCEPT ![lvl[c]] = [frame[c][lvl[c]] EXCEPT !.pc = to]] \in [Level -> Frame]
    BY <1>1, <1>3 DEF TypeOK
  <1> QED
    BY <1>4, <1>5 DEF TypeOK

\* What the frames are after a handler is entered: the new one, those below
\* the caller's as they were, ...
LEMMA EnterFrames ==
    ASSUME TypeOK, NEW c \in Cpu, NEW who \in Handler, NEW how \in Entry,
           NEW a \in Addr \cup {NoAddr}, Enter(c, who, how, a)
    PROVE  /\ lvl[c] < Depth /\ lvl[c] + 1 \in Level
           /\ lvl' = [lvl EXCEPT ![c] = lvl[c] + 1]
           /\ lvl' \in [Cpu -> 0 .. Depth]
           /\ frame' \in [Cpu -> [Level -> Frame]]
           /\ \A d \in Cpu \ {c} : frame'[d] = frame[d]
           /\ frame'[c][lvl[c] + 1] =
                [who |-> who, pc |-> "setPgd", entry |-> how, if0 |-> ifl[c],
                 flags |-> FALSE, pgd |-> NoMm, fault |-> a]
           /\ \A l \in Level : l < lvl[c] => frame'[c][l] = frame[c][l]
  <1> DEFINE new == [who |-> who, pc |-> "setPgd", entry |-> how, if0 |-> ifl[c],
                     flags |-> FALSE, pgd |-> NoMm, fault |-> a]
             next(l) == IF l = lvl[c] + 1 THEN new
                        ELSE IF l = lvl[c] /\ frame[c][l].pc = "body" /\ how = "call"
                             THEN [frame[c][l] EXCEPT !.pc = "body2"]
                        ELSE IF l = lvl[c] /\ frame[c][l].pc = "tail" /\ how = "call"
                             THEN [frame[c][l] EXCEPT !.pc = "tail2"]
                        ELSE frame[c][l]
  <1>1. /\ lvl[c] \in 0 .. Depth /\ lvl[c] < Depth
        /\ lvl[c] + 1 \in Level /\ lvl[c] + 1 \in 0 .. Depth
    BY LevelFacts DEF TypeOK, Enter
  <1>2. lvl' = [lvl EXCEPT ![c] = lvl[c] + 1] /\ lvl' \in [Cpu -> 0 .. Depth]
    BY <1>1 DEF Enter, TypeOK
  <1>3. frame' = [frame EXCEPT ![c] = [l \in Level |-> next(l)]]
    BY DEF Enter
  <1>4. new \in Frame
    BY DEF Frame, Pc, TypeOK
  <1>5. \A l \in Level : next(l) \in Frame
    <2> TAKE l \in Level
    <2>1. frame[c][l] \in Frame
      BY DEF TypeOK
    <2>2. /\ [frame[c][l] EXCEPT !.pc = "body2"] \in Frame
          /\ [frame[c][l] EXCEPT !.pc = "tail2"] \in Frame
      BY <2>1 DEF Frame, Pc
    <2> QED
      BY <1>4, <2>1, <2>2
  <1>6. /\ frame'[c] = [l \in Level |-> next(l)]
        /\ \A d \in Cpu \ {c} : frame'[d] = frame[d]
        /\ frame' \in [Cpu -> [Level -> Frame]]
    BY <1>3, <1>5 DEF TypeOK
  <1>7. frame'[c][lvl[c] + 1] = new
    BY <1>1, <1>6
  <1>8. \A l \in Level : l < lvl[c] => frame'[c][l] = frame[c][l]
    BY <1>1, <1>6
  <1> HIDE DEF next
  <1> QED
    BY <1>1, <1>2, <1>6, <1>7, <1>8

\* ... and the caller's, which a call from a body or a tail moves on.
LEMMA EnterBelow ==
    ASSUME TypeOK, NEW c \in Cpu, NEW who \in Handler, NEW how \in Entry,
           NEW a \in Addr \cup {NoAddr}, Enter(c, who, how, a), lvl[c] > 0
    PROVE  \/ frame'[c][lvl[c]] = frame[c][lvl[c]]
           \/ frame[c][lvl[c]].pc = "body"
              /\ frame'[c][lvl[c]] = [frame[c][lvl[c]] EXCEPT !.pc = "body2"]
           \/ frame[c][lvl[c]].pc = "tail"
              /\ frame'[c][lvl[c]] = [frame[c][lvl[c]] EXCEPT !.pc = "tail2"]
  <1> DEFINE next(l) == IF l = lvl[c] + 1
                        THEN [who |-> who, pc |-> "setPgd", entry |-> how,
                              if0 |-> ifl[c], flags |-> FALSE, pgd |-> NoMm, fault |-> a]
                        ELSE IF l = lvl[c] /\ frame[c][l].pc = "body" /\ how = "call"
                             THEN [frame[c][l] EXCEPT !.pc = "body2"]
                        ELSE IF l = lvl[c] /\ frame[c][l].pc = "tail" /\ how = "call"
                             THEN [frame[c][l] EXCEPT !.pc = "tail2"]
                        ELSE frame[c][l]
  <1>1. lvl[c] \in Level /\ lvl[c] # lvl[c] + 1
    BY LevelFacts DEF TypeOK
  <1>2. frame' = [frame EXCEPT ![c] = [l \in Level |-> next(l)]]
    BY DEF Enter
  <1>3. frame'[c] = [l \in Level |-> next(l)]
    BY <1>2 DEF TypeOK
  <1>4. frame'[c][lvl[c]] = next(lvl[c])
    BY <1>1, <1>3
  <1> QED
    BY <1>1, <1>4

LEMMA EnterType ==
    ASSUME TypeOK, NEW c \in Cpu, NEW who \in Handler, NEW how \in Entry,
           NEW a \in Addr \cup {NoAddr}, Enter(c, who, how, a),
           UNCHANGED <<globals, cr3, mm, slept>>,
           cr2' \in [Cpu -> Addr \cup {NoAddr}], ifl' \in [Cpu -> BOOLEAN]
    PROVE  TypeOK'
  <1>1. lvl' \in [Cpu -> 0 .. Depth] /\ frame' \in [Cpu -> [Level -> Frame]]
    BY EnterFrames
  <1> QED
    BY <1>1 DEF TypeOK, globals

LEMMA TypeStep == TypeOK /\ [Next]_vars => TypeOK'
  <1> SUFFICES ASSUME TypeOK, [Next]_vars PROVE TypeOK'
    OBVIOUS
  <1>1. CASE UNCHANGED vars
    BY <1>1 DEF TypeOK, vars
  <1>2. ASSUME NEW c \in Cpu, SetPgd(c) PROVE TypeOK'
    <2>1. frame' \in [Cpu -> [Level -> Frame]]
      <3>1. lvl[c] \in Level
        BY <1>2, LevelFacts DEF TypeOK, SetPgd, At
      <3> DEFINE f == [frame[c][lvl[c]] EXCEPT !.pc = "setOld", !.pgd = cr3[c]]
      <3>2. frame[c][lvl[c]] \in Frame /\ cr3[c] \in Mm
        BY <3>1 DEF TypeOK
      <3>3. f \in Frame
        BY <3>2 DEF Frame, Pc
      <3>4. frame' = [frame EXCEPT ![c] = [frame[c] EXCEPT ![lvl[c]] = f]]
        BY <1>2, <3>1 DEF SetPgd, TypeOK
      <3> HIDE DEF f
      <3> QED
        BY <3>1, <3>3, <3>4 DEF TypeOK
    <2> QED
      BY <1>2, <2>1 DEF SetPgd, TypeOK
  <1>3. ASSUME NEW c \in Cpu, SetOld(c) PROVE TypeOK'
    <2>1. frame' \in [Cpu -> [Level -> Frame]]
      <3>1. (IF Top(c).who = "vmcs_readl" THEN "return" ELSE "cli") \in Pc
        BY DEF Pc
      <3> QED
        BY <1>3, <3>1, TypeGoto DEF SetOld, At
    <2> QED
      BY <1>3, <2>1 DEF SetOld, TypeOK
  <1>4. ASSUME NEW c \in Cpu, DisableIntFirst(c) PROVE TypeOK'
    <2>1. frame' \in [Cpu -> [Level -> Frame]]
      <3>1. lvl[c] \in Level
        BY <1>4, LevelFacts DEF TypeOK, DisableIntFirst, At
      <3> DEFINE f == [frame[c][lvl[c]] EXCEPT !.pc = "enter", !.flags = ifl[c]]
      <3>2. frame[c][lvl[c]] \in Frame /\ ifl[c] \in BOOLEAN
        BY <3>1 DEF TypeOK
      <3>3. f \in Frame
        BY <3>2 DEF Frame, Pc
      <3>4. frame' = [frame EXCEPT ![c] = [frame[c] EXCEPT ![lvl[c]] = f]]
        BY <1>4, <3>1 DEF DisableIntFirst, TypeOK
      <3> HIDE DEF f
      <3> QED
        BY <3>1, <3>3, <3>4 DEF TypeOK
    <2>2. ifl' \in [Cpu -> BOOLEAN]
      BY <1>4 DEF DisableIntFirst, TypeOK
    <2> QED
      BY <1>4, <2>1, <2>2 DEF DisableIntFirst, TypeOK, globals
  <1>5. ASSUME NEW c \in Cpu, EnterWorld(c) PROVE TypeOK'
    <2>1. frame' \in [Cpu -> [Level -> Frame]]
      BY <1>5, TypeGoto DEF EnterWorld, At, Pc
    <2>2. PICK pgd \in Mm : cr3' = [cr3 EXCEPT ![c] = pgd]
      BY <1>5 DEF EnterWorld
    <2>3. cr3' \in [Cpu -> Mm]
      BY <2>2 DEF TypeOK
    <2> QED
      BY <1>5, <2>1, <2>3 DEF EnterWorld, TypeOK, globals
  <1>6. ASSUME NEW c \in Cpu, Body(c) PROVE TypeOK'
    <2>1. frame' \in [Cpu -> [Level -> Frame]]
      BY <1>6, TypeGoto DEF Body, At, Pc
    <2> QED
      BY <1>6, <2>1 DEF Body, TypeOK, globals
  <1>7. ASSUME NEW c \in Cpu, EnableInt(c) PROVE TypeOK'
    <2>1. frame' \in [Cpu -> [Level -> Frame]]
      BY <1>7, TypeGoto DEF EnableInt, At, Pc
    <2>2. lvl[c] \in Level
      BY <1>7, LevelFacts DEF TypeOK, EnableInt, At
    <2>3. Top(c).flags \in BOOLEAN
      BY <2>2 DEF TypeOK, Top, Frame
    <2>4. ifl' \in [Cpu -> BOOLEAN]
      BY <1>7, <2>3 DEF EnableInt, TypeOK
    <2> QED
      BY <1>7, <2>1, <2>4 DEF EnableInt, TypeOK, globals
  <1>8. ASSUME NEW c \in Cpu, ExitWorld(c) PROVE TypeOK'
    <2>1. frame' \in [Cpu -> [Level -> Frame]]
      BY <1>8, TypeGoto DEF ExitWorld, At, Pc
    <2> QED
      BY <1>8, <2>1 DEF ExitWorld, TypeOK, globals
  <1>9. ASSUME NEW c \in Cpu, Tail(c) PROVE TypeOK'
    <2>1. frame' \in [Cpu -> [Level -> Frame]]
      BY <1>9, TypeGoto DEF Tail, At, Pc
    <2> QED
      BY <1>9, <2>1 DEF Tail, TypeOK, globals
  <1>10. ASSUME NEW c \in Cpu, Return(c) PROVE TypeOK'
    <2>1. lvl[c] \in Level /\ lvl[c] - 1 \in 0 .. Depth
      BY <1>10, LevelFacts DEF TypeOK, Return, At
    <2>2. frame' \in [Cpu -> [Level -> Frame]]
      BY <1>10, <2>1, NoFrameType DEF Return, TypeOK
    <2>3. lvl' \in [Cpu -> 0 .. Depth]
      BY <1>10, <2>1 DEF Return, TypeOK
    <2>4. Top(c).if0 \in BOOLEAN
      BY <2>1 DEF TypeOK, Top, Frame
    <2>5. ifl' \in [Cpu -> BOOLEAN]
      BY <1>10, <2>4 DEF Return, TypeOK
    <2> QED
      BY <1>10, <2>2, <2>3, <2>5 DEF Return, TypeOK, globals
  <1>11. ASSUME NEW c \in Cpu, NEW who \in Handler, Call(c, who) PROVE TypeOK'
    BY <1>11, EnterType DEF Call, TypeOK, globals, Entry
  <1>12. ASSUME NEW c \in Cpu, NEW who \in Writer, BodyCall(c, who) PROVE TypeOK'
    BY <1>12, EnterType DEF BodyCall, TypeOK, globals, Handler, Entry
  <1>13. ASSUME NEW c \in Cpu, NEW who \in Writer, Interrupt(c, who) PROVE TypeOK'
    <2>1. ifl' \in [Cpu -> BOOLEAN]
      BY <1>13 DEF Interrupt, TypeOK
    <2> QED
      BY <1>13, <2>1, EnterType DEF Interrupt, TypeOK, globals, Handler, Entry
  <1>14. ASSUME NEW c \in Cpu, NEW how \in Fault, NEW a \in Addr, PageFault(c, how, a)
         PROVE  TypeOK'
    <2>1. ifl' \in [Cpu -> BOOLEAN] /\ cr2' \in [Cpu -> Addr \cup {NoAddr}]
      BY <1>14 DEF PageFault, TypeOK
    <2>2. how \in Entry
      BY FaultAssumption DEF Entry
    <2> QED
      BY <1>14, <2>1, <2>2, EnterType DEF PageFault, TypeOK, globals, Handler
  <1>17. ASSUME NEW c \in Cpu, LocalIrqEnable(c) PROVE TypeOK'
    BY <1>17 DEF LocalIrqEnable, TypeOK, globals
  <1>18. ASSUME NEW c \in Cpu, Sleep(c) PROVE TypeOK'
    <2>1. cr2' \in [Cpu -> Addr \cup {NoAddr}] /\ cr3' \in [Cpu -> Mm]
      BY <1>18 DEF Sleep, TypeOK
    <2>2. (slept[c] \/ Top(c).pc \in First) \in BOOLEAN
      OBVIOUS
    <2>3. slept' \in [Cpu -> BOOLEAN]
      BY <1>18, <2>2 DEF Sleep, TypeOK
    <2> QED
      BY <1>18, <2>1, <2>3 DEF Sleep, TypeOK
  <1>15. ASSUME NEW c \in Cpu, NEW m \in Mm, SwitchMm(c, m) PROVE TypeOK'
    BY <1>15 DEF SwitchMm, TypeOK, globals
  <1>16. ASSUME NEW c \in Cpu, CallerMasks(c) PROVE TypeOK'
    BY <1>16 DEF CallerMasks, TypeOK, globals
  <1> QED
    BY <1>1, <1>2, <1>3, <1>4, <1>5, <1>6, <1>7, <1>8, <1>9, <1>10, <1>11, <1>12,
       <1>13, <1>14, <1>15, <1>16, <1>17, <1>18
    DEF Next, Step, CallSetPte, CallSetPmd, CallReadl, Handler, Writer

\* The registers, flags and frames keep their types whatever nests in what.
THEOREM TypeCorrect == Spec => []TypeOK
  <1> QED
    BY TypeInit, TypeStep, PTL DEF Spec

-----------------------------------------------------------------------------
(* Interrupt flags.  A handler has the flag of its caller (off for a trap) *)
(* except from cli to popf, where it is off, and in the bodies of a user   *)
(* fault, which may turn it on; the top handler's flag is the CPU's, and a *)
(* suspended handler's is kept in the if0 of the one above.                *)

CurFlag(f) == IF f.pc \in Masked THEN FALSE ELSE OwnFlag(f)
Opens(f)   == f.entry = "user" /\ f.pc \in {"body", "body2", "sti", "tail", "tail2", "return"}
HasFlag(f, b) == b = CurFlag(f) \/ Opens(f)

TopFlag(c)    == lvl[c] > 0 => HasFlag(frame[c][lvl[c]], ifl[c])
SavedFlags(c) == \A l \in Level :
    l <= lvl[c] /\ frame[c][l].pc \in Masked => frame[c][l].flags = OwnFlag(frame[c][l])
Resumes(c)    == \A l \in Level :
    l < lvl[c] => HasFlag(frame[c][l], frame[c][l + 1].if0)

FlagInv == \A c \in Cpu : TopFlag(c) /\ SavedFlags(c) /\ Resumes(c)

LEMMA LevelBelow ==
    ASSUME TypeOK, NEW c \in Cpu
    PROVE  /\ lvl[c] \in Nat
           /\ \A l \in Level : l < lvl[c] => l + 1 \in Level /\ l + 1 <= lvl[c]
           /\ lvl[c] > 0 => lvl[c] \in Level
           /\ \A l \in Level : l \in Nat /\ l > 0
  BY DepthAssumption DEF TypeOK, Level

LEMMA FlagInit == Init => FlagInv
  <1> SUFFICES ASSUME Init, NEW c \in Cpu PROVE TopFlag(c) /\ SavedFlags(c) /\ Resumes(c)
    BY DEF FlagInv
  <1>1. lvl[c] = 0
    BY DEF Init
  <1>2. \A l \in Level : ~(l <= 0)
    BY DepthAssumption DEF Level
  <1>3. \A l \in Level : ~(l < 0)
    BY DepthAssumption DEF Level
  <1> QED
    BY <1>1, <1>2, <1>3 DEF TopFlag, SavedFlags, Resumes

\* A step of the top handler keeps the invariant if it leaves the flag the
\* handler should have, and has saved the flag by the time it is needed.
LEMMA TopStep ==
    ASSUME TypeOK, FlagInv, NEW c \in Cpu, lvl[c] > 0, lvl' = lvl,
           NEW f,
           frame' = [frame EXCEPT ![c] = [frame[c] EXCEPT ![lvl[c]] = f]],
           f.if0 = frame[c][lvl[c]].if0,
           f.pc \in Masked => f.flags = OwnFlag(f),
           HasFlag(f, ifl'[c]),
           \A d \in Cpu \ {c} : ifl'[d] = ifl[d]
    PROVE  FlagInv'
  <1>1. lvl[c] \in Level /\ lvl[c] \in Nat
    BY LevelBelow
  <1>2. /\ frame'[c][lvl[c]] = f
        /\ \A l \in Level : l # lvl[c] => frame'[c][l] = frame[c][l]
        /\ \A d \in Cpu \ {c} : frame'[d] = frame[d]
    BY <1>1 DEF TypeOK
  <1>3. ASSUME NEW d \in Cpu \ {c}
        PROVE  TopFlag(d)' /\ SavedFlags(d)' /\ Resumes(d)'
    <2>1. TopFlag(d) /\ SavedFlags(d) /\ Resumes(d)
      BY DEF FlagInv
    <2>2. frame'[d] = frame[d] /\ lvl'[d] = lvl[d] /\ ifl'[d] = ifl[d]
      BY <1>2
    <2>3. TopFlag(d)'
      BY <2>1, <2>2 DEF TopFlag, HasFlag, Opens, CurFlag, OwnFlag
    <2>4. SavedFlags(d)'
      BY <2>1, <2>2 DEF SavedFlags, OwnFlag
    <2>5. \A l \in Level : frame'[d][l] = frame[d][l]
      BY <2>2
    <2>6. Resumes(d)'
      <3> SUFFICES ASSUME NEW l \in Level, l < lvl[d]
                   PROVE  HasFlag(frame'[d][l], frame'[d][l + 1].if0)
        BY <2>2 DEF Resumes, HasFlag, Opens, CurFlag, OwnFlag
      <3> QED
        BY <2>1, <2>2, <2>5 DEF Resumes
    <2> QED
      BY <2>3, <2>4, <2>6
  <1>4. TopFlag(c)'
    BY <1>2 DEF TopFlag, HasFlag, Opens, CurFlag, OwnFlag
  <1>5. SavedFlags(c)'
    <2> SUFFICES ASSUME NEW l \in Level, l <= lvl[c], frame'[c][l].pc \in Masked
                 PROVE  frame'[c][l].flags = OwnFlag(frame'[c][l])
      BY DEF SavedFlags, OwnFlag
    <2>1. CASE l = lvl[c]
      BY <2>1, <1>2
    <2>2. CASE l # lvl[c]
      BY <2>2, <1>2 DEF FlagInv, SavedFlags
    <2> QED
      BY <2>1, <2>2
  <1>6. Resumes(c)'
    <2> SUFFICES ASSUME NEW l \in Level, l < lvl[c]
                 PROVE  HasFlag(frame'[c][l], frame'[c][l + 1].if0)
      BY DEF Resumes, HasFlag, Opens, CurFlag, OwnFlag
    <2>1. l # lvl[c] /\ l + 1 \in Level
      BY <1>1, LevelBelow
    <2>2. frame'[c][l] = frame[c][l] /\ frame'[c][l + 1].if0 = frame[c][l + 1].if0
      BY <1>2, <2>1
    <2>3. HasFlag(frame[c][l], frame[c][l + 1].if0)
      BY DEF FlagInv, Resumes
    <2> QED
      BY <2>2, <2>3
  <1> QED
    BY <1>3, <1>4, <1>5, <1>6 DEF FlagInv

\* A step that touches neither frames nor flags.
LEMMA SameFlags ==
    ASSUME FlagInv, frame' = frame, lvl' = lvl, ifl' = ifl
    PROVE  FlagInv'
  <1>1. ASSUME NEW c \in Cpu PROVE TopFlag(c)'
    BY DEF FlagInv, TopFlag, HasFlag, Opens, CurFlag, OwnFlag
  <1>2. ASSUME NEW c \in Cpu PROVE SavedFlags(c)'
    BY DEF FlagInv, SavedFlags, OwnFlag
  <1>3. ASSUME NEW c \in Cpu PROVE Resumes(c)'
    BY DEF FlagInv, Resumes, HasFlag, Opens, CurFlag, OwnFlag
  <1> QED
    BY <1>1, <1>2, <1>3 DEF FlagInv

\* A step of the top handler that only moves its program counter.
LEMMA GotoStep ==
    ASSUME TypeOK, FlagInv, NEW c \in Cpu, lvl[c] > 0, lvl' = lvl,
           NEW to, Goto(c, to),
           to \in Masked <=> frame[c][lvl[c]].pc \in Masked,
           Opens(frame[c][lvl[c]]) => to \in {"sti", "return"},
           ifl' = ifl
    PROVE  FlagInv'
  <1> DEFINE g == frame[c][lvl[c]]
             f == [g EXCEPT !.pc = to]
  <1>1. lvl[c] \in Level /\ g \in Frame
    BY LevelBelow DEF TypeOK
  <1>2. f.pc = to /\ f.if0 = g.if0 /\ f.entry = g.entry /\ f.flags = g.flags
    BY <1>1 DEF Frame
  <1>3. frame' = [frame EXCEPT ![c] = [frame[c] EXCEPT ![lvl[c]] = f]]
    BY DEF Goto
  <1>4. TopFlag(c) /\ SavedFlags(c) /\ lvl[c] <= lvl[c]
    BY <1>1, LevelBelow DEF FlagInv
  <1>5. g.pc \in Masked => g.flags = OwnFlag(g)
    BY <1>1, <1>4 DEF SavedFlags
  <1>6. OwnFlag(f) = OwnFlag(g)
    BY <1>2 DEF OwnFlag
  <1>7. f.pc \in Masked => f.flags = OwnFlag(f)
    BY <1>2, <1>5, <1>6
  <1>8. HasFlag(g, ifl[c])
    BY <1>4 DEF TopFlag
  <1>9. HasFlag(f, ifl'[c])
    <2>1. CurFlag(f) = CurFlag(g)
      BY <1>2, <1>6 DEF CurFlag
    <2>2. Opens(g) => Opens(f)
      BY <1>2 DEF Opens
    <2> QED
      BY <2>1, <2>2, <1>8 DEF HasFlag
  <1>10. f.if0 = frame[c][lvl[c]].if0
    BY <1>2
  <1> HIDE DEF f, g
  <1> QED
    BY <1>3, <1>7, <1>9, <1>10, TopStep

\* Entering a handler: its flag is the caller's, or off for a trap.
LEMMA EnterFlags ==
    ASSUME TypeOK, FlagInv, NEW c \in Cpu, NEW who \in Handler,
           NEW how \in Entry, NEW a \in Addr \cup {NoAddr},
           Enter(c, who, how, a),
           ifl'[c] = (how = "call" /\ ifl[c]),
           \A d \in Cpu \ {c} : ifl'[d] = ifl[d]
    PROVE  FlagInv'
  <1> DEFINE n == lvl[c] + 1
             new == [who |-> who, pc |-> "setPgd", entry |-> how, if0 |-> ifl[c],
                     flags |-> FALSE, pgd |-> NoMm, fault |-> a]
  <1>1. /\ n \in Level /\ lvl'[c] = n /\ lvl[c] \in Nat /\ n - 1 = lvl[c]
        /\ \A d \in Cpu \ {c} : lvl'[d] = lvl[d] /\ frame'[d] = frame[d]
        /\ frame'[c][n] = new
        /\ \A l \in Level : l < lvl[c] => frame'[c][l] = frame[c][l]
    <2>1. /\ lvl[c] < Depth /\ n \in Level
          /\ lvl' = [lvl EXCEPT ![c] = n]
          /\ \A d \in Cpu \ {c} : frame'[d] = frame[d]
          /\ frame'[c][n] = new
          /\ \A l \in Level : l < lvl[c] => frame'[c][l] = frame[c][l]
      BY EnterFrames
    <2>2. lvl[c] \in Nat /\ n - 1 = lvl[c]
      BY LevelBelow
    <2>3. lvl'[c] = n /\ \A d \in Cpu \ {c} : lvl'[d] = lvl[d]
      BY <2>1 DEF TypeOK
    <2> QED
      BY <2>1, <2>2, <2>3
  <1>2. TopFlag(c) /\ SavedFlags(c) /\ Resumes(c)
    BY DEF FlagInv
  <1>3. CurFlag(new) = (how = "call" /\ ifl[c]) /\ new.if0 = ifl[c] /\ new.pc \notin Masked
    BY DEF CurFlag, OwnFlag, Masked
  <1>4. ASSUME lvl[c] > 0
        PROVE  /\ frame'[c][lvl[c]].if0 = frame[c][lvl[c]].if0
               /\ HasFlag(frame'[c][lvl[c]], ifl[c])
               /\ frame'[c][lvl[c]].pc \in Masked =>
                    frame'[c][lvl[c]].flags = OwnFlag(frame'[c][lvl[c]])
    <2> DEFINE g == frame[c][lvl[c]]
               h == frame'[c][lvl[c]]
    <2>1. lvl[c] \in Level /\ g \in Frame /\ lvl[c] <= lvl[c]
      BY <1>4, LevelBelow DEF TypeOK
    <2>2. \/ h = g
          \/ g.pc = "body" /\ h = [g EXCEPT !.pc = "body2"]
          \/ g.pc = "tail" /\ h = [g EXCEPT !.pc = "tail2"]
      BY <1>4, EnterBelow
    <2>3. g.pc \in Masked => g.flags = OwnFlag(g)
      BY <2>1, <1>2 DEF SavedFlags
    <2>4. /\ h.if0 = g.if0 /\ h.entry = g.entry /\ h.flags = g.flags
          /\ h.pc \in Masked <=> g.pc \in Masked
      <3> HIDE DEF h
      <3> QED
        BY <2>1, <2>2 DEF Frame, Masked
    <2>5. OwnFlag(h) = OwnFlag(g)
      BY <2>4 DEF OwnFlag
    <2>6. CurFlag(h) = CurFlag(g)
      BY <2>4, <2>5 DEF CurFlag
    <2>7. Opens(g) => Opens(h)
      <3> HIDE DEF h
      <3> QED
        BY <2>1, <2>2 DEF Frame, Opens
    <2>8. HasFlag(h, ifl[c])
      BY <2>6, <2>7, <1>2, <1>4 DEF TopFlag, HasFlag
    <2> QED
      BY <2>3, <2>4, <2>5, <2>8
  <1>5. ASSUME NEW d \in Cpu \ {c}
        PROVE  TopFlag(d)' /\ SavedFlags(d)' /\ Resumes(d)'
    <2>1. TopFlag(d) /\ SavedFlags(d) /\ Resumes(d)
      BY DEF FlagInv
    <2>2. frame'[d] = frame[d] /\ lvl'[d] = lvl[d] /\ ifl'[d] = ifl[d]
      BY <1>1
    <2>3. TopFlag(d)'
      BY <2>1, <2>2 DEF TopFlag, HasFlag, Opens, CurFlag, OwnFlag
    <2>4. SavedFlags(d)'
      BY <2>1, <2>2 DEF SavedFlags, OwnFlag
    <2>5. \A l \in Level : frame'[d][l] = frame[d][l]
      BY <2>2
    <2>6. Resumes(d)'
      <3> SUFFICES ASSUME NEW l \in Level, l < lvl[d]
                   PROVE  HasFlag(frame'[d][l], frame'[d][l + 1].if0)
        BY <2>2 DEF Resumes, HasFlag, Opens, CurFlag, OwnFlag
      <3> QED
        BY <2>1, <2>2, <2>5 DEF Resumes
    <2> QED
      BY <2>3, <2>4, <2>6
  <1>6. TopFlag(c)'
    <2>1. HasFlag(new, ifl'[c])
      BY <1>3 DEF HasFlag
    <2> HIDE DEF new
    <2> QED
      BY <2>1, <1>1 DEF TopFlag, HasFlag, Opens, CurFlag, OwnFlag
  <1>7. SavedFlags(c)'
    <2> SUFFICES ASSUME NEW l \in Level, l <= n, frame'[c][l].pc \in Masked
                 PROVE  frame'[c][l].flags = OwnFlag(frame'[c][l])
      BY <1>1 DEF SavedFlags, OwnFlag
    <2>0. l \in Nat /\ l > 0
      BY LevelBelow
    <2>1. CASE l = n
      BY <2>1, <1>1, <1>3
    <2>2. CASE l = lvl[c]
      BY <2>0, <2>2, <1>4
    <2>3. CASE l < lvl[c]
      BY <2>0, <2>3, <1>1, <1>2 DEF SavedFlags
    <2> QED
      BY <1>1, <2>0, <2>1, <2>2, <2>3
  <1>8. Resumes(c)'
    <2> SUFFICES ASSUME NEW l \in Level, l < n
                 PROVE  HasFlag(frame'[c][l], frame'[c][l + 1].if0)
      BY <1>1 DEF Resumes, HasFlag, Opens, CurFlag, OwnFlag
    <2>0. l \in Nat /\ l > 0
      BY LevelBelow
    <2>1. CASE l = lvl[c]
      <3>1. frame'[c][l + 1].if0 = ifl[c]
        BY <2>1, <1>1
      <3>2. HasFlag(frame'[c][l], ifl[c])
        BY <2>0, <2>1, <1>4
      <3> QED
        BY <3>1, <3>2
    <2>2. CASE l < lvl[c]
      <3>1. l + 1 \in Level /\ (l + 1 = lvl[c] \/ l + 1 < lvl[c])
        BY <2>0, <2>2, <1>1, LevelBelow
      <3>2. frame'[c][l + 1].if0 = frame[c][l + 1].if0
        BY <3>1, <1>1, <1>4, <2>0
      <3>3. frame'[c][l] = frame[c][l]
        BY <2>2, <1>1
      <3> QED
        BY <2>2, <3>2, <3>3, <1>2 DEF Resumes
    <2> QED
      BY <1>1, <2>0, <2>1, <2>2
  <1> QED
    BY <1>5, <1>6, <1>7, <1>8 DEF FlagInv

LEMMA FlagStep == TypeOK /\ FlagInv /\ [Next]_vars => FlagInv'
  <1> SUFFICES ASSUME TypeOK, FlagInv, [Next]_vars PROVE FlagInv'
    OBVIOUS
  <1> USE DEF Top, At
  <1>1. CASE UNCHANGED vars
    BY <1>1, SameFlags DEF vars
  <1>2. ASSUME NEW c \in Cpu, SetPgd(c) PROVE FlagInv'
    <2> DEFINE g == frame[c][lvl[c]]
               f == [g EXCEPT !.pc = "setOld", !.pgd = cr3[c]]
    <2>1. lvl[c] > 0 /\ lvl[c] \in Level /\ g \in Frame /\ g.pc = "setPgd"
      BY <1>2, LevelBelow DEF TypeOK, SetPgd
    <2>2. f.pc = "setOld" /\ f.if0 = g.if0 /\ f.entry = g.entry
      BY <2>1 DEF Frame
    <2>3. frame' = [frame EXCEPT ![c] = [frame[c] EXCEPT ![lvl[c]] = f]]
      BY <1>2, <2>1 DEF SetPgd, TypeOK
    <2>4. ifl[c] = OwnFlag(g)
      BY <2>1 DEF FlagInv, TopFlag, HasFlag, Opens, CurFlag, Masked
    <2>5. HasFlag(f, ifl[c]) /\ f.pc \notin Masked /\ f.if0 = frame[c][lvl[c]].if0
      BY <2>2, <2>4 DEF HasFlag, CurFlag, OwnFlag, Masked
    <2>6. lvl' = lvl /\ ifl' = ifl
      BY <1>2 DEF SetPgd
    <2> HIDE DEF f, g
    <2> QED
      BY <2>1, <2>3, <2>5, <2>6, TopStep
  <1>3. ASSUME NEW c \in Cpu, SetOld(c) PROVE FlagInv'
    <2> DEFINE to == IF Top(c).who = "vmcs_readl" THEN "return" ELSE "cli"
    <2>1. to \in Masked <=> frame[c][lvl[c]].pc \in Masked
      BY <1>3 DEF SetOld, Masked
    <2>2. Goto(c, to) /\ ~Opens(frame[c][lvl[c]])
      BY <1>3 DEF SetOld, Opens
    <2> QED
      BY <1>3, <2>1, <2>2, GotoStep DEF SetOld
  <1>4. ASSUME NEW c \in Cpu, DisableIntFirst(c) PROVE FlagInv'
    <2> DEFINE g == frame[c][lvl[c]]
               f == [g EXCEPT !.pc = "enter", !.flags = ifl[c]]
    <2>1. lvl[c] \in Level /\ g \in Frame /\ g.pc = "cli"
      BY <1>4, LevelBelow DEF TypeOK, DisableIntFirst
    <2>2. f.pc = "enter" /\ f.if0 = g.if0 /\ f.entry = g.entry /\ f.flags = ifl[c]
      BY <2>1 DEF Frame
    <2>3. frame' = [frame EXCEPT ![c] = [frame[c] EXCEPT ![lvl[c]] = f]]
      BY <1>4, <2>1 DEF DisableIntFirst, TypeOK
    <2>4. ifl[c] = OwnFlag(g)
      BY <1>4, <2>1 DEF FlagInv, TopFlag, HasFlag, Opens, CurFlag, Masked, DisableIntFirst
    <2>5. OwnFlag(f) = OwnFlag(g)
      BY <2>2 DEF OwnFlag
    <2>6. ifl'[c] = FALSE /\ \A d \in Cpu \ {c} : ifl'[d] = ifl[d]
      BY <1>4 DEF DisableIntFirst, TypeOK
    <2>7. HasFlag(f, ifl'[c])
      BY <2>2, <2>6 DEF HasFlag, CurFlag, Masked
    <2>8. f.if0 = frame[c][lvl[c]].if0 /\ f.flags = OwnFlag(f)
      BY <2>2, <2>4, <2>5
    <2>9. lvl' = lvl
      BY <1>4 DEF DisableIntFirst
    <2> HIDE DEF f, g
    <2> QED
      BY <1>4, <2>3, <2>6, <2>7, <2>8, <2>9, TopStep DEF DisableIntFirst
  <1>5. ASSUME NEW c \in Cpu, EnterWorld(c) PROVE FlagInv'
    <2>1. ifl[c] = FALSE
      BY <1>5 DEF FlagInv, TopFlag, HasFlag, Opens, CurFlag, Masked, EnterWorld
    <2>2. ifl' = ifl
      BY <1>5, <2>1 DEF EnterWorld, TypeOK
    <2> QED
      BY <1>5, <2>2, GotoStep DEF EnterWorld, Masked, Opens
  <1>6. ASSUME NEW c \in Cpu, Body(c) PROVE FlagInv'
    BY <1>6, GotoStep DEF Body, Masked, Opens
  <1>7. ASSUME NEW c \in Cpu, EnableInt(c) PROVE FlagInv'
    <2> DEFINE g == frame[c][lvl[c]]
               f == [g EXCEPT !.pc = "exit"]
    <2>1. lvl[c] \in Level /\ g \in Frame /\ g.pc = "sti" /\ lvl[c] <= lvl[c]
      BY <1>7, LevelBelow DEF TypeOK, EnableInt
    <2>2. f.pc = "exit" /\ f.if0 = g.if0 /\ f.entry = g.entry
      BY <2>1 DEF Frame
    <2>3. frame' = [frame EXCEPT ![c] = [frame[c] EXCEPT ![lvl[c]] = f]]
      BY <1>7 DEF EnableInt, Goto
    <2>4. g.flags = OwnFlag(g)
      BY <2>1 DEF FlagInv, SavedFlags, Masked
    <2>5. OwnFlag(f) = OwnFlag(g)
      BY <2>2 DEF OwnFlag
    <2>6. ifl'[c] = g.flags /\ \A d \in Cpu \ {c} : ifl'[d] = ifl[d]
      BY <1>7 DEF EnableInt, TypeOK
    <2>7. HasFlag(f, ifl'[c]) /\ f.pc \notin Masked
      BY <2>2, <2>4, <2>5, <2>6 DEF HasFlag, CurFlag, Masked
    <2>8. f.if0 = frame[c][lvl[c]].if0
      BY <2>2
    <2>9. lvl' = lvl /\ lvl[c] > 0
      BY <1>7 DEF EnableInt
    <2> HIDE DEF f, g
    <2> QED
      BY <2>3, <2>6, <2>7, <2>8, <2>9, TopStep
  <1>8. ASSUME NEW c \in Cpu, ExitWorld(c) PROVE FlagInv'
    BY <1>8, GotoStep DEF ExitWorld, Masked, Opens
  <1>9. ASSUME NEW c \in Cpu, Tail(c) PROVE FlagInv'
    BY <1>9, GotoStep DEF Tail, Masked, Opens
  <1>10. ASSUME NEW c \in Cpu, Return(c) PROVE FlagInv'
    <2> DEFINE n == lvl[c] - 1
               g == frame[c][lvl[c]]
    <2>1. /\ lvl[c] \in Level /\ lvl[c] \in Nat /\ n \in Nat /\ n + 1 = lvl[c]
          /\ g \in Frame /\ g.pc = "return"
      BY <1>10, LevelBelow DEF TypeOK, Return
    <2>2. /\ lvl'[c] = n
          /\ \A l \in Level : l <= n => frame'[c][l] = frame[c][l]
          /\ \A d \in Cpu \ {c} : frame'[d] = frame[d] /\ lvl'[d] = lvl[d]
      BY <1>10, <2>1, LevelBelow DEF Return, TypeOK
    <2>3. \A d \in Cpu \ {c} : ifl'[d] = ifl[d]
      BY <1>10 DEF Return, TypeOK
    <2>4. TopFlag(c) /\ SavedFlags(c) /\ Resumes(c)
      BY DEF FlagInv
    <2>5. ifl'[c] = g.if0
      <3>1. g.entry = "call" => ifl[c] = OwnFlag(g)
        BY <2>1, <2>4 DEF TopFlag, HasFlag, Opens, CurFlag, Masked
      <3>2. g.if0 \in BOOLEAN
        BY <2>1 DEF Frame
      <3>3. ifl'[c] = IF g.entry = "call" THEN ifl[c] ELSE g.if0
        BY <1>10 DEF Return, TypeOK
      <3> QED
        BY <3>1, <3>2, <3>3 DEF OwnFlag
    <2>6. ASSUME NEW d \in Cpu \ {c}
          PROVE  TopFlag(d)' /\ SavedFlags(d)' /\ Resumes(d)'
      <3>1. TopFlag(d) /\ SavedFlags(d) /\ Resumes(d)
        BY DEF FlagInv
      <3>2. frame'[d] = frame[d] /\ lvl'[d] = lvl[d] /\ ifl'[d] = ifl[d]
        BY <2>2, <2>3
      <3>3. TopFlag(d)'
        BY <3>1, <3>2 DEF TopFlag, HasFlag, Opens, CurFlag, OwnFlag
      <3>4. SavedFlags(d)'
        BY <3>1, <3>2 DEF SavedFlags, OwnFlag
      <3>5. \A l \in Level : frame'[d][l] = frame[d][l]
        BY <3>2
      <3>6. Resumes(d)'
        <4> SUFFICES ASSUME NEW l \in Level, l < lvl[d]
                     PROVE  HasFlag(frame'[d][l], frame'[d][l + 1].if0)
          BY <3>2 DEF Resumes, HasFlag, Opens, CurFlag, OwnFlag
        <4> QED
          BY <3>1, <3>2, <3>5 DEF Resumes
      <3> QED
        BY <3>3, <3>4, <3>6
    <2>7. TopFlag(c)'
      <3> SUFFICES ASSUME n > 0 PROVE HasFlag(frame'[c][n], ifl'[c])
        BY <2>2 DEF TopFlag, HasFlag, Opens, CurFlag, OwnFlag
      <3>1. n \in Level /\ n < lvl[c] /\ n <= n
        BY <2>1, DepthAssumption DEF Level
      <3>2. HasFlag(frame[c][n], frame[c][n + 1].if0)
        BY <3>1, <2>4 DEF Resumes
      <3>3. frame'[c][n] = frame[c][n]
        BY <3>1, <2>2
      <3> QED
        BY <3>2, <3>3, <2>1, <2>5
    <2>8. SavedFlags(c)'
      <3> SUFFICES ASSUME NEW l \in Level, l <= n, frame'[c][l].pc \in Masked
                   PROVE  frame'[c][l].flags = OwnFlag(frame'[c][l])
        BY <2>2 DEF SavedFlags, OwnFlag
      <3>1. l <= lvl[c] /\ frame'[c][l] = frame[c][l]
        BY <2>1, <2>2, LevelBelow
      <3> QED
        BY <3>1, <2>4 DEF SavedFlags
    <2>9. Resumes(c)'
      <3> SUFFICES ASSUME NEW l \in Level, l < n
                   PROVE  HasFlag(frame'[c][l], frame'[c][l + 1].if0)
        BY <2>2 DEF Resumes, HasFlag, Opens, CurFlag, OwnFlag
      <3>1. l < lvl[c] /\ l <= n /\ l + 1 \in Level /\ l + 1 <= n
        BY <2>1, LevelBelow
      <3>2. frame'[c][l] = frame[c][l] /\ frame'[c][l + 1] = frame[c][l + 1]
        BY <3>1, <2>2
      <3> QED
        BY <3>1, <3>2, <2>4 DEF Resumes
    <2> QED
      BY <2>6, <2>7, <2>8, <2>9 DEF FlagInv
  <1>11. ASSUME NEW c \in Cpu, NEW who \in Handler, Call(c, who) PROVE FlagInv'
    <2>1. ifl'[c] = ("call" = "call" /\ ifl[c]) /\ \A d \in Cpu \ {c} : ifl'[d] = ifl[d]
      BY <1>11 DEF Call, TypeOK
    <2> QED
      BY <1>11, <2>1, EnterFlags DEF Call, Entry
  <1>12. ASSUME NEW c \in Cpu, NEW who \in Writer, BodyCall(c, who) PROVE FlagInv'
    <2>1. ifl'[c] = ("call" = "call" /\ ifl[c]) /\ \A d \in Cpu \ {c} : ifl'[d] = ifl[d]
      BY <1>12 DEF BodyCall, TypeOK
    <2> QED
      BY <1>12, <2>1, EnterFlags DEF BodyCall, Handler, Entry
  <1>13. ASSUME NEW c \in Cpu, NEW who \in Writer, Interrupt(c, who) PROVE FlagInv'
    <2>1. ifl'[c] = ("trap" = "call" /\ ifl[c]) /\ \A d \in Cpu \ {c} : ifl'[d] = ifl[d]
      BY <1>13 DEF Interrupt, TypeOK
    <2> QED
      BY <1>13, <2>1, EnterFlags DEF Interrupt, Handler, Entry
  <1>14. ASSUME NEW c \in Cpu, NEW how \in Fault, NEW a \in Addr, PageFault(c, how, a)
         PROVE  FlagInv'
    <2>1. how \in Entry /\ how # "call"
      BY FaultAssumption DEF Entry
    <2>2. ifl'[c] = (how = "call" /\ ifl[c]) /\ \A d \in Cpu \ {c} : ifl'[d] = ifl[d]
      BY <1>14, <2>1 DEF PageFault, TypeOK
    <2> QED
      BY <1>14, <2>1, <2>2, EnterFlags DEF PageFault, Handler
  <1>17. ASSUME NEW c \in Cpu, LocalIrqEnable(c) PROVE FlagInv'
    <2>1. frame' = frame /\ lvl' = lvl /\ \A d \in Cpu \ {c} : ifl'[d] = ifl[d]
      BY <1>17 DEF LocalIrqEnable, TypeOK
    <2>2. Opens(frame[c][lvl[c]])
      BY <1>17 DEF LocalIrqEnable, InUserBody, First, Second, Opens
    <2>3. ASSUME NEW d \in Cpu PROVE TopFlag(d)'
      <3>1. TopFlag(d)
        BY DEF FlagInv
      <3>2. CASE d = c
        BY <3>2, <2>1, <2>2 DEF TopFlag, HasFlag, Opens, CurFlag, OwnFlag
      <3>3. CASE d # c
        BY <3>1, <3>3, <2>1 DEF TopFlag, HasFlag, Opens, CurFlag, OwnFlag
      <3> QED
        BY <3>2, <3>3
    <2>4. \A d \in Cpu : SavedFlags(d)' /\ Resumes(d)'
      BY <2>1 DEF FlagInv, SavedFlags, Resumes, HasFlag, Opens, CurFlag, OwnFlag
    <2> QED
      BY <2>3, <2>4 DEF FlagInv
  <1>18. ASSUME NEW c \in Cpu, Sleep(c) PROVE FlagInv'
    <2>1. frame' = frame /\ lvl' = lvl /\ ifl' = ifl
      BY <1>18 DEF Sleep
    <2> QED
      BY <2>1, SameFlags
  <1>15. ASSUME NEW c \in Cpu, NEW m \in Mm, SwitchMm(c, m) PROVE FlagInv'
    <2>1. frame' = frame /\ lvl' = lvl /\ ifl' = ifl
      BY <1>15 DEF SwitchMm
    <2> QED
      BY <2>1, SameFlags
  <1>16. ASSUME NEW c \in Cpu, CallerMasks(c) PROVE FlagInv'
    <2>1. frame' = frame /\ lvl' = lvl /\ lvl[c] = 0
      BY <1>16 DEF CallerMasks
    <2>2. \A d \in Cpu \ {c} : ifl'[d] = ifl[d]
      BY <1>16 DEF CallerMasks, TypeOK
    <2>3. ASSUME NEW d \in Cpu PROVE TopFlag(d)'
      <3>1. CASE d = c
        BY <3>1, <2>1 DEF TopFlag
      <3>2. CASE d # c
        <4>1. TopFlag(d)
          BY DEF FlagInv
        <4> QED
          BY <3>2, <4>1, <2>1, <2>2 DEF TopFlag, HasFlag, Opens, CurFlag, OwnFlag
      <3> QED
        BY <3>1, <3>2
    <2>4. \A d \in Cpu : SavedFlags(d)' /\ Resumes(d)'
      BY <2>1 DEF FlagInv, SavedFlags, Resumes, HasFlag, Opens, CurFlag, OwnFlag
    <2> QED
      BY <2>3, <2>4 DEF FlagInv
  <1> QED
    BY <1>1, <1>2, <1>3, <1>4, <1>5, <1>6, <1>7, <1>8, <1>9, <1>10, <1>11, <1>12,
       <1>13, <1>14, <1>15, <1>16, <1>17, <1>18
    DEF Next, Step, CallSetPte, CallSetPmd, CallReadl, Handler, Writer

LEMMA FlagCorrect == Spec => [](TypeOK /\ FlagInv)
  <1> QED
    BY TypeInit, TypeStep, FlagInit, FlagStep, PTL DEF Spec

\* Interrupts survive the gate on every CPU, at any depth of nesting and with
\* any number of CPUs in it.
THEOREM InterruptsAreKept == Spec => []InterruptsKept
  <1>1. TypeOK /\ FlagInv => InterruptsKept
    BY DEF FlagInv, TopFlag, HasFlag, Opens, CurFlag, Masked, InterruptsKept, Top
  <1> QED
    BY <1>1, FlagCorrect, PTL

\* No gate lets interrupts in before its popf, but for that of a user fault.
THEOREM BodiesAreMasked == Spec => []BodyMasked
  <1>1. TypeOK /\ FlagInv => BodyMasked
    BY DEF FlagInv, TopFlag, HasFlag, Opens, CurFlag, Masked, BodyMasked, Top
  <1> QED
    BY <1>1, FlagCorrect, PTL

-----------------------------------------------------------------------------
(* The page table of a machine with one CPU.  Every gate that nests in     *)
(* another finds the address space's page table in cr3, so it leaves in    *)
(* pgd_addr_cp_gate and oldcr3 what the outer one put there, unless a body *)
(* slept in the gate and others had them meanwhile.                        *)

PgdSet == {"setOld", "cli", "enter"}
OldSet == {"cli", "enter", "body", "body2", "sti", "exit"}

GateGlobals(c) == \A l \in Level : l <= lvl[c] =>
    /\ frame[c][l].pc \in PgdSet => pgdGate = mm[c] /\ frame[c][l].pgd = mm[c]
    /\ frame[c][l].pc \in OldSet => oldcr3 = mm[c]

PgInv == \A c \in Cpu : ~slept[c] => cr3[c] = mm[c] /\ GateGlobals(c)

LEMMA PgInit == Init => PgInv
  <1> SUFFICES ASSUME Init, NEW c \in Cpu PROVE cr3[c] = mm[c] /\ GateGlobals(c)
    BY DEF PgInv
  <1>1. \A l \in Level : ~(l <= lvl[c])
    BY DepthAssumption DEF Level, Init
  <1> QED
    BY <1>1 DEF GateGlobals, Init

\* A step of the top handler keeps the invariant if its own frame respects it
\* and the globals, if written, hold the address space's page table.
LEMMA PgTop ==
    ASSUME TypeOK, PgInv, NEW c \in Cpu, \A d \in Cpu : d = c, ~slept[c],
           lvl[c] > 0, lvl' = lvl, mm' = mm, NEW f,
           frame' = [frame EXCEPT ![c] = [frame[c] EXCEPT ![lvl[c]] = f]],
           cr3'[c] = mm[c],
           pgdGate' \in {pgdGate, mm[c]}, oldcr3' \in {oldcr3, mm[c]},
           f.pc \in PgdSet => pgdGate' = mm[c] /\ f.pgd = mm[c],
           f.pc \in OldSet => oldcr3' = mm[c]
    PROVE  PgInv'
  <1>1. lvl[c] \in Level
    BY LevelBelow
  <1>2. /\ frame'[c][lvl[c]] = f
        /\ \A l \in Level : l # lvl[c] => frame'[c][l] = frame[c][l]
    BY <1>1 DEF TypeOK
  <1>3. GateGlobals(c)'
    <2> SUFFICES ASSUME NEW l \in Level, l <= lvl[c]
                 PROVE  /\ frame'[c][l].pc \in PgdSet => pgdGate' = mm[c] /\ frame'[c][l].pgd = mm[c]
                        /\ frame'[c][l].pc \in OldSet => oldcr3' = mm[c]
      BY DEF GateGlobals
    <2>1. CASE l = lvl[c]
      BY <2>1, <1>2
    <2>2. CASE l # lvl[c]
      BY <2>2, <1>2 DEF PgInv, GateGlobals
    <2> QED
      BY <2>1, <2>2
  <1> QED
    BY <1>3 DEF PgInv

\* The same for a step that only moves the program counter.
LEMMA PgGoto ==
    ASSUME TypeOK, PgInv, NEW c \in Cpu, \A d \in Cpu : d = c, ~slept[c],
           lvl[c] > 0, lvl' = lvl, mm' = mm, NEW to, Goto(c, to),
           cr3'[c] = mm[c],
           pgdGate' \in {pgdGate, mm[c]}, oldcr3' \in {oldcr3, mm[c]},
           to \in PgdSet => pgdGate' = mm[c] /\ frame[c][lvl[c]].pgd = mm[c],
           to \in OldSet => oldcr3' = mm[c]
    PROVE  PgInv'
  <1> DEFINE f == [frame[c][lvl[c]] EXCEPT !.pc = to]
  <1>1. frame[c][lvl[c]] \in Frame
    BY LevelBelow DEF TypeOK
  <1>2. f.pc = to /\ f.pgd = frame[c][lvl[c]].pgd
    BY <1>1 DEF Frame
  <1>3. frame' = [frame EXCEPT ![c] = [frame[c] EXCEPT ![lvl[c]] = f]]
    BY DEF Goto
  <1>4. /\ f.pc \in PgdSet => pgdGate' = mm[c] /\ f.pgd = mm[c]
        /\ f.pc \in OldSet => oldcr3' = mm[c]
    BY <1>2
  <1> HIDE DEF f
  <1> QED
    BY <1>3, <1>4, PgTop

\* What a handler on top may rely on.
LEMMA TopGlobals ==
    ASSUME TypeOK, PgInv, NEW c \in Cpu, lvl[c] > 0, ~slept[c]
    PROVE  /\ cr3[c] = mm[c]
           /\ frame[c][lvl[c]].pc \in PgdSet => pgdGate = mm[c] /\ frame[c][lvl[c]].pgd = mm[c]
           /\ frame[c][lvl[c]].pc \in OldSet => oldcr3 = mm[c]
  <1>1. lvl[c] \in Level /\ lvl[c] <= lvl[c]
    BY LevelBelow
  <1> QED
    BY <1>1 DEF PgInv, GateGlobals

LEMMA PgEnter ==
    ASSUME TypeOK, PgInv, NEW c \in Cpu, \A d \in Cpu : d = c, ~slept[c],
           NEW who \in Handler, NEW how \in Entry,
           NEW a \in Addr \cup {NoAddr}, Enter(c, who, how, a),
           UNCHANGED <<globals, cr3, mm>>
    PROVE  PgInv'
  <1> DEFINE n == lvl[c] + 1
             new == [who |-> who, pc |-> "setPgd", entry |-> how, if0 |-> ifl[c],
                     flags |-> FALSE, pgd |-> NoMm, fault |-> a]
  <1>0. /\ lvl[c] < Depth /\ n \in Level
        /\ lvl' = [lvl EXCEPT ![c] = n]
        /\ \A d \in Cpu \ {c} : frame'[d] = frame[d]
        /\ frame'[c][n] = new
        /\ \A l \in Level : l < lvl[c] => frame'[c][l] = frame[c][l]
    BY EnterFrames
  <1>1. /\ n \in Level /\ lvl[c] \in Nat /\ lvl' = [lvl EXCEPT ![c] = n]
        /\ \A l \in Level : l < lvl[c] => frame'[c][l] = frame[c][l]
    BY <1>0, LevelBelow
  <1>2. frame'[c][n].pc = "setPgd"
    BY <1>0
  <1>3. lvl'[c] = n
    BY <1>1 DEF TypeOK
  <1>4. ASSUME lvl[c] > 0
        PROVE  /\ frame'[c][lvl[c]].pc \in PgdSet => pgdGate = mm[c] /\ frame'[c][lvl[c]].pgd = mm[c]
               /\ frame'[c][lvl[c]].pc \in OldSet => oldcr3 = mm[c]
    <2> DEFINE g == frame[c][lvl[c]]
               h == frame'[c][lvl[c]]
    <2>1. g \in Frame
      BY <1>4, LevelBelow DEF TypeOK
    <2>2. \/ h = g
          \/ g.pc = "body" /\ h = [g EXCEPT !.pc = "body2"]
          \/ g.pc = "tail" /\ h = [g EXCEPT !.pc = "tail2"]
      BY <1>4, EnterBelow
    <2>3. /\ h.pc \in PgdSet => g.pc \in PgdSet
          /\ h.pc \in OldSet => g.pc \in OldSet
          /\ h.pgd = g.pgd
      <3> HIDE DEF h
      <3> QED
        BY <2>1, <2>2 DEF Frame, PgdSet, OldSet
    <2> QED
      BY <1>4, <2>3, TopGlobals
  <1>5. GateGlobals(c)'
    <2> SUFFICES ASSUME NEW l \in Level, l <= n
                 PROVE  /\ frame'[c][l].pc \in PgdSet => pgdGate = mm[c] /\ frame'[c][l].pgd = mm[c]
                        /\ frame'[c][l].pc \in OldSet => oldcr3 = mm[c]
      BY <1>3 DEF GateGlobals, globals
    <2>0. l \in Nat /\ l > 0
      BY LevelBelow
    <2>1. CASE l = n
      BY <2>1, <1>2 DEF PgdSet, OldSet
    <2>2. CASE l = lvl[c]
      BY <2>0, <2>2, <1>4
    <2>3. CASE l < lvl[c]
      BY <2>0, <2>3, <1>1 DEF PgInv, GateGlobals
    <2> QED
      BY <1>1, <2>0, <2>1, <2>2, <2>3
  <1>6. cr3'[c] = mm'[c]
    BY DEF PgInv
  <1> QED
    BY <1>5, <1>6 DEF PgInv

\* After a sleep nothing is claimed.
LEMMA PgSlept ==
    ASSUME NEW c \in Cpu, \A d \in Cpu : d = c, slept[c], UNCHANGED slept
    PROVE  PgInv'
  BY DEF PgInv

LEMMA PgStep ==
    ASSUME \A c, d \in Cpu : c = d
    PROVE  TypeOK /\ PgInv /\ [Next]_vars => PgInv'
  <1> SUFFICES ASSUME TypeOK, PgInv, [Next]_vars PROVE PgInv'
    OBVIOUS
  <1> USE DEF Top, At
  <1>1. CASE UNCHANGED vars
    BY <1>1 DEF PgInv, GateGlobals, vars
  <1>2. ASSUME NEW c \in Cpu, SetPgd(c) PROVE PgInv'
    <2> SUFFICES ASSUME ~slept[c] PROVE PgInv'
      BY <1>2, PgSlept DEF SetPgd
    <2> DEFINE g == frame[c][lvl[c]]
               f == [g EXCEPT !.pc = "setOld", !.pgd = cr3[c]]
    <2>1. lvl[c] > 0 /\ lvl[c] \in Level /\ g \in Frame
      BY <1>2, LevelBelow DEF TypeOK, SetPgd
    <2>2. f.pc = "setOld" /\ f.pgd = cr3[c]
      BY <2>1 DEF Frame
    <2>3. frame' = [frame EXCEPT ![c] = [frame[c] EXCEPT ![lvl[c]] = f]]
      BY <1>2, <2>1 DEF SetPgd, TypeOK
    <2>4. pgdGate' = mm[c] /\ cr3[c] = mm[c]
      BY <1>2, <2>1, TopGlobals DEF SetPgd
    <2>5. UNCHANGED <<lvl, mm, cr3, oldcr3>>
      BY <1>2 DEF SetPgd
    <2>6. f.pc \in PgdSet /\ f.pc \notin OldSet
      BY <2>2 DEF PgdSet, OldSet
    <2> HIDE DEF f, g
    <2> QED
      BY <2>1, <2>2, <2>3, <2>4, <2>5, <2>6, PgTop
  <1>3. ASSUME NEW c \in Cpu, SetOld(c) PROVE PgInv'
    <2> SUFFICES ASSUME ~slept[c] PROVE PgInv'
      BY <1>3, PgSlept DEF SetOld
    <2> DEFINE to == IF Top(c).who = "vmcs_readl" THEN "return" ELSE "cli"
    <2>1. /\ oldcr3' = mm[c] /\ pgdGate = mm[c] /\ cr3[c] = mm[c]
          /\ frame[c][lvl[c]].pgd = mm[c]
      BY <1>3, TopGlobals DEF SetOld, PgdSet
    <2>2. Goto(c, to)
      BY <1>3 DEF SetOld
    <2> HIDE DEF to
    <2> QED
      BY <1>3, <2>1, <2>2, PgGoto DEF SetOld
  <1>4. ASSUME NEW c \in Cpu, DisableIntFirst(c) PROVE PgInv'
    <2> SUFFICES ASSUME ~slept[c] PROVE PgInv'
      BY <1>4, PgSlept DEF DisableIntFirst
    <2> DEFINE g == frame[c][lvl[c]]
               f == [g EXCEPT !.pc = "enter", !.flags = ifl[c]]
    <2>1. lvl[c] > 0 /\ lvl[c] \in Level /\ g \in Frame /\ g.pc = "cli"
      BY <1>4, LevelBelow DEF TypeOK, DisableIntFirst
    <2>2. f.pc = "enter" /\ f.pgd = g.pgd
      BY <2>1 DEF Frame
    <2>3. frame' = [frame EXCEPT ![c] = [frame[c] EXCEPT ![lvl[c]] = f]]
      BY <1>4, <2>1 DEF DisableIntFirst, TypeOK
    <2>4. pgdGate = mm[c] /\ oldcr3 = mm[c] /\ cr3[c] = mm[c] /\ g.pgd = mm[c]
      BY <2>1, TopGlobals DEF PgdSet, OldSet
    <2>5. UNCHANGED <<lvl, mm, cr3, pgdGate, oldcr3>>
      BY <1>4 DEF DisableIntFirst, globals
    <2> HIDE DEF f, g
    <2> QED
      BY <2>1, <2>2, <2>3, <2>4, <2>5, PgTop
  <1>5. ASSUME NEW c \in Cpu, EnterWorld(c) PROVE PgInv'
    <2> SUFFICES ASSUME ~slept[c] PROVE PgInv'
      BY <1>5, PgSlept DEF EnterWorld
    <2>1. /\ oldcr3 = mm[c] /\ pgdGate = mm[c]
          /\ frame[c][lvl[c]].pgd = mm[c]
      BY <1>5, TopGlobals DEF EnterWorld, PgdSet, OldSet
    <2>2. cr3'[c] = mm[c]
      BY <1>5, <2>1 DEF EnterWorld, TypeOK
    <2> QED
      BY <1>5, <2>1, <2>2, PgGoto DEF EnterWorld, PgdSet, OldSet, globals
  <1>6. ASSUME NEW c \in Cpu, Body(c) PROVE PgInv'
    <2> SUFFICES ASSUME ~slept[c] PROVE PgInv'
      BY <1>6, PgSlept DEF Body
    <2>1. cr3[c] = mm[c] /\ oldcr3 = mm[c]
      BY <1>6, TopGlobals DEF Body, OldSet
    <2> QED
      BY <1>6, <2>1, PgGoto DEF Body, PgdSet, OldSet, globals
  <1>7. ASSUME NEW c \in Cpu, EnableInt(c) PROVE PgInv'
    <2> SUFFICES ASSUME ~slept[c] PROVE PgInv'
      BY <1>7, PgSlept DEF EnableInt
    <2>1. cr3[c] = mm[c] /\ oldcr3 = mm[c]
      BY <1>7, TopGlobals DEF EnableInt, OldSet
    <2> QED
      BY <1>7, <2>1, PgGoto DEF EnableInt, PgdSet, OldSet, globals
  <1>8. ASSUME NEW c \in Cpu, ExitWorld(c) PROVE PgInv'
    <2> SUFFICES ASSUME ~slept[c] PROVE PgInv'
      BY <1>8, PgSlept DEF ExitWorld
    <2>1. cr3'[c] = mm[c]
      BY <1>8, TopGlobals DEF ExitWorld, OldSet, TypeOK
    <2> QED
      BY <1>8, <2>1, PgGoto DEF ExitWorld, PgdSet, OldSet, globals
  <1>9. ASSUME NEW c \in Cpu, Tail(c) PROVE PgInv'
    <2> SUFFICES ASSUME ~slept[c] PROVE PgInv'
      BY <1>9, PgSlept DEF Tail
    <2>1. cr3[c] = mm[c]
      BY <1>9, TopGlobals DEF Tail
    <2> QED
      BY <1>9, <2>1, PgGoto DEF Tail, PgdSet, OldSet, globals
  <1>10. ASSUME NEW c \in Cpu, Return(c) PROVE PgInv'
    <2> SUFFICES ASSUME ~slept[c] PROVE PgInv'
      BY <1>10, PgSlept DEF Return
    <2> DEFINE n == lvl[c] - 1
    <2>1. lvl[c] \in Level /\ lvl[c] \in Nat /\ n \in Nat /\ n + 1 = lvl[c]
      BY <1>10, LevelBelow DEF Return
    <2>2. lvl'[c] = n /\ \A l \in Level : l <= n => frame'[c][l] = frame[c][l]
      BY <1>10, <2>1, LevelBelow DEF Return, TypeOK
    <2>3. UNCHANGED <<pgdGate, oldcr3, cr3, mm>>
      BY <1>10 DEF Return, globals
    <2>4. GateGlobals(c)'
      <3> SUFFICES ASSUME NEW l \in Level, l <= n
                   PROVE  /\ frame'[c][l].pc \in PgdSet => pgdGate = mm[c] /\ frame'[c][l].pgd = mm[c]
                          /\ frame'[c][l].pc \in OldSet => oldcr3 = mm[c]
        BY <2>2, <2>3 DEF GateGlobals
      <3>1. l <= lvl[c] /\ frame'[c][l] = frame[c][l]
        BY <2>1, <2>2, LevelBelow
      <3> QED
        BY <3>1 DEF PgInv, GateGlobals
    <2> QED
      BY <2>3, <2>4 DEF PgInv
  <1>11. ASSUME NEW c \in Cpu, NEW who \in Handler, Call(c, who) PROVE PgInv'
    <2> SUFFICES ASSUME ~slept[c] PROVE PgInv'
      BY <1>11, PgSlept DEF Call
    <2> QED
      BY <1>11, PgEnter DEF Call, Entry
  <1>12. ASSUME NEW c \in Cpu, NEW who \in Writer, BodyCall(c, who) PROVE PgInv'
    <2> SUFFICES ASSUME ~slept[c] PROVE PgInv'
      BY <1>12, PgSlept DEF BodyCall
    <2> QED
      BY <1>12, PgEnter DEF BodyCall, Handler, Entry
  <1>13. ASSUME NEW c \in Cpu, NEW who \in Writer, Interrupt(c, who) PROVE PgInv'
    <2> SUFFICES ASSUME ~slept[c] PROVE PgInv'
      BY <1>13, PgSlept DEF Interrupt
    <2> QED
      BY <1>13, PgEnter DEF Interrupt, Handler, Entry
  <1>14. ASSUME NEW c \in Cpu, NEW how \in Fault, NEW a \in Addr, PageFault(c, how, a)
         PROVE  PgInv'
    <2> SUFFICES ASSUME ~slept[c] PROVE PgInv'
      BY <1>14, PgSlept DEF PageFault
    <2> QED
      BY <1>14, PgEnter, FaultAssumption DEF PageFault, Handler, Entry
  <1>17. ASSUME NEW c \in Cpu, LocalIrqEnable(c) PROVE PgInv'
    BY <1>17 DEF LocalIrqEnable, PgInv, GateGlobals, globals
  <1>18. ASSUME NEW c \in Cpu, Sleep(c) PROVE PgInv'
    <2> SUFFICES ASSUME ~slept'[c] PROVE PgInv'
      BY DEF PgInv
    <2>1. Top(c).pc \in Second /\ lvl'[c] = 1 /\ cr3'[c] = mm[c]
      BY <1>18 DEF Sleep, InUserBody, TypeOK
    <2>2. \A l \in Level : l <= 1 => l = 1
      BY LevelBelow
    <2>3. frame'[c][1].pc \notin PgdSet \cup OldSet
      BY <1>18, <2>1 DEF Sleep, Second, PgdSet, OldSet
    <2> QED
      BY <1>18, <2>1, <2>2, <2>3 DEF Sleep, PgInv, GateGlobals
  <1>15. ASSUME NEW c \in Cpu, NEW m \in Mm, SwitchMm(c, m) PROVE PgInv'
    <2>1. cr3'[c] = mm'[c] /\ lvl'[c] = 0
      BY <1>15 DEF SwitchMm, TypeOK
    <2>2. \A l \in Level : ~(l <= 0)
      BY DepthAssumption DEF Level
    <2> QED
      BY <2>1, <2>2 DEF PgInv, GateGlobals
  <1>16. ASSUME NEW c \in Cpu, CallerMasks(c) PROVE PgInv'
    <2> SUFFICES ASSUME ~slept[c] PROVE PgInv'
      BY <1>16, PgSlept DEF CallerMasks
    <2> QED
      BY <1>16 DEF CallerMasks, PgInv, GateGlobals, globals
  <1> QED
    BY <1>1, <1>2, <1>3, <1>4, <1>5, <1>6, <1>7, <1>8, <1>9, <1>10, <1>11, <1>12,
       <1>13, <1>14, <1>15, <1>16, <1>17, <1>18
    DEF Next, Step, CallSetPte, CallSetPmd, CallReadl, Handler, Writer

\* On one CPU the two globals of the gate are enough, however deep it nests:
\* the CPU is on its own address space's page table, until a handler sleeps in it.
THEOREM PageTableIsKept ==
    ASSUME \A c, d \in Cpu : c = d
    PROVE  Spec => []OwnPageTable
  <1>1. TypeOK /\ PgInv /\ [Next]_vars => PgInv'
    BY PgStep
  <1>2. PgInv => OwnPageTable
    BY DEF PgInv, OwnPageTable
  <1> QED
    BY <1>1, <1>2, PgInit, TypeInit, TypeStep, PTL DEF Spec

=============================================================================
