------------------------- MODULE ChildMonitor_proofs -------------------------
(***************************************************************************)
(* Proofs about ChildMonitor for any children, table, buffer and output    *)
(* sizes.                                                                  *)
(***************************************************************************)
EXTENDS ChildMonitor, FiniteSetTheorems, SequenceTheorems, TLAPS

LEMMA NextSets == SetsTyped /\ [Next]_vars => SetsTyped'
<1> SUFFICES ASSUME SetsTyped, [Next]_vars PROVE SetsTyped'
  OBVIOUS
<1> USE DEF SetsTyped, shared, input, main, io, wakes, os
<1>1. CASE WakeupIoLoop
  BY <1>1 DEF WakeupIoLoop
<1>2. CASE Tick
  BY <1>2 DEF Tick, StartTick
<1>3. CASE TickForOtherReason
  BY <1>3 DEF TickForOtherReason, StartTick
<1>4. CASE Drain
  BY <1>4 DEF Drain
<1>5. CASE EndTick
  BY <1>5 DEF EndTick, CallWakeup
<1>6. CASE Shutdown
  BY <1>6 DEF Shutdown, CallWakeup
<1>7. CASE JoinIoThread
  BY <1>7 DEF JoinIoThread
<1>8. ASSUME NEW c \in Children, NotifyDeath(c) PROVE SetsTyped'
  BY <1>8 DEF NotifyDeath, Flush, ParseAll
<1>9. ASSUME NEW c \in Children, ParseChild(c) PROVE SetsTyped'
  BY <1>9 DEF ParseChild, Parse, ParseAll, TimerAfter
<1>10. CASE IoTop
  BY <1>10 DEF IoTop, RemoveThenAdd, Remove, Admitted
<1>11. CASE IoExit
  BY <1>11 DEF IoExit, Remove
<1>12. CASE IoEvents
  BY <1>12 DEF IoEvents
<1>13. CASE IoPoll
  BY <1>13 DEF IoPoll, Ready
<1>14. CASE IoPollTimeout
  BY <1>14 DEF IoPollTimeout
<1>15. CASE IoSignals
  BY <1>15 DEF IoSignals, KillSeen
<1>16. CASE IoReap
  BY <1>16 DEF IoReap, MarkForRemoval
<1>17. CASE IoPrewarm
  BY <1>17 DEF IoPrewarm, MarkForRemoval
<1>18. ASSUME NEW c \in Children, IoChild(c) PROVE SetsTyped'
  BY <1>18 DEF IoChild, IoRead, IoBufferFull, IoEndOfOutput
<1>19. CASE IoWakeMain
  BY <1>19 DEF IoWakeMain, WakeOrRemember
<1>20. ASSUME NEW c \in Children, AddChild(c) PROVE SetsTyped'
  BY <1>20 DEF AddChild, CallWakeup
<1>21. ASSUME NEW c \in Children, MarkForClose(c) PROVE SetsTyped'
  BY <1>21 DEF MarkForClose, CallWakeup
<1>22. CASE DelayOver
  BY <1>22 DEF DelayOver
<1>23. ASSUME NEW c \in Children, InputAges(c) PROVE SetsTyped'
  BY <1>23 DEF InputAges
<1>24. ASSUME NEW c \in Children, ChildPrints(c) PROVE SetsTyped'
  BY <1>24 DEF ChildPrints
<1>25. ASSUME NEW c \in Children, ChildExits(c) PROVE SetsTyped'
  BY <1>25 DEF ChildExits
<1>26. ASSUME NEW c \in Children, PtyReleased(c) PROVE SetsTyped'
  BY <1>26 DEF PtyReleased
<1>27. ASSUME NEW s \in Signals, SignalArrives(s) PROVE SetsTyped'
  BY <1>27 DEF SignalArrives
<1>28. CASE UNCHANGED vars
  BY <1>28 DEF vars
<1> QED
  BY <1>1, <1>2, <1>3, <1>4, <1>5, <1>6, <1>7, <1>8, <1>9, <1>10, <1>11, <1>12, <1>13, <1>14,
     <1>15, <1>16, <1>17, <1>18, <1>19, <1>20, <1>21, <1>22, <1>23, <1>24, <1>25, <1>26, <1>27, <1>28
  DEF Next, MainThread, IoThread, Calls, Environment

LEMMA NextFlags == FlagsTyped /\ [Next]_vars => FlagsTyped'
<1> SUFFICES ASSUME FlagsTyped, [Next]_vars PROVE FlagsTyped'
  OBVIOUS
<1> USE DEF FlagsTyped, shared, input, main, io, wakes, os
<1>1. CASE WakeupIoLoop
  BY <1>1 DEF WakeupIoLoop
<1>2. CASE Tick
  BY <1>2 DEF Tick, StartTick
<1>3. CASE TickForOtherReason
  BY <1>3 DEF TickForOtherReason, StartTick
<1>4. CASE Drain
  BY <1>4 DEF Drain
<1>5. CASE EndTick
  BY <1>5 DEF EndTick, CallWakeup
<1>6. CASE Shutdown
  BY <1>6 DEF Shutdown, CallWakeup
<1>7. CASE JoinIoThread
  BY <1>7 DEF JoinIoThread
<1>8. ASSUME NEW c \in Children, NotifyDeath(c) PROVE FlagsTyped'
  BY <1>8 DEF NotifyDeath, Flush, ParseAll
<1>9. ASSUME NEW c \in Children, ParseChild(c) PROVE FlagsTyped'
  BY <1>9 DEF ParseChild, Parse, ParseAll, TimerAfter
<1>10. CASE IoTop
  BY <1>10 DEF IoTop, RemoveThenAdd, Remove, Admitted
<1>11. CASE IoExit
  BY <1>11 DEF IoExit, Remove
<1>12. CASE IoEvents
  BY <1>12 DEF IoEvents
<1>13. CASE IoPoll
  BY <1>13 DEF IoPoll, Ready
<1>14. CASE IoPollTimeout
  BY <1>14 DEF IoPollTimeout
<1>15. CASE IoSignals
  BY <1>15 DEF IoSignals, KillSeen
<1>16. CASE IoReap
  BY <1>16 DEF IoReap, MarkForRemoval
<1>17. CASE IoPrewarm
  BY <1>17 DEF IoPrewarm, MarkForRemoval
<1>18. ASSUME NEW c \in Children, IoChild(c) PROVE FlagsTyped'
  BY <1>18 DEF IoChild, IoRead, IoBufferFull, IoEndOfOutput
<1>19. CASE IoWakeMain
  BY <1>19 DEF IoWakeMain, WakeOrRemember
<1>20. ASSUME NEW c \in Children, AddChild(c) PROVE FlagsTyped'
  BY <1>20 DEF AddChild, CallWakeup
<1>21. ASSUME NEW c \in Children, MarkForClose(c) PROVE FlagsTyped'
  BY <1>21 DEF MarkForClose, CallWakeup
<1>22. CASE DelayOver
  BY <1>22 DEF DelayOver
<1>23. ASSUME NEW c \in Children, InputAges(c) PROVE FlagsTyped'
  BY <1>23 DEF InputAges
<1>24. ASSUME NEW c \in Children, ChildPrints(c) PROVE FlagsTyped'
  BY <1>24 DEF ChildPrints
<1>25. ASSUME NEW c \in Children, ChildExits(c) PROVE FlagsTyped'
  BY <1>25 DEF ChildExits
<1>26. ASSUME NEW c \in Children, PtyReleased(c) PROVE FlagsTyped'
  BY <1>26 DEF PtyReleased
<1>27. ASSUME NEW s \in Signals, SignalArrives(s) PROVE FlagsTyped'
  BY <1>27 DEF SignalArrives
<1>28. CASE UNCHANGED vars
  BY <1>28 DEF vars
<1> QED
  BY <1>1, <1>2, <1>3, <1>4, <1>5, <1>6, <1>7, <1>8, <1>9, <1>10, <1>11, <1>12, <1>13, <1>14,
     <1>15, <1>16, <1>17, <1>18, <1>19, <1>20, <1>21, <1>22, <1>23, <1>24, <1>25, <1>26, <1>27, <1>28
  DEF Next, MainThread, IoThread, Calls, Environment

LEMMA NextValues == TypeOK /\ [Next]_vars => ValuesTyped'
<1> SUFFICES ASSUME SetsTyped, ValuesTyped, [Next]_vars PROVE ValuesTyped'
  BY DEF TypeOK
<1> USE SizesAssumption, OptionsAssumption DEF ValuesTyped, SetsTyped, shared, input, main, io, wakes, os
<1>1. CASE WakeupIoLoop
  BY <1>1 DEF WakeupIoLoop
<1>2. CASE Tick
  BY <1>2 DEF Tick, StartTick
<1>3. CASE TickForOtherReason
  BY <1>3 DEF TickForOtherReason, StartTick
<1>4. CASE Drain
  BY <1>4 DEF Drain
<1>5. CASE EndTick
  BY <1>5 DEF EndTick, CallWakeup
<1>6. CASE Shutdown
  BY <1>6 DEF Shutdown, CallWakeup
<1>7. CASE JoinIoThread
  BY <1>7 DEF JoinIoThread
<1>8. ASSUME NEW c \in Children, NotifyDeath(c) PROVE ValuesTyped'
  BY <1>8 DEF NotifyDeath, Flush, ParseAll
<1>9. ASSUME NEW c \in Children, ParseChild(c) PROVE ValuesTyped'
  <2>1. rbuf' = rbuf \/ rbuf' = [rbuf EXCEPT ![c] = 0]
    BY <1>9 DEF ParseChild, Parse, ParseAll
  <2>2. 0 \in 0..BufSize
    BY SizesAssumption
  <2>3. rbuf' \in [Children -> 0..BufSize]
    <3>1. CASE rbuf' = rbuf
      BY <3>1
    <3>2. CASE rbuf' = [rbuf EXCEPT ![c] = 0]
      BY <2>2, <3>2
    <3> QED
      BY <2>1, <3>1, <3>2
  <2> QED
    BY <1>9, <2>3 DEF ParseChild
<1>10. CASE IoTop
  BY <1>10 DEF IoTop, RemoveThenAdd, Remove, Admitted
<1>11. CASE IoExit
  BY <1>11 DEF IoExit, Remove
<1>12. CASE IoEvents
  BY <1>12 DEF IoEvents
<1>13. CASE IoPoll
  BY <1>13 DEF IoPoll, Ready
<1>14. CASE IoPollTimeout
  BY <1>14 DEF IoPollTimeout
<1>15. CASE IoSignals
  BY <1>15 DEF IoSignals, KillSeen
<1>16. CASE IoReap
  BY <1>16 DEF IoReap, MarkForRemoval
<1>17. CASE IoPrewarm
  BY <1>17 DEF IoPrewarm, MarkForRemoval
<1>18. ASSUME NEW c \in Children, IoChild(c) PROVE ValuesTyped'
  <2>1. ASSUME NEW n \in 1..pty[c], IoRead(c, n) PROVE ValuesTyped'
    BY <1>18, <2>1 DEF IoChild, IoRead
  <2>2. CASE IoBufferFull(c) \/ IoEndOfOutput(c)
    BY <1>18, <2>2 DEF IoChild, IoBufferFull, IoEndOfOutput
  <2> QED
    BY <1>18, <2>1, <2>2 DEF IoChild
<1>19. CASE IoWakeMain
  BY <1>19 DEF IoWakeMain, WakeOrRemember
<1>20. ASSUME NEW c \in Children, AddChild(c) PROVE ValuesTyped'
  BY <1>20 DEF AddChild, CallWakeup
<1>21. ASSUME NEW c \in Children, MarkForClose(c) PROVE ValuesTyped'
  BY <1>21 DEF MarkForClose, CallWakeup
<1>22. CASE DelayOver
  BY <1>22 DEF DelayOver
<1>23. ASSUME NEW c \in Children, InputAges(c) PROVE ValuesTyped'
  BY <1>23 DEF InputAges
<1>24. ASSUME NEW c \in Children, ChildPrints(c) PROVE ValuesTyped'
  BY <1>24 DEF ChildPrints
<1>25. ASSUME NEW c \in Children, ChildExits(c) PROVE ValuesTyped'
  <2>1. Append(deaths, c) \in Seq(Children)
    BY AppendProperties
  <2> QED
    BY <1>25, <2>1 DEF ChildExits
<1>26. ASSUME NEW c \in Children, PtyReleased(c) PROVE ValuesTyped'
  BY <1>26 DEF PtyReleased
<1>27. ASSUME NEW s \in Signals, SignalArrives(s) PROVE ValuesTyped'
  BY <1>27 DEF SignalArrives
<1>28. CASE UNCHANGED vars
  BY <1>28 DEF vars
<1> QED
  BY <1>1, <1>2, <1>3, <1>4, <1>5, <1>6, <1>7, <1>8, <1>9, <1>10, <1>11, <1>12, <1>13, <1>14,
     <1>15, <1>16, <1>17, <1>18, <1>19, <1>20, <1>21, <1>22, <1>23, <1>24, <1>25, <1>26, <1>27, <1>28
  DEF Next, MainThread, IoThread, Calls, Environment

LEMMA InitType == Init => TypeOK
<1> SUFFICES ASSUME Init PROVE TypeOK
  OBVIOUS
<1> USE DEF Init
<1>1. SetsTyped
  BY DEF SetsTyped
<1>2. FlagsTyped
  BY DEF FlagsTyped
<1>3. ValuesTyped
  BY SizesAssumption DEF ValuesTyped
<1> QED
  BY <1>1, <1>2, <1>3 DEF TypeOK

(***************************************************************************)
(* Where a child is.                                                       *)
(***************************************************************************)

(* Only five actions move a child.                                         *)
LEMMA Movers ==
    ASSUME [Next]_vars
    PROVE  \/ /\ UNCHANGED <<addq, children, remq, notify, dead>>
              /\ Opened' = Opened
           \/ \E c \in Children : AddChild(c) \/ NotifyDeath(c)
           \/ Drain \/ IoTop \/ IoExit
<1> USE DEF shared, input, main, io, wakes, os, Opened
<1> DEFINE Unmoved == UNCHANGED <<addq, children, remq, notify, dead>> /\ Opened' = Opened
<1>1. CASE WakeupIoLoop
  BY <1>1 DEF WakeupIoLoop
<1>2. CASE Tick
  BY <1>2 DEF Tick, StartTick
<1>3. CASE TickForOtherReason
  BY <1>3 DEF TickForOtherReason, StartTick
<1>4. CASE EndTick
  BY <1>4 DEF EndTick
<1>5. CASE Shutdown
  BY <1>5 DEF Shutdown
<1>6. CASE JoinIoThread
  BY <1>6 DEF JoinIoThread
<1>7. ASSUME NEW c \in Children, ParseChild(c) PROVE Unmoved
  BY <1>7 DEF ParseChild
<1>8. CASE IoEvents
  BY <1>8 DEF IoEvents
<1>9. CASE IoPoll
  BY <1>9 DEF IoPoll
<1>10. CASE IoPollTimeout
  BY <1>10 DEF IoPollTimeout
<1>11. CASE IoSignals
  BY <1>11 DEF IoSignals
<1>12. CASE IoReap
  BY <1>12 DEF IoReap
<1>13. CASE IoPrewarm
  BY <1>13 DEF IoPrewarm
<1>14. ASSUME NEW c \in Children, IoChild(c) PROVE Unmoved
  BY <1>14 DEF IoChild, IoRead, IoBufferFull, IoEndOfOutput
<1>15. CASE IoWakeMain
  BY <1>15 DEF IoWakeMain
<1>16. ASSUME NEW c \in Children, MarkForClose(c) PROVE Unmoved
  BY <1>16 DEF MarkForClose
<1>17. CASE DelayOver
  BY <1>17 DEF DelayOver
<1>18. ASSUME NEW c \in Children, InputAges(c) PROVE Unmoved
  BY <1>18 DEF InputAges
<1>19. ASSUME NEW c \in Children, ChildPrints(c) PROVE Unmoved
  BY <1>19 DEF ChildPrints
<1>20. ASSUME NEW c \in Children, ChildExits(c) PROVE Unmoved
  BY <1>20 DEF ChildExits
<1>21. ASSUME NEW c \in Children, PtyReleased(c) PROVE Unmoved
  BY <1>21 DEF PtyReleased
<1>22. ASSUME NEW s \in Signals, SignalArrives(s) PROVE Unmoved
  BY <1>22 DEF SignalArrives
<1>23. CASE UNCHANGED vars
  BY <1>23 DEF vars
<1> QED
  BY <1>1, <1>2, <1>3, <1>4, <1>5, <1>6, <1>7, <1>8, <1>9, <1>10, <1>11, <1>12, <1>13,
     <1>14, <1>15, <1>16, <1>17, <1>18, <1>19, <1>20, <1>21, <1>22, <1>23
  DEF Next, MainThread, IoThread, Calls, Environment

LEMMA NextInOnePlace == TypeOK /\ InOnePlace /\ [Next]_vars => InOnePlace'
<1> SUFFICES ASSUME TypeOK, InOnePlace, [Next]_vars PROVE InOnePlace'
  OBVIOUS
<1> USE DEF InOnePlace, shared, input, main, io, wakes, os
<1>1. CASE UNCHANGED <<addq, children, remq, notify, dead>> /\ Opened' = Opened
  BY <1>1
<1>2. ASSUME NEW c \in Children, AddChild(c) PROVE InOnePlace'
  <2>1. Opened' = Opened \cup {c} /\ c \notin Opened
    BY <1>2 DEF AddChild, Opened, TypeOK, ValuesTyped
  <2> QED
    BY <1>2, <2>1 DEF AddChild
<1>3. ASSUME NEW c \in Children, NotifyDeath(c) PROVE InOnePlace'
  BY <1>3 DEF NotifyDeath, Opened
<1>4. CASE Drain
  BY <1>4 DEF Drain, Opened
<1>5. CASE IoTop
  BY <1>5 DEF IoTop, RemoveThenAdd, Remove, Admitted, Opened
<1>6. CASE IoExit
  BY <1>6 DEF IoExit, Remove, Opened
<1> QED
  BY <1>1, <1>2, <1>3, <1>4, <1>5, <1>6, Movers

(* add_children() takes the whole queue: there is room for all of it.      *)
LEMMA AllAdmitted ==
    ASSUME TypeOK, InOnePlace, RoomForQueue,
           NEW kept \in SUBSET children, NEW A \in Admitted(kept)
    PROVE  A = addq
<1>1. IsFiniteSet(children \cup addq)
  BY ChildrenAssumption, FS_Subset DEF TypeOK, SetsTyped
<1>2. IsFiniteSet(kept \cup addq) /\ Cardinality(kept \cup addq) <= Cardinality(children \cup addq)
  BY <1>1, FS_Subset
<1>3. /\ Cardinality(kept \cup addq) \in Nat /\ Cardinality(children \cup addq) \in Nat
      /\ MaxChildren \in Nat
  BY <1>1, <1>2, FS_CardinalityType, SizesAssumption
<1>4. A \subseteq addq
  BY DEF Admitted
<1>5. CASE Cardinality(kept \cup A) = MaxChildren
  <2>1. Cardinality(kept \cup A) <= Cardinality(kept \cup addq)
    BY <1>2, <1>4, FS_Subset
  <2>2. Cardinality(kept \cup A) = Cardinality(kept \cup addq)
    BY <1>2, <1>3, <1>5, <2>1 DEF RoomForQueue
  <2>3. kept \cup A = kept \cup addq
    BY <1>2, <1>4, <2>2, FS_Subset
  <2> QED
    BY <1>4, <2>3 DEF InOnePlace
<1> QED
  BY <1>5 DEF Admitted

LEMMA NextRoomForQueue ==
    TypeOK /\ InOnePlace /\ RoomForQueue /\ [Next]_vars => RoomForQueue'
<1> SUFFICES ASSUME TypeOK, InOnePlace, RoomForQueue, [Next]_vars PROVE RoomForQueue'
  OBVIOUS
<1> DEFINE all == children \cup addq
<1>1. /\ IsFiniteSet(children) /\ IsFiniteSet(addq) /\ IsFiniteSet(all)
      /\ Cardinality(all) \in Nat /\ MaxChildren \in Nat
  BY ChildrenAssumption, FS_Subset, FS_CardinalityType, SizesAssumption DEF TypeOK, SetsTyped
<1>2. ASSUME children' \cup addq' \subseteq all PROVE RoomForQueue'
  <2>1. Cardinality(children' \cup addq') <= Cardinality(all)
    BY <1>1, <1>2, FS_Subset
  <2>2. Cardinality(children' \cup addq') \in Nat
    BY <1>1, <1>2, FS_Subset, FS_CardinalityType
  <2> QED
    BY <1>1, <2>1, <2>2 DEF RoomForQueue
<1>3. ASSUME NEW c \in Children, AddChild(c) PROVE RoomForQueue'
  <2>1. children' = children /\ addq' = addq \cup {c} /\ RoomForChild
    BY <1>3 DEF AddChild, shared
  <2>2. children \cap addq = {}
    BY DEF InOnePlace
  <2>3. Cardinality(all) = Cardinality(children) + Cardinality(addq) - Cardinality({})
    BY <1>1, <2>2, FS_Union
  <2>4. Cardinality(all) < MaxChildren
    BY <1>1, <2>1, <2>3, FS_EmptySet, FS_CardinalityType DEF RoomForChild
  <2>5. children' \cup addq' = all \cup {c}
    BY <2>1
  <2>0. Cardinality(all \cup {c}) = IF c \in all THEN Cardinality(all) ELSE Cardinality(all) + 1
    BY <1>1, FS_AddElement
  <2> HIDE DEF all
  <2>6. Cardinality(all \cup {c}) <= Cardinality(all) + 1
    BY <1>1, <2>0
  <2>7. Cardinality(all \cup {c}) \in Nat
    BY <1>1, FS_AddElement, FS_CardinalityType
  <2>8. Cardinality(all \cup {c}) <= MaxChildren
    BY <1>1, <2>4, <2>6, <2>7
  <2> QED
    BY <2>5, <2>8 DEF RoomForQueue
<1>4. ASSUME NEW c \in Children, NotifyDeath(c) PROVE RoomForQueue'
  BY <1>2, <1>4 DEF NotifyDeath, shared
<1>5. CASE Drain
  BY <1>2, <1>5 DEF Drain
<1>6. CASE IoTop
  BY <1>2, <1>6 DEF IoTop, RemoveThenAdd, Admitted
<1>7. CASE IoExit
  BY <1>2, <1>7 DEF IoExit
<1> QED
  BY <1>2, <1>3, <1>4, <1>5, <1>6, <1>7, Movers
(***************************************************************************)
(* No wake-up of the I/O thread is lost.                                   *)
(***************************************************************************)

(* Work that poll() would not notice has a wake-up on its way, already     *)
(* when the I/O thread computes what to poll for.                          *)
WakeupPending ==
    /\ iopc \in {"events", "poll"} => (addq # {} \/ shutting => iowake \/ owed)
    /\ iopc = "poll" => \A c \in children \ events : rbuf[c] < BufSize => iowake

(* Emptying a full buffer makes the I/O thread poll that child again.      *)
LEMMA ParseRearms ==
    ASSUME TypeOK, WakeupPending, NEW c \in Children, ParseAll(c) \/ UNCHANGED <<rbuf, iowake>>,
           UNCHANGED <<addq, children, shutting, owed, iopc, events>>
    PROVE  WakeupPending'
<1>1. iowake => iowake'
  BY DEF ParseAll
<1>2. ASSUME NEW d \in children \ events, rbuf'[d] < BufSize, ~(rbuf[d] < BufSize) PROVE iowake'
  <2>1. d \in Children /\ rbuf[d] \in 0..BufSize /\ rbuf \in [Children -> 0..BufSize]
    BY DEF TypeOK, SetsTyped, ValuesTyped
  <2>2. d = c /\ ParseAll(c)
    BY <1>2, <2>1 DEF ParseAll
  <2>3. rbuf[c] >= BufSize
    BY <1>2, <2>1, <2>2, SizesAssumption
  <2> QED
    BY <2>2, <2>3 DEF ParseAll
<1>3. iopc' = "poll" => \A d \in children' \ events' : rbuf'[d] < BufSize => iowake'
  BY <1>1, <1>2 DEF WakeupPending
<1> QED
  BY <1>1, <1>3 DEF WakeupPending

LEMMA NextWakeupPending ==
    TypeOK /\ InOnePlace /\ RoomForQueue /\ WakeupPending /\ [Next]_vars => WakeupPending'
<1> SUFFICES ASSUME TypeOK, InOnePlace, RoomForQueue, WakeupPending, [Next]_vars
             PROVE  WakeupPending'
  OBVIOUS
<1>r. \A c \in Children : rbuf[c] \in 0..BufSize
  BY DEF TypeOK, ValuesTyped
<1>c. children \subseteq Children
  BY DEF TypeOK, SetsTyped
<1> USE SizesAssumption DEF WakeupPending, shared, input, main, io, wakes, os
<1>1. CASE WakeupIoLoop
  BY <1>1, <1>r, <1>c DEF WakeupIoLoop
<1>2. CASE Tick
  BY <1>2, <1>r, <1>c DEF Tick, StartTick
<1>3. CASE TickForOtherReason
  BY <1>3, <1>r, <1>c DEF TickForOtherReason, StartTick
<1>4. CASE Drain
  BY <1>4, <1>r, <1>c DEF Drain
<1>5. CASE EndTick
  BY <1>5, <1>r, <1>c DEF EndTick, CallWakeup
<1>6. CASE Shutdown
  BY <1>6, <1>r, <1>c DEF Shutdown, CallWakeup
<1>7. CASE JoinIoThread
  BY <1>7, <1>r, <1>c DEF JoinIoThread
<1>8. ASSUME NEW c \in Children, NotifyDeath(c) PROVE WakeupPending'
  BY <1>8, ParseRearms DEF NotifyDeath, Flush
<1>9. ASSUME NEW c \in Children, ParseChild(c) PROVE WakeupPending'
  BY <1>9, ParseRearms DEF ParseChild, Parse
<1>10. CASE IoTop
  <2>1. addq' = {}
    BY <1>10, AllAdmitted DEF IoTop, RemoveThenAdd
  <2> QED
    BY <1>10, <2>1 DEF IoTop
<1>11. CASE IoExit
  BY <1>11, <1>r, <1>c DEF IoExit, Remove
<1>12. CASE IoEvents
  BY <1>12, <1>r, <1>c DEF IoEvents
<1>13. CASE IoPoll
  BY <1>13, <1>r, <1>c DEF IoPoll, Ready
<1>14. CASE IoPollTimeout
  BY <1>14, <1>r, <1>c DEF IoPollTimeout
<1>15. CASE IoSignals
  BY <1>15, <1>r, <1>c DEF IoSignals, KillSeen
<1>16. CASE IoReap
  BY <1>16, <1>r, <1>c DEF IoReap, MarkForRemoval
<1>17. CASE IoPrewarm
  BY <1>17, <1>r, <1>c DEF IoPrewarm, MarkForRemoval
<1>18. ASSUME NEW c \in Children, IoChild(c) PROVE WakeupPending'
  BY <1>18, <1>r, <1>c DEF IoChild, IoRead, IoBufferFull, IoEndOfOutput
<1>19. CASE IoWakeMain
  BY <1>19, <1>r, <1>c DEF IoWakeMain, WakeOrRemember
<1>20. ASSUME NEW c \in Children, AddChild(c) PROVE WakeupPending'
  BY <1>20, <1>r, <1>c DEF AddChild, CallWakeup
<1>21. ASSUME NEW c \in Children, MarkForClose(c) PROVE WakeupPending'
  BY <1>21, <1>r, <1>c DEF MarkForClose, CallWakeup
<1>22. CASE DelayOver
  BY <1>22, <1>r, <1>c DEF DelayOver
<1>23. ASSUME NEW c \in Children, InputAges(c) PROVE WakeupPending'
  BY <1>23, <1>r, <1>c DEF InputAges
<1>24. ASSUME NEW c \in Children, ChildPrints(c) PROVE WakeupPending'
  BY <1>24, <1>r, <1>c DEF ChildPrints
<1>25. ASSUME NEW c \in Children, ChildExits(c) PROVE WakeupPending'
  BY <1>25, <1>r, <1>c DEF ChildExits
<1>26. ASSUME NEW c \in Children, PtyReleased(c) PROVE WakeupPending'
  BY <1>26, <1>r, <1>c DEF PtyReleased
<1>27. ASSUME NEW s \in Signals, SignalArrives(s) PROVE WakeupPending'
  BY <1>27, <1>r, <1>c DEF SignalArrives
<1>28. CASE UNCHANGED vars
  BY <1>28, <1>r, <1>c DEF vars
<1> QED
  BY <1>1, <1>2, <1>3, <1>4, <1>5, <1>6, <1>7, <1>8, <1>9, <1>10, <1>11, <1>12, <1>13,
     <1>14, <1>15, <1>16, <1>17, <1>18, <1>19, <1>20, <1>21, <1>22, <1>23, <1>24, <1>25,
     <1>26, <1>27, <1>28
  DEF Next, MainThread, IoThread, Calls, Environment

(***************************************************************************)
(* What is read is parsed.                                                 *)
(***************************************************************************)

(* The I/O thread handles only children of its table, and holds no result  *)
(* of poll() while it may change the table.                                *)
Polled ==
    /\ revents \subseteq children
    /\ iopc \in {"top", "events", "poll", "done"} => revents = {}

LEMMA NextPolled == Polled /\ [Next]_vars => Polled'
<1> SUFFICES ASSUME Polled, [Next]_vars PROVE Polled'
  OBVIOUS
<1> USE DEF Polled, shared, input, main, io, wakes, os
<1>1. CASE WakeupIoLoop
  BY <1>1 DEF WakeupIoLoop
<1>2. CASE Tick
  BY <1>2 DEF Tick, StartTick
<1>3. CASE TickForOtherReason
  BY <1>3 DEF TickForOtherReason, StartTick
<1>4. CASE Drain
  BY <1>4 DEF Drain
<1>5. CASE EndTick
  BY <1>5 DEF EndTick, CallWakeup
<1>6. CASE Shutdown
  BY <1>6 DEF Shutdown, CallWakeup
<1>7. CASE JoinIoThread
  BY <1>7 DEF JoinIoThread
<1>8. ASSUME NEW c \in Children, NotifyDeath(c) PROVE Polled'
  BY <1>8 DEF NotifyDeath, Flush, ParseAll
<1>9. ASSUME NEW c \in Children, ParseChild(c) PROVE Polled'
  BY <1>9 DEF ParseChild, Parse, ParseAll, TimerAfter
<1>10. CASE IoTop
  BY <1>10 DEF IoTop, RemoveThenAdd, Remove, Admitted
<1>11. CASE IoExit
  BY <1>11 DEF IoExit, Remove
<1>12. CASE IoEvents
  BY <1>12 DEF IoEvents
<1>13. CASE IoPoll
  BY <1>13 DEF IoPoll, Ready
<1>14. CASE IoPollTimeout
  BY <1>14 DEF IoPollTimeout
<1>15. CASE IoSignals
  BY <1>15 DEF IoSignals, KillSeen
<1>16. CASE IoReap
  BY <1>16 DEF IoReap, MarkForRemoval
<1>17. CASE IoPrewarm
  BY <1>17 DEF IoPrewarm, MarkForRemoval
<1>18. ASSUME NEW c \in Children, IoChild(c) PROVE Polled'
  BY <1>18 DEF IoChild, IoRead, IoBufferFull, IoEndOfOutput
<1>19. CASE IoWakeMain
  BY <1>19 DEF IoWakeMain, WakeOrRemember
<1>20. ASSUME NEW c \in Children, AddChild(c) PROVE Polled'
  BY <1>20 DEF AddChild, CallWakeup
<1>21. ASSUME NEW c \in Children, MarkForClose(c) PROVE Polled'
  BY <1>21 DEF MarkForClose, CallWakeup
<1>22. CASE DelayOver
  BY <1>22 DEF DelayOver
<1>23. ASSUME NEW c \in Children, InputAges(c) PROVE Polled'
  BY <1>23 DEF InputAges
<1>24. ASSUME NEW c \in Children, ChildPrints(c) PROVE Polled'
  BY <1>24 DEF ChildPrints
<1>25. ASSUME NEW c \in Children, ChildExits(c) PROVE Polled'
  BY <1>25 DEF ChildExits
<1>26. ASSUME NEW c \in Children, PtyReleased(c) PROVE Polled'
  BY <1>26 DEF PtyReleased
<1>27. ASSUME NEW s \in Signals, SignalArrives(s) PROVE Polled'
  BY <1>27 DEF SignalArrives
<1>28. CASE UNCHANGED vars
  BY <1>28 DEF vars
<1> QED
  BY <1>1, <1>2, <1>3, <1>4, <1>5, <1>6, <1>7, <1>8, <1>9, <1>10, <1>11, <1>12, <1>13,
     <1>14, <1>15, <1>16, <1>17, <1>18, <1>19, <1>20, <1>21, <1>22, <1>23, <1>24, <1>25,
     <1>26, <1>27, <1>28
  DEF Next, MainThread, IoThread, Calls, Environment

(* A child has output in its buffer only once the I/O thread has it.       *)
Unread == \A c \in Children : rbuf[c] # 0 => c \in children \cup remq \cup notify \cup dead

LEMMA NextUnread ==
    TypeOK /\ Polled /\ Unread /\ [Next]_vars => Unread'
<1> SUFFICES ASSUME TypeOK, Polled, Unread, [Next]_vars PROVE Unread'
  OBVIOUS
<1>r. rbuf \in [Children -> 0..BufSize] /\ remq \subseteq Children
  BY DEF TypeOK, ValuesTyped, SetsTyped
<1> USE DEF Unread, Polled, shared, input, main, io, wakes, os
<1>1. CASE WakeupIoLoop
  BY <1>1, <1>r DEF WakeupIoLoop
<1>2. CASE Tick
  BY <1>2, <1>r DEF Tick, StartTick
<1>3. CASE TickForOtherReason
  BY <1>3, <1>r DEF TickForOtherReason, StartTick
<1>4. CASE Drain
  BY <1>4, <1>r DEF Drain
<1>5. CASE EndTick
  BY <1>5, <1>r DEF EndTick, CallWakeup
<1>6. CASE Shutdown
  BY <1>6, <1>r DEF Shutdown, CallWakeup
<1>7. CASE JoinIoThread
  BY <1>7, <1>r DEF JoinIoThread
<1>8. ASSUME NEW c \in Children, NotifyDeath(c) PROVE Unread'
  BY <1>8, <1>r DEF NotifyDeath, Flush, ParseAll
<1>9. ASSUME NEW c \in Children, ParseChild(c) PROVE Unread'
  BY <1>9, <1>r DEF ParseChild, Parse, ParseAll
<1>10. CASE IoTop
  BY <1>10, <1>r DEF IoTop, RemoveThenAdd, Remove, Admitted
<1>11. CASE IoExit
  BY <1>11, <1>r DEF IoExit, Remove
<1>12. CASE IoEvents
  BY <1>12, <1>r DEF IoEvents
<1>13. CASE IoPoll
  BY <1>13, <1>r DEF IoPoll, Ready
<1>14. CASE IoPollTimeout
  BY <1>14, <1>r DEF IoPollTimeout
<1>15. CASE IoSignals
  BY <1>15, <1>r DEF IoSignals, KillSeen
<1>16. CASE IoReap
  BY <1>16, <1>r DEF IoReap, MarkForRemoval
<1>17. CASE IoPrewarm
  BY <1>17, <1>r DEF IoPrewarm, MarkForRemoval
<1>18. ASSUME NEW c \in Children, IoChild(c) PROVE Unread'
  BY <1>18, <1>r DEF IoChild, IoRead, IoBufferFull, IoEndOfOutput
<1>19. CASE IoWakeMain
  BY <1>19, <1>r DEF IoWakeMain, WakeOrRemember
<1>20. ASSUME NEW c \in Children, AddChild(c) PROVE Unread'
  BY <1>20, <1>r DEF AddChild, CallWakeup
<1>21. ASSUME NEW c \in Children, MarkForClose(c) PROVE Unread'
  BY <1>21, <1>r DEF MarkForClose, CallWakeup
<1>22. CASE DelayOver
  BY <1>22, <1>r DEF DelayOver
<1>23. ASSUME NEW c \in Children, InputAges(c) PROVE Unread'
  BY <1>23, <1>r DEF InputAges
<1>24. ASSUME NEW c \in Children, ChildPrints(c) PROVE Unread'
  BY <1>24, <1>r DEF ChildPrints
<1>25. ASSUME NEW c \in Children, ChildExits(c) PROVE Unread'
  BY <1>25, <1>r DEF ChildExits
<1>26. ASSUME NEW c \in Children, PtyReleased(c) PROVE Unread'
  BY <1>26, <1>r DEF PtyReleased
<1>27. ASSUME NEW s \in Signals, SignalArrives(s) PROVE Unread'
  BY <1>27, <1>r DEF SignalArrives
<1>28. CASE UNCHANGED vars
  BY <1>28, <1>r DEF vars
<1> QED
  BY <1>1, <1>2, <1>3, <1>4, <1>5, <1>6, <1>7, <1>8, <1>9, <1>10, <1>11, <1>12, <1>13,
     <1>14, <1>15, <1>16, <1>17, <1>18, <1>19, <1>20, <1>21, <1>22, <1>23, <1>24, <1>25,
     <1>26, <1>27, <1>28
  DEF Next, MainThread, IoThread, Calls, Environment

(* Without SIGUSR1 no tick skips the input.                                *)
NoReload == ~reloadflag /\ "reload" \notin sigs

LEMMA NextNoReload ==
    ASSUME "reload" \notin Signals
    PROVE  NoReload /\ [Next]_vars => NoReload'
<1> SUFFICES ASSUME NoReload, [Next]_vars PROVE NoReload'
  OBVIOUS
<1> USE DEF NoReload, shared, input, main, io, wakes, os
<1>1. CASE WakeupIoLoop
  BY <1>1 DEF WakeupIoLoop
<1>2. CASE Tick
  BY <1>2 DEF Tick, StartTick
<1>3. CASE TickForOtherReason
  BY <1>3 DEF TickForOtherReason, StartTick
<1>4. CASE Drain
  BY <1>4 DEF Drain
<1>5. CASE EndTick
  BY <1>5 DEF EndTick, CallWakeup
<1>6. CASE Shutdown
  BY <1>6 DEF Shutdown, CallWakeup
<1>7. CASE JoinIoThread
  BY <1>7 DEF JoinIoThread
<1>8. ASSUME NEW c \in Children, NotifyDeath(c) PROVE NoReload'
  BY <1>8 DEF NotifyDeath, Flush, ParseAll
<1>9. ASSUME NEW c \in Children, ParseChild(c) PROVE NoReload'
  BY <1>9 DEF ParseChild, Parse, ParseAll, TimerAfter
<1>10. CASE IoTop
  BY <1>10 DEF IoTop, RemoveThenAdd, Remove, Admitted
<1>11. CASE IoExit
  BY <1>11 DEF IoExit, Remove
<1>12. CASE IoEvents
  BY <1>12 DEF IoEvents
<1>13. CASE IoPoll
  BY <1>13 DEF IoPoll, Ready
<1>14. CASE IoPollTimeout
  BY <1>14 DEF IoPollTimeout
<1>15. CASE IoSignals
  BY <1>15 DEF IoSignals, KillSeen
<1>16. CASE IoReap
  BY <1>16 DEF IoReap, MarkForRemoval
<1>17. CASE IoPrewarm
  BY <1>17 DEF IoPrewarm, MarkForRemoval
<1>18. ASSUME NEW c \in Children, IoChild(c) PROVE NoReload'
  BY <1>18 DEF IoChild, IoRead, IoBufferFull, IoEndOfOutput
<1>19. CASE IoWakeMain
  BY <1>19 DEF IoWakeMain, WakeOrRemember
<1>20. ASSUME NEW c \in Children, AddChild(c) PROVE NoReload'
  BY <1>20 DEF AddChild, CallWakeup
<1>21. ASSUME NEW c \in Children, MarkForClose(c) PROVE NoReload'
  BY <1>21 DEF MarkForClose, CallWakeup
<1>22. CASE DelayOver
  BY <1>22 DEF DelayOver
<1>23. ASSUME NEW c \in Children, InputAges(c) PROVE NoReload'
  BY <1>23 DEF InputAges
<1>24. ASSUME NEW c \in Children, ChildPrints(c) PROVE NoReload'
  BY <1>24 DEF ChildPrints
<1>25. ASSUME NEW c \in Children, ChildExits(c) PROVE NoReload'
  BY <1>25 DEF ChildExits
<1>26. ASSUME NEW c \in Children, PtyReleased(c) PROVE NoReload'
  BY <1>26 DEF PtyReleased
<1>27. ASSUME NEW s \in Signals, SignalArrives(s) PROVE NoReload'
  BY <1>27 DEF SignalArrives
<1>28. CASE UNCHANGED vars
  BY <1>28 DEF vars
<1> QED
  BY <1>1, <1>2, <1>3, <1>4, <1>5, <1>6, <1>7, <1>8, <1>9, <1>10, <1>11, <1>12, <1>13,
     <1>14, <1>15, <1>16, <1>17, <1>18, <1>19, <1>20, <1>21, <1>22, <1>23, <1>24, <1>25,
     <1>26, <1>27, <1>28
  DEF Next, MainThread, IoThread, Calls, Environment

(* Output in a buffer is known to somebody: to the I/O thread, which will  *)
(* wake the main loop, to the timer, or to the tick that is running.       *)
Resting ==
    /\ mpc \in {"wait", "drain"} => ~quit
    /\ mpc = "wait" => scratch = {}
    /\ iopc \in {"top", "events", "poll"} => ~received

Covered(c) ==
    \/ mainwake \/ timer \/ pending \/ received \/ quit
    \/ mpc \notin {"wait", "notify"}
    \/ c \in scratch

InputCovered == \A c \in children \ flagged : rbuf[c] > 0 => Covered(c)

LEMMA NextResting ==
    FlagsTyped /\ Resting /\ [Next]_vars => Resting'
<1> SUFFICES ASSUME FlagsTyped, Resting, [Next]_vars PROVE Resting'
  OBVIOUS
<1> USE DEF Resting, shared, input, main, io, wakes, os
<1>1. CASE WakeupIoLoop
  BY <1>1 DEF WakeupIoLoop
<1>2. CASE Tick
  BY <1>2 DEF Tick, StartTick
<1>3. CASE TickForOtherReason
  BY <1>3 DEF TickForOtherReason, StartTick
<1>4. CASE Drain
  BY <1>4 DEF Drain
<1>5. CASE EndTick
  BY <1>5 DEF EndTick, CallWakeup
<1>6. CASE Shutdown
  BY <1>6 DEF Shutdown, CallWakeup
<1>7. CASE JoinIoThread
  BY <1>7 DEF JoinIoThread
<1>8. ASSUME NEW c \in Children, NotifyDeath(c) PROVE Resting'
  BY <1>8 DEF NotifyDeath, Flush, ParseAll
<1>9. ASSUME NEW c \in Children, ParseChild(c) PROVE Resting'
  BY <1>9 DEF ParseChild, Parse, ParseAll, TimerAfter
<1>10. CASE IoTop
  BY <1>10 DEF IoTop, RemoveThenAdd, Remove, Admitted
<1>11. CASE IoExit
  BY <1>11 DEF IoExit, Remove
<1>12. CASE IoEvents
  BY <1>12 DEF IoEvents
<1>13. CASE IoPoll
  BY <1>13 DEF IoPoll, Ready
<1>14. CASE IoPollTimeout
  BY <1>14 DEF IoPollTimeout
<1>15. CASE IoSignals
  BY <1>15 DEF IoSignals, KillSeen
<1>16. CASE IoReap
  BY <1>16 DEF IoReap, MarkForRemoval
<1>17. CASE IoPrewarm
  BY <1>17 DEF IoPrewarm, MarkForRemoval
<1>18. ASSUME NEW c \in Children, IoChild(c) PROVE Resting'
  BY <1>18 DEF IoChild, IoRead, IoBufferFull, IoEndOfOutput
<1>19. CASE IoWakeMain
  BY <1>19 DEF IoWakeMain, WakeOrRemember
<1>20. ASSUME NEW c \in Children, AddChild(c) PROVE Resting'
  BY <1>20 DEF AddChild, CallWakeup
<1>21. ASSUME NEW c \in Children, MarkForClose(c) PROVE Resting'
  BY <1>21 DEF MarkForClose, CallWakeup
<1>22. CASE DelayOver
  BY <1>22 DEF DelayOver
<1>23. ASSUME NEW c \in Children, InputAges(c) PROVE Resting'
  BY <1>23 DEF InputAges
<1>24. ASSUME NEW c \in Children, ChildPrints(c) PROVE Resting'
  BY <1>24 DEF ChildPrints
<1>25. ASSUME NEW c \in Children, ChildExits(c) PROVE Resting'
  BY <1>25 DEF ChildExits
<1>26. ASSUME NEW c \in Children, PtyReleased(c) PROVE Resting'
  BY <1>26 DEF PtyReleased
<1>27. ASSUME NEW s \in Signals, SignalArrives(s) PROVE Resting'
  BY <1>27 DEF SignalArrives
<1>28. CASE UNCHANGED vars
  BY <1>28 DEF vars
<1> QED
  BY <1>1, <1>2, <1>3, <1>4, <1>5, <1>6, <1>7, <1>8, <1>9, <1>10, <1>11, <1>12, <1>13,
     <1>14, <1>15, <1>16, <1>17, <1>18, <1>19, <1>20, <1>21, <1>22, <1>23, <1>24, <1>25,
     <1>26, <1>27, <1>28
  DEF Next, MainThread, IoThread, Calls, Environment

LEMMA NextInputCovered ==
    TypeOK /\ InOnePlace /\ Polled /\ Unread /\ NoReload /\ Resting /\ InputCovered /\ [Next]_vars
        => InputCovered'
<1> SUFFICES ASSUME TypeOK, InOnePlace, Polled, Unread, NoReload, Resting, InputCovered,
                    [Next]_vars
             PROVE  InputCovered'
  OBVIOUS
<1>r. /\ rbuf \in [Children -> 0..BufSize]
      /\ children \subseteq Children /\ addq \subseteq Children
  BY DEF TypeOK, ValuesTyped, SetsTyped
<1>f. FlagsTyped
  BY DEF TypeOK
<1> USE SizesAssumption DEF InputCovered, Covered, shared, input, main, io, wakes, os
<1>1. CASE WakeupIoLoop
  BY <1>1, <1>r, <1>f DEF WakeupIoLoop
<1>2. CASE Tick
  BY <1>2, <1>r, <1>f DEF Tick, StartTick
<1>3. CASE TickForOtherReason
  BY <1>3, <1>r, <1>f DEF TickForOtherReason, StartTick
<1>4. CASE Drain
  BY <1>4, <1>r, <1>f DEF Drain, NoReload
<1>5. CASE EndTick
  BY <1>5, <1>r, <1>f DEF EndTick, CallWakeup, Resting
<1>6. CASE Shutdown
  BY <1>6, <1>r, <1>f DEF Shutdown, CallWakeup
<1>7. CASE JoinIoThread
  BY <1>7, <1>r, <1>f DEF JoinIoThread
<1>8. ASSUME NEW c \in Children, NotifyDeath(c) PROVE InputCovered'
  BY <1>8, <1>r, <1>f DEF NotifyDeath, Flush, ParseAll
<1>9. ASSUME NEW c \in Children, ParseChild(c) PROVE InputCovered'
  <2>1. UNCHANGED <<children, flagged, mainwake, pending, received, quit, mpc>>
    BY <1>9 DEF ParseChild
  <2>2. \A d \in Children \ {c} : rbuf'[d] = rbuf[d] /\ (d \in scratch => d \in scratch')
    BY <1>9, <1>r DEF ParseChild, Parse, ParseAll
  <2>3. rbuf'[c] > 0 => timer' \/ rbuf'[c] = 0
    BY <1>9, <1>r DEF ParseChild, Parse, ParseAll, TimerAfter
  <2>4. timer => timer'
    BY <1>9 DEF ParseChild, TimerAfter
  <2>5. ASSUME NEW d \in children' \ flagged', rbuf'[d] > 0 PROVE Covered(d)'
    <3>1. CASE d = c
      BY <2>3, <2>5, <3>1
    <3>2. CASE d # c
      BY <1>r, <2>1, <2>2, <2>4, <2>5, <3>2
    <3> QED
      BY <3>1, <3>2
  <2> QED
    BY <2>5 DEF InputCovered
<1>10. CASE IoTop
  <2>1. \A c \in addq : rbuf[c] = 0
    BY <1>r DEF Unread, InOnePlace
  <2> QED
    BY <1>10, <1>r, <2>1 DEF IoTop, RemoveThenAdd, Admitted
<1>11. CASE IoExit
  BY <1>11, <1>r, <1>f DEF IoExit, Remove
<1>12. CASE IoEvents
  BY <1>12, <1>r, <1>f DEF IoEvents
<1>13. CASE IoPoll
  BY <1>13, <1>r, <1>f DEF IoPoll, Ready
<1>14. CASE IoPollTimeout
  BY <1>14, <1>r, <1>f DEF IoPollTimeout
<1>15. CASE IoSignals
  BY <1>15, <1>r, <1>f DEF IoSignals, KillSeen
<1>16. CASE IoReap
  BY <1>16, <1>r, <1>f DEF IoReap, MarkForRemoval
<1>17. CASE IoPrewarm
  BY <1>17, <1>r, <1>f DEF IoPrewarm, MarkForRemoval
<1>18. ASSUME NEW c \in Children, IoChild(c) PROVE InputCovered'
  BY <1>18, <1>r, <1>f DEF IoChild, IoRead, IoBufferFull, IoEndOfOutput
<1>19. CASE IoWakeMain
  <2>1. UNCHANGED <<children, flagged, rbuf, timer, quit, mpc, scratch>>
    BY <1>19 DEF IoWakeMain
  <2>2. (received \/ pending => mainwake' \/ pending') /\ (mainwake => mainwake')
    BY <1>19 DEF IoWakeMain, WakeOrRemember
  <2> QED
    BY <2>1, <2>2
<1>20. ASSUME NEW c \in Children, AddChild(c) PROVE InputCovered'
  BY <1>20, <1>r, <1>f DEF AddChild, CallWakeup
<1>21. ASSUME NEW c \in Children, MarkForClose(c) PROVE InputCovered'
  BY <1>21, <1>r, <1>f DEF MarkForClose, CallWakeup
<1>22. CASE DelayOver
  BY <1>22, <1>r, <1>f DEF DelayOver
<1>23. ASSUME NEW c \in Children, InputAges(c) PROVE InputCovered'
  BY <1>23, <1>r, <1>f DEF InputAges
<1>24. ASSUME NEW c \in Children, ChildPrints(c) PROVE InputCovered'
  BY <1>24, <1>r, <1>f DEF ChildPrints
<1>25. ASSUME NEW c \in Children, ChildExits(c) PROVE InputCovered'
  BY <1>25, <1>r, <1>f DEF ChildExits
<1>26. ASSUME NEW c \in Children, PtyReleased(c) PROVE InputCovered'
  BY <1>26, <1>r, <1>f DEF PtyReleased
<1>27. ASSUME NEW s \in Signals, SignalArrives(s) PROVE InputCovered'
  BY <1>27, <1>r, <1>f DEF SignalArrives
<1>28. CASE UNCHANGED vars
  BY <1>28, <1>r, <1>f DEF vars
<1> QED
  BY <1>1, <1>2, <1>3, <1>4, <1>5, <1>6, <1>7, <1>8, <1>9, <1>10, <1>11, <1>12, <1>13,
     <1>14, <1>15, <1>16, <1>17, <1>18, <1>19, <1>20, <1>21, <1>22, <1>23, <1>24, <1>25,
     <1>26, <1>27, <1>28
  DEF Next, MainThread, IoThread, Calls, Environment
(***************************************************************************)
(* No output is left behind.                                               *)
(***************************************************************************)

(* A child that is marked, but not because somebody asked for it, has no   *)
(* output left and can have no more; until the shutdown only marked        *)
(* children leave the table.                                               *)
Ended ==
    /\ flagged \subseteq Opened
    /\ shutting => mpc \in {"join", "stopped"}
    /\ ~shutting => remq \cup notify \cup dead \subseteq flagged
    /\ ~shutting => \A c \in flagged \ asked : pty[c] = 0 /\ c \notin held

LEMMA NextEnded == TypeOK /\ InOnePlace /\ Polled /\ Ended /\ [Next]_vars => Ended'
<1> SUFFICES ASSUME TypeOK, InOnePlace, Polled, Ended, [Next]_vars PROVE Ended'
  OBVIOUS
<1>r. /\ pty \in [Children -> Nat] /\ proc \in [Children -> {"none", "running", "exited"}]
      /\ flagged \subseteq Children
  BY DEF TypeOK, ValuesTyped, SetsTyped
<1>o. children \cup addq \subseteq Opened
  BY DEF InOnePlace
<1> USE DEF Ended, Opened, shared, input, main, io, wakes, os
<1>1. CASE WakeupIoLoop
  BY <1>1, <1>r DEF WakeupIoLoop
<1>2. CASE Tick
  BY <1>2, <1>r DEF Tick, StartTick
<1>3. CASE TickForOtherReason
  BY <1>3, <1>r DEF TickForOtherReason, StartTick
<1>4. CASE Drain
  BY <1>4, <1>r DEF Drain
<1>5. CASE EndTick
  BY <1>5, <1>r, <1>o DEF EndTick, CallWakeup
<1>6. CASE Shutdown
  BY <1>6, <1>r DEF Shutdown, CallWakeup
<1>7. CASE JoinIoThread
  BY <1>7, <1>r DEF JoinIoThread
<1>8. ASSUME NEW c \in Children, NotifyDeath(c) PROVE Ended'
  BY <1>8, <1>r DEF NotifyDeath, Flush, ParseAll
<1>9. ASSUME NEW c \in Children, ParseChild(c) PROVE Ended'
  BY <1>9, <1>r DEF ParseChild, Parse, ParseAll, TimerAfter
<1>10. CASE IoTop
  BY <1>10, <1>r DEF IoTop, RemoveThenAdd, Remove, Admitted
<1>11. CASE IoExit
  BY <1>11, <1>r, <1>o DEF IoExit, Remove
<1>12. CASE IoEvents
  BY <1>12, <1>r DEF IoEvents
<1>13. CASE IoPoll
  BY <1>13, <1>r DEF IoPoll, Ready
<1>14. CASE IoPollTimeout
  BY <1>14, <1>r DEF IoPollTimeout
<1>15. CASE IoSignals
  BY <1>15, <1>r DEF IoSignals, KillSeen
<1>16. CASE IoReap
  BY <1>16, <1>r, <1>o DEF IoReap, MarkForRemoval
<1>17. CASE IoPrewarm
  BY <1>17, <1>r, <1>o DEF IoPrewarm, MarkForRemoval
<1>18. ASSUME NEW c \in Children, IoChild(c) PROVE Ended'
  <2>1. c \in Opened /\ UNCHANGED <<proc, held, asked, remq, notify, dead, shutting, mpc>>
    BY <1>18, <1>o DEF IoChild, Polled
  <2>2. ASSUME NEW n \in 1..pty[c], IoRead(c, n) PROVE Ended'
    BY <1>r, <2>1, <2>2 DEF IoRead
  <2>3. CASE IoBufferFull(c)
    BY <1>r, <2>1, <2>3 DEF IoBufferFull
  <2>4. CASE IoEndOfOutput(c)
    BY <1>r, <2>1, <2>4 DEF IoEndOfOutput
  <2> QED
    BY <1>18, <2>2, <2>3, <2>4 DEF IoChild
<1>19. CASE IoWakeMain
  BY <1>19, <1>r DEF IoWakeMain, WakeOrRemember
<1>20. ASSUME NEW c \in Children, AddChild(c) PROVE Ended'
  BY <1>20, <1>r DEF AddChild, CallWakeup
<1>21. ASSUME NEW c \in Children, MarkForClose(c) PROVE Ended'
  BY <1>21, <1>r DEF MarkForClose, CallWakeup
<1>22. CASE DelayOver
  BY <1>22, <1>r DEF DelayOver
<1>23. ASSUME NEW c \in Children, InputAges(c) PROVE Ended'
  BY <1>23, <1>r DEF InputAges
<1>24. ASSUME NEW c \in Children, ChildPrints(c) PROVE Ended'
  BY <1>24, <1>r DEF ChildPrints
<1>25. ASSUME NEW c \in Children, ChildExits(c) PROVE Ended'
  BY <1>25, <1>r DEF ChildExits
<1>26. ASSUME NEW c \in Children, PtyReleased(c) PROVE Ended'
  BY <1>26, <1>r DEF PtyReleased
<1>27. ASSUME NEW s \in Signals, SignalArrives(s) PROVE Ended'
  BY <1>27, <1>r DEF SignalArrives
<1>28. CASE UNCHANGED vars
  BY <1>28, <1>r DEF vars
<1> QED
  BY <1>1, <1>2, <1>3, <1>4, <1>5, <1>6, <1>7, <1>8, <1>9, <1>10, <1>11, <1>12, <1>13,
     <1>14, <1>15, <1>16, <1>17, <1>18, <1>19, <1>20, <1>21, <1>22, <1>23, <1>24, <1>25,
     <1>26, <1>27, <1>28
  DEF Next, MainThread, IoThread, Calls, Environment

LEMMA NextOutputBeforeDeath ==
    TypeOK /\ InOnePlace /\ Polled /\ Ended /\ OutputBeforeDeath /\ [Next]_vars
        => OutputBeforeDeath'
<1> SUFFICES ASSUME TypeOK, InOnePlace, Polled, Ended, OutputBeforeDeath, [Next]_vars
             PROVE  OutputBeforeDeath'
  OBVIOUS
<1>r. /\ rbuf \in [Children -> 0..BufSize] /\ pty \in [Children -> Nat]
      /\ dead \subseteq Children
  BY DEF TypeOK, ValuesTyped, SetsTyped
<1> USE DEF OutputBeforeDeath, shared, input, main, io, wakes, os
<1>1. CASE WakeupIoLoop
  BY <1>1, <1>r DEF WakeupIoLoop
<1>2. CASE Tick
  BY <1>2, <1>r DEF Tick, StartTick
<1>3. CASE TickForOtherReason
  BY <1>3, <1>r DEF TickForOtherReason, StartTick
<1>4. CASE Drain
  BY <1>4, <1>r DEF Drain
<1>5. CASE EndTick
  BY <1>5, <1>r DEF EndTick, CallWakeup
<1>6. CASE Shutdown
  BY <1>6, <1>r DEF Shutdown, CallWakeup
<1>7. CASE JoinIoThread
  BY <1>7, <1>r DEF JoinIoThread
<1>8. ASSUME NEW c \in Children, NotifyDeath(c) PROVE OutputBeforeDeath'
  <2>1. ~shutting /\ c \in flagged
    BY <1>8 DEF NotifyDeath, Ended
  <2>2. c \notin asked => pty[c] = 0
    BY <2>1 DEF Ended
  <2> QED
    BY <1>8, <1>r, <2>2 DEF NotifyDeath, Flush, ParseAll
<1>9. ASSUME NEW c \in Children, ParseChild(c) PROVE OutputBeforeDeath'
  BY <1>9, <1>r DEF ParseChild, Parse, ParseAll, TimerAfter
<1>10. CASE IoTop
  BY <1>10, <1>r DEF IoTop, RemoveThenAdd, Remove, Admitted
<1>11. CASE IoExit
  BY <1>11, <1>r DEF IoExit, Remove
<1>12. CASE IoEvents
  BY <1>12, <1>r DEF IoEvents
<1>13. CASE IoPoll
  BY <1>13, <1>r DEF IoPoll, Ready
<1>14. CASE IoPollTimeout
  BY <1>14, <1>r DEF IoPollTimeout
<1>15. CASE IoSignals
  BY <1>15, <1>r DEF IoSignals, KillSeen
<1>16. CASE IoReap
  BY <1>16, <1>r DEF IoReap, MarkForRemoval
<1>17. CASE IoPrewarm
  BY <1>17, <1>r DEF IoPrewarm, MarkForRemoval
<1>18. ASSUME NEW c \in Children, IoChild(c) PROVE OutputBeforeDeath'
  <2>1. c \notin dead
    BY <1>18 DEF IoChild, Polled, InOnePlace
  <2> QED
    BY <1>18, <1>r, <2>1 DEF IoChild, IoRead, IoBufferFull, IoEndOfOutput
<1>19. CASE IoWakeMain
  BY <1>19, <1>r DEF IoWakeMain, WakeOrRemember
<1>20. ASSUME NEW c \in Children, AddChild(c) PROVE OutputBeforeDeath'
  <2>1. UNCHANGED <<dead, rbuf, pty, asked>>
    BY <1>20 DEF AddChild
  <2> QED
    BY <2>1
<1>21. ASSUME NEW c \in Children, MarkForClose(c) PROVE OutputBeforeDeath'
  BY <1>21, <1>r DEF MarkForClose, CallWakeup
<1>22. CASE DelayOver
  BY <1>22, <1>r DEF DelayOver
<1>23. ASSUME NEW c \in Children, InputAges(c) PROVE OutputBeforeDeath'
  BY <1>23, <1>r DEF InputAges
<1>24. ASSUME NEW c \in Children, ChildPrints(c) PROVE OutputBeforeDeath'
  BY <1>24, <1>r DEF ChildPrints
<1>25. ASSUME NEW c \in Children, ChildExits(c) PROVE OutputBeforeDeath'
  BY <1>25, <1>r DEF ChildExits
<1>26. ASSUME NEW c \in Children, PtyReleased(c) PROVE OutputBeforeDeath'
  BY <1>26, <1>r DEF PtyReleased
<1>27. ASSUME NEW s \in Signals, SignalArrives(s) PROVE OutputBeforeDeath'
  BY <1>27, <1>r DEF SignalArrives
<1>28. CASE UNCHANGED vars
  BY <1>28, <1>r DEF vars
<1> QED
  BY <1>1, <1>2, <1>3, <1>4, <1>5, <1>6, <1>7, <1>8, <1>9, <1>10, <1>11, <1>12, <1>13,
     <1>14, <1>15, <1>16, <1>17, <1>18, <1>19, <1>20, <1>21, <1>22, <1>23, <1>24, <1>25,
     <1>26, <1>27, <1>28
  DEF Next, MainThread, IoThread, Calls, Environment

(***************************************************************************)
(* The theorems.                                                           *)
(***************************************************************************)

IInv ==
    /\ TypeOK /\ InOnePlace /\ RoomForQueue /\ WakeupPending
    /\ Polled /\ Ended /\ OutputBeforeDeath

LEMMA InitIInv == Init => IInv
<1> SUFFICES ASSUME Init PROVE IInv
  OBVIOUS
<1>1. RoomForQueue
  <2>1. children \cup addq = {}
    BY DEF Init
  <2> QED
    BY <2>1, FS_EmptySet, SizesAssumption DEF RoomForQueue
<1>2. InOnePlace /\ WakeupPending /\ Polled /\ Ended /\ OutputBeforeDeath
  BY DEF Init, InOnePlace, Opened, WakeupPending, Polled, Ended, OutputBeforeDeath
<1> QED
  BY InitType, <1>1, <1>2 DEF IInv

LEMMA NextIInv == IInv /\ [Next]_vars => IInv'
<1>1. TypeOK /\ [Next]_vars => TypeOK'
  BY NextSets, NextFlags, NextValues DEF TypeOK
<1> QED
  BY <1>1, NextInOnePlace, NextRoomForQueue, NextWakeupPending, NextPolled, NextEnded,
     NextOutputBeforeDeath
  DEF IInv

(* Type correctness for any number of children and any sizes.              *)
THEOREM TypeCorrect == Spec => []TypeOK
<1>1. IInv => TypeOK
  BY DEF IInv
<1> QED
  BY InitIInv, NextIInv, <1>1, PTL DEF Spec

(* The add queue, the table, the remove queue and the main thread hand     *)
(* every child on exactly once.                                            *)
THEOREM NoChildLost == Spec => []InOnePlace
<1>1. IInv => InOnePlace
  BY DEF IInv
<1> QED
  BY InitIInv, NextIInv, <1>1, PTL DEF Spec

(* The check in add_child() is enough for add_children().                  *)
THEOREM QueueFits == Spec => []RoomForQueue
<1>1. IInv => RoomForQueue
  BY DEF IInv
<1> QED
  BY InitIInv, NextIInv, <1>1, PTL DEF Spec

(* poll() never blocks the I/O thread while a child is queued, a buffer    *)
(* that was full has room again, or the program shuts down.                *)
THEOREM PollNeverBlocksOnWork == Spec => []NoLostWakeup
<1>1. IInv => NoLostWakeup
  BY DEF IInv, WakeupPending, NoLostWakeup
<1> QED
  BY InitIInv, NextIInv, <1>1, PTL DEF Spec

(* death_notify() comes after the last output.                             *)
THEOREM OutputComesFirst == Spec => []OutputBeforeDeath
<1>1. IInv => OutputBeforeDeath
  BY DEF IInv
<1> QED
  BY InitIInv, NextIInv, <1>1, PTL DEF Spec

(* Unless SIGUSR1 arrives, output in a buffer always has a wake-up of the  *)
(* main loop coming: no input is forgotten.                                *)
THEOREM NoInputForgotten ==
    ASSUME "reload" \notin Signals
    PROVE  Spec => []InputNotForgotten
<1> DEFINE Inv == IInv /\ Unread /\ NoReload /\ Resting /\ InputCovered
<1>1. Init => Inv
  <2> SUFFICES ASSUME Init PROVE Unread /\ NoReload /\ Resting /\ InputCovered
    BY InitIInv
  <2> QED
    <3>1. Unread
      BY DEF Init, Unread
    <3>2. NoReload /\ Resting /\ InputCovered
      BY DEF Init, NoReload, Resting, InputCovered
    <3> QED
      BY <3>1, <3>2
<1>2. Inv /\ [Next]_vars => Inv'
  BY NextIInv, NextUnread, NextNoReload, NextResting, NextInputCovered DEF IInv, TypeOK
<1>3. Inv => InputNotForgotten
  BY DEF Resting, InputCovered, Covered, InputNotForgotten
<1> HIDE DEF Inv
<1> QED
  BY <1>1, <1>2, <1>3, PTL DEF Spec
=============================================================================
