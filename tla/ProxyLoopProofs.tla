--------------------------- MODULE ProxyLoopProofs ---------------------------
(* A stop that found the loop is never forgotten, and the loop it has asked *)
(* to end has boundedly many steps left, for any number of stops and        *)
(* callbacks.                                                              *)
EXTENDS ProxyLoop, TLAPS

(* What a stop leaves behind: before the loop only loopexit's event is kept *)
(* (EnterLoop resets the flags), and in the loop any of the three ends it. *)
AskedLeavesTrace ==
    /\ asked => base # "null"
    /\ asked /\ pc \in {"based", "bound"} => once
    /\ asked /\ InLoop => event_break \/ event_gotterm \/ once

(* No base exists before NewBase, and a base that failed never does.       *)
NoBaseYet == pc \in {"idle", "set"} => base = "null"

IInv == LoopTypeOK /\ BaseOutlivesLoop /\ NoBaseYet /\ AskedLeavesTrace

LEMMA InitInv == Init => IInv
<1> SUFFICES ASSUME Init PROVE IInv
    OBVIOUS
<1>1. LoopTypeOK
    <2>1. 0 \in 0..MaxActive /\ 0 \in 0..MaxStops
        BY LoopBounds
    <2>2. active \in 0..MaxActive /\ stops \in 0..MaxStops
        BY <2>1, Zenon DEF Init
    <2> QED
        BY <2>2, Zenon DEF Init, LoopTypeOK
<1>2. BaseOutlivesLoop /\ NoBaseYet /\ AskedLeavesTrace
    BY DEF Init, BaseOutlivesLoop, NoBaseYet, AskedLeavesTrace, InLoop
<1> QED
    BY <1>1, <1>2 DEF IInv

(* Every step keeps the invariant.                                         *)
LEMMA NextInv == IInv /\ [Next]_loopVars => IInv'
<1> SUFFICES ASSUME IInv, [Next]_loopVars PROVE IInv'
    OBVIOUS
<1> USE LoopBounds DEF IInv, LoopTypeOK, BaseOutlivesLoop, NoBaseYet,
                       AskedLeavesTrace, InLoop, thread, flags, global, stop
<1>1. CASE SetGlobals
    BY <1>1 DEF SetGlobals
<1>2. CASE NewBase
    BY <1>2 DEF NewBase
<1>3. CASE Bind
    BY <1>3 DEF Bind
<1>4. CASE EnterLoop
    BY <1>4 DEF EnterLoop
<1>5. CASE LeaveLoop
    BY <1>5 DEF LeaveLoop
<1>6. CASE Block
    BY <1>6 DEF Block
<1>7. CASE Poll
    <2>1. active' \in 0..MaxActive
        BY <1>7 DEF Poll
    <2> QED
        BY <1>7, <2>1 DEF Poll
<1>8. CASE RunCallback
    BY <1>8 DEF RunCallback, AfterCallback
<1>9. CASE RunLoopexit
    BY <1>9 DEF RunLoopexit, AfterCallback
<1>10. CASE FreeListener
    BY <1>10, ZenonT(60) DEF FreeListener
<1>11. CASE FreeBase
    BY <1>11 DEF FreeBase
<1>12. CASE StopBreak
    BY <1>12 DEF StopBreak, MayCrash
<1>13. CASE StopExit
    <2>1. once' \in BOOLEAN /\ asked' \in BOOLEAN
        BY <1>13 DEF StopExit
    <2>2. CASE once' = (once \/ base = "live") /\ asked' = (asked \/ base = "live")
        BY <1>13, <2>1, <2>2 DEF StopExit, MayCrash
    <2>3. CASE pc = "run" /\ UNCHANGED <<once, asked>>
        BY <1>13, <2>1, <2>3 DEF StopExit, MayCrash
    <2> QED
        BY <1>13, <2>2, <2>3 DEF StopExit
<1>14. CASE StopClearEncryptor
    BY <1>14, ZenonT(60) DEF StopClearEncryptor
<1>15. CASE StopReturn
    BY <1>15, ZenonT(60) DEF StopReturn
<1>16. CASE Arrive
    BY <1>16 DEF Arrive
<1>17. CASE UNCHANGED loopVars
    BY <1>17 DEF loopVars
<1> QED
    BY <1>1, <1>2, <1>3, <1>4, <1>5, <1>6, <1>7, <1>8, <1>9, <1>10, <1>11,
       <1>12, <1>13, <1>14, <1>15, <1>16, <1>17 DEF Next, LoopStep, StopStep

LEMMA Invariance == Spec => []IInv
BY InitInv, NextInv, PTL DEF Spec

(* The types hold in every behaviour.                                      *)
THEOREM LoopTypeCorrect == Spec => []LoopTypeOK
BY Invariance, PTL DEF IInv

(* The loop and what follows it never run on a base that is gone.          *)
THEOREM BaseKept == Spec => []BaseOutlivesLoop
BY Invariance, PTL DEF IInv

(* No step of a loop that was asked to stop blocks it again.               *)
LEMMA AskedNeverBlocks ==
    IInv /\ [Next]_loopVars => (pc # "wait" /\ pc' = "wait" => ~asked)
<1> SUFFICES ASSUME IInv, [Next]_loopVars, pc # "wait", pc' = "wait"
             PROVE  ~asked
    OBVIOUS
<1> USE DEF thread, flags, global, stop
<1>1. CASE Block
    BY <1>1 DEF Block, Done, IInv, AskedLeavesTrace, InLoop
<1>2. ~(Next /\ ~Block)
    BY DEF Next, LoopStep, StopStep, SetGlobals, NewBase, Bind, EnterLoop,
           LeaveLoop, Poll, RunCallback, RunLoopexit, AfterCallback,
           FreeListener, FreeBase, StopBreak, StopExit, MayCrash,
           StopClearEncryptor, StopReturn, Arrive
<1>3. ~(UNCHANGED loopVars)
    BY DEF loopVars
<1> QED
    BY <1>1, <1>2, <1>3

(* A stop that found the loop running, or whose loopexit was not lost,      *)
(* never lets it block again.                                              *)
THEOREM StopIsKept == Spec => StopSticks
<1>1. IInv /\ [Next]_loopVars
        => [pc # "wait" /\ pc' = "wait" => ~asked]_loopVars
    BY AskedNeverBlocks
<1> QED
    BY <1>1, Invariance, PTL DEF Spec, StopSticks

-----------------------------------------------------------------------------
(* How many steps the thread of an asked loop can still take, at most: the   *)
(* callbacks of the round it is in, or of one more; and every stop that is  *)
(* still to come may activate loopexit's event once more.                  *)
Ahead ==
    CASE pc = "based" -> MaxActive + 7
      [] pc = "bound" -> MaxActive + 6
      [] pc = "wait" \/ (pc = "top" /\ ~Done) -> MaxActive + 5
      [] pc = "run" /\ once -> active + 4
      [] pc = "run" /\ ~once -> active + 3
      [] pc = "top" /\ Done -> 3
      [] pc = "left"  -> 2
      [] pc = "unlistened" -> 1
      [] OTHER        -> 0
ToCome    == MaxStops - stops + (IF stopPc = "break" THEN 1 ELSE 0)
StepsLeft == Ahead + ToCome

(* Ahead without CASE, in this state and in the next one.                   *)
AheadTable ==
    /\ pc = "based" => Ahead = MaxActive + 7
    /\ pc = "bound" => Ahead = MaxActive + 6
    /\ pc = "wait" => Ahead = MaxActive + 5
    /\ pc = "top" /\ ~(event_gotterm \/ event_break) => Ahead = MaxActive + 5
    /\ pc = "top" /\ (event_gotterm \/ event_break) => Ahead = 3
    /\ pc = "run" /\ once => Ahead = active + 4
    /\ pc = "run" /\ ~once => Ahead = active + 3
    /\ pc = "left" => Ahead = 2
    /\ pc = "unlistened" => Ahead = 1
    /\ pc \in {"idle", "set", "returned", "crashed"} => Ahead = 0

LEMMA AheadNow == AheadTable
BY DEF AheadTable, Ahead, Done

LEMMA AheadNext == AheadTable'
BY AheadNow, PTL

(* Ahead counts steps.                                                     *)
LEMMA AheadNat == ASSUME IInv PROVE Ahead \in Nat
<1>1. active \in Nat /\ MaxActive \in Nat
    BY LoopBounds DEF IInv, LoopTypeOK
<1>2. \/ Ahead \in {MaxActive + 7, MaxActive + 6, MaxActive + 5, 3, 2, 1, 0}
      \/ Ahead \in {active + 4, active + 3}
    BY AheadNow DEF AheadTable, IInv, LoopTypeOK
<1> QED
    BY <1>1, <1>2

(* What the proofs below use of the natural numbers.                       *)
LEMMA Sums ==
    /\ \A a, b, c, d \in Nat : a <= b /\ c <= d => a + c <= b + d
    /\ \A a, b, c, d \in Nat : a < b /\ c = d => a + c < b + d
    /\ \A a, b, c, d \in Nat : a <= b + 1 /\ d = c + 1 => a + c <= b + d
    /\ \A a, b \in Nat : a + b \in Nat /\ (a < b => a <= b)
    /\ \A a, b \in Nat : a <= b => a + 4 < b + 5 /\ a + 3 < b + 5
OBVIOUS

LEMMA ToComeNat == ASSUME IInv PROVE ToCome \in Nat
<1>1. MaxStops - stops \in Nat
    BY LoopBounds DEF IInv, LoopTypeOK
<1>2. ToCome = MaxStops - stops + 0 \/ ToCome = MaxStops - stops + 1
    BY DEF ToCome
<1> QED
    BY <1>1, <1>2

(* A step of the loop's thread.                                            *)
LEMMA LoopDescends ==
    ASSUME IInv, IInv', asked, LoopStep
    PROVE  asked' /\ Ahead' < Ahead /\ ToCome' = ToCome
<1>1. asked' /\ UNCHANGED <<stopPc, stops>>
    BY DEF LoopStep, SetGlobals, NewBase, Bind, EnterLoop, LeaveLoop, Block, Poll,
           RunCallback, RunLoopexit, FreeListener, FreeBase, stop, flags, global
<1>2. ToCome' = ToCome
    BY <1>1 DEF ToCome
<1>3. /\ active \in Nat /\ active' \in Nat /\ MaxActive \in Nat
      /\ active' <= MaxActive
    BY LoopBounds DEF IInv, LoopTypeOK
<1>4. pc \notin {"idle", "set"}
    BY DEF IInv, NoBaseYet, AskedLeavesTrace
<1>5. CASE Bind
    <2>1. pc = "based" /\ pc' = "bound"
        BY <1>5 DEF Bind
    <2>2. Ahead = MaxActive + 7 /\ Ahead' = MaxActive + 6
        BY <2>1, AheadNow, AheadNext DEF AheadTable
    <2>3. Ahead' < Ahead
        BY <1>3, <2>2
    <2> QED
        BY <1>1, <1>2, <2>3
<1>6. CASE EnterLoop
    <2>1. pc = "bound" /\ pc' = "top" /\ ~(event_gotterm' \/ event_break')
        BY <1>6 DEF EnterLoop
    <2>2. Ahead = MaxActive + 6 /\ Ahead' = MaxActive + 5
        BY <2>1, AheadNow, AheadNext DEF AheadTable
    <2> QED
        BY <1>1, <1>2, <1>3, <2>2
<1>7. CASE LeaveLoop
    <2>1. pc = "top" /\ pc' = "left" /\ (event_gotterm \/ event_break)
        BY <1>7 DEF LeaveLoop, Done, IInv, AskedLeavesTrace, InLoop
    <2>2. Ahead = 3 /\ Ahead' = 2
        BY <2>1, AheadNow, AheadNext DEF AheadTable
    <2> QED
        BY <1>1, <1>2, <2>2
<1>8. ~Block
    BY DEF Block, Done, IInv, AskedLeavesTrace, InLoop
<1>9. CASE Poll
    <2>1. /\ pc = "wait" \/ (pc = "top" /\ ~(event_gotterm \/ event_break))
          /\ pc' = "run"
        BY <1>9 DEF Poll, Done
    <2>2. Ahead = MaxActive + 5
        BY <2>1, AheadNow DEF AheadTable
    <2>3. Ahead' \in {active' + 4, active' + 3}
        BY <2>1, AheadNext DEF AheadTable
    <2>4. active' + 4 < MaxActive + 5 /\ active' + 3 < MaxActive + 5
        BY <1>3, Sums, Zenon
    <2>5. Ahead' < Ahead
        BY <2>2, <2>3, <2>4
    <2> QED
        BY <1>1, <1>2, <2>5
<1>10. CASE RunCallback
    <2>1. /\ pc = "run" /\ active > 0 /\ active' = active - 1 /\ once' = once
          /\ event_break' = event_break /\ event_gotterm' = event_gotterm
          /\ \/ pc' = "crashed"
             \/ pc' = AfterCallback(active - 1, once)
        BY <1>10 DEF RunCallback
    <2>2. event_break \/ event_gotterm \/ once
        BY <2>1 DEF IInv, AskedLeavesTrace, InLoop
    <2>3. \/ once /\ Ahead = active + 4
          \/ ~once /\ Ahead = active + 3
        BY <2>1, AheadNow DEF AheadTable
    <2>4. CASE pc' = "crashed"
        <3>1. Ahead' = 0
            BY <2>4, AheadNext DEF AheadTable
        <3> QED
            BY <1>1, <1>2, <1>3, <2>1, <2>3, <3>1
    <2>5. CASE pc' = "run"
        <3>1. \/ once /\ Ahead' = active' + 4
              \/ ~once /\ Ahead' = active' + 3
            BY <2>1, <2>5, AheadNext DEF AheadTable
        <3> QED
            BY <1>1, <1>2, <1>3, <2>1, <2>3, <3>1
    <2>6. CASE pc' = "top" /\ pc' = AfterCallback(active - 1, once)
        <3>1. event_gotterm' \/ event_break'
            BY <2>1, <2>2, <2>6 DEF AfterCallback
        <3>2. Ahead' = 3
            BY <2>6, <3>1, AheadNext DEF AheadTable
        <3> QED
            BY <1>1, <1>2, <1>3, <2>1, <2>3, <3>2
    <2> QED
        BY <2>1, <2>4, <2>5, <2>6 DEF AfterCallback
<1>11. CASE RunLoopexit
    <2>1. /\ pc = "run" /\ once /\ ~once' /\ event_gotterm' /\ active' = active
          /\ pc' \in {"run", "top"}
        BY <1>11 DEF RunLoopexit, AfterCallback
    <2>2. Ahead = active + 4
        BY <2>1, AheadNow DEF AheadTable
    <2>3. Ahead' \in {3, active + 3}
        BY <2>1, AheadNext DEF AheadTable
    <2> QED
        BY <1>1, <1>2, <1>3, <2>2, <2>3
<1>12. CASE FreeListener
    <2>1. pc = "left" /\ pc' \in {"unlistened", "crashed"}
        BY <1>12, Zenon DEF FreeListener
    <2>2. Ahead = 2 /\ Ahead' \in {0, 1}
        BY <2>1, AheadNow, AheadNext DEF AheadTable
    <2> QED
        BY <1>1, <1>2, <2>2
<1>13. CASE FreeBase
    <2>1. pc = "unlistened" /\ pc' = "returned"
        BY <1>13 DEF FreeBase
    <2>2. Ahead = 1 /\ Ahead' = 0
        BY <2>1, AheadNow, AheadNext DEF AheadTable
    <2> QED
        BY <1>1, <1>2, <2>2
<1> QED
    BY <1>4, <1>5, <1>6, <1>7, <1>8, <1>9, <1>10, <1>11, <1>12, <1>13
       DEF LoopStep, SetGlobals, NewBase

(* What another thread does to the count: a step that leaves the thread     *)
(* where it is, or crashes it, and leaves the queue and the flags alone,    *)
(* but for the flags it sets.                                              *)
LEMMA AheadKept ==
    ASSUME IInv, IInv', pc' \in {pc, "crashed"}, active' = active,
           once' = once, event_break => event_break', event_gotterm' = event_gotterm
    PROVE  Ahead' <= Ahead
<1>1. active \in Nat /\ MaxActive \in Nat /\ Ahead \in Nat
    BY LoopBounds, AheadNat DEF IInv, LoopTypeOK
<1>2. CASE pc' = "crashed"
    <2>1. Ahead' = 0
        BY <1>2, AheadNext DEF AheadTable
    <2> QED
        BY <1>1, <2>1
<1>3. CASE pc' = pc
    <2>1. Ahead' = Ahead \/ (Ahead = MaxActive + 5 /\ Ahead' = 3)
        BY <1>3, AheadNow, AheadNext DEF AheadTable, IInv, LoopTypeOK
    <2> QED
        BY <1>1, <2>1
<1> QED
    BY <1>2, <1>3

(* loopexit's event, which a stop may activate: one callback more.          *)
LEMMA AheadOneMore ==
    ASSUME IInv, IInv', pc' \in {pc, "crashed"}, active' = active,
           event_break' = event_break, event_gotterm' = event_gotterm
    PROVE  Ahead' <= Ahead + 1
<1>1. active \in Nat /\ MaxActive \in Nat /\ Ahead \in Nat
    BY LoopBounds, AheadNat DEF IInv, LoopTypeOK
<1>2. CASE pc' = "crashed"
    <2>1. Ahead' = 0
        BY <1>2, AheadNext DEF AheadTable
    <2> QED
        BY <1>1, <2>1
<1>3. CASE pc' = pc
    <2>1. \/ Ahead' = Ahead
          \/ Ahead \in {active + 3, active + 4} /\ Ahead' \in {active + 3, active + 4}
        BY <1>3, AheadNow, AheadNext DEF AheadTable, IInv, LoopTypeOK
    <2> QED
        BY <1>1, <2>1
<1> QED
    BY <1>2, <1>3

(* A step of a stop, of the network, or of nobody.                          *)
LEMMA OthersKeep ==
    ASSUME IInv, IInv', asked, [StopStep \/ Arrive]_loopVars
    PROVE  asked' /\ Ahead' + ToCome' <= Ahead + ToCome
<1>1. /\ stops \in Nat /\ stops' \in Nat /\ MaxStops \in Nat
      /\ Ahead \in Nat /\ Ahead' \in Nat /\ ToCome \in Nat /\ ToCome' \in Nat
    <2>1. (IInv => Ahead \in Nat /\ ToCome \in Nat)'
        BY AheadNat, ToComeNat, PTL
    <2> QED
        BY <2>1, AheadNat, ToComeNat, LoopBounds DEF IInv, LoopTypeOK
<1>2. CASE StopBreak
    <2>1. /\ asked' /\ stopPc # "break" /\ stopPc' = "break" /\ stops' = stops + 1
          /\ (event_break => event_break') /\ UNCHANGED <<active, once, event_gotterm>>
          /\ pc' \in {pc, "crashed"}
        BY <1>2 DEF StopBreak, MayCrash
    <2>2. Ahead' <= Ahead
        BY <2>1, AheadKept
    <2>3. ToCome = MaxStops - stops + 0 /\ ToCome' = MaxStops - stops' + 1
        BY <2>1 DEF ToCome
    <2>4. ToCome' <= ToCome
        BY ONLY <1>1, <2>1, <2>3
    <2>5. Ahead' + ToCome' <= Ahead + ToCome
        BY <1>1, <2>2, <2>4, Sums, Zenon
    <2> QED
        BY <2>1, <2>5
<1>3. CASE StopExit
    <2>1. /\ asked' /\ stopPc = "break" /\ stopPc' = "exit" /\ stops' = stops
          /\ UNCHANGED <<active, event_break, event_gotterm>> /\ pc' \in {pc, "crashed"}
        BY <1>3 DEF StopExit, MayCrash
    <2>2. Ahead' <= Ahead + 1
        BY <2>1, AheadOneMore
    <2>3. ToCome = MaxStops - stops + 1 /\ ToCome' = MaxStops - stops' + 0
        BY <2>1 DEF ToCome
    <2>4. ToCome = ToCome' + 1
        BY ONLY <1>1, <2>1, <2>3
    <2>5. Ahead' + ToCome' <= Ahead + ToCome
        BY <1>1, <2>2, <2>4, Sums, Zenon
    <2> QED
        BY <2>1, <2>5
<1>4. CASE ~StopBreak /\ ~StopExit
    <2>1. /\ asked' /\ ((stopPc = "break") <=> (stopPc' = "break")) /\ stops' = stops
          /\ UNCHANGED <<pc, active, once, event_break, event_gotterm>>
        BY <1>4 DEF StopStep, StopClearEncryptor, StopReturn, Arrive,
                    loopVars, thread, flags, global, stop
    <2>2. Ahead' <= Ahead
        BY <2>1, AheadKept
    <2>3. ToCome' <= ToCome
        <3>1. ToCome' = ToCome
            BY <2>1 DEF ToCome
        <3> QED
            BY <1>1, <3>1
    <2>5. Ahead' + ToCome' <= Ahead + ToCome
        BY <1>1, <2>2, <2>3, Sums, Zenon
    <2> QED
        BY <2>1, <2>5
<1> QED
    BY <1>2, <1>3, <1>4

(* The safety half of BusyLoopStops: every step of the thread brings a loop  *)
(* that was asked to stop nearer to its end, and no other step takes it     *)
(* further away, so that it takes MaxActive + MaxStops + 7 more at most.    *)
THEOREM StopDescends ==
    Spec => [][asked => /\ asked' /\ StepsLeft' <= StepsLeft
                        /\ LoopStep => StepsLeft' < StepsLeft]_loopVars
<1>1. IInv /\ IInv' /\ [Next]_loopVars =>
         [asked => /\ asked' /\ StepsLeft' <= StepsLeft
                   /\ LoopStep => StepsLeft' < StepsLeft]_loopVars
    <2> SUFFICES ASSUME IInv, IInv', [Next]_loopVars, asked, ~(UNCHANGED loopVars)
                 PROVE  /\ asked' /\ StepsLeft' <= StepsLeft
                        /\ LoopStep => StepsLeft' < StepsLeft
        OBVIOUS
    <2>1. /\ Ahead \in Nat /\ Ahead' \in Nat
          /\ ToCome \in Nat /\ ToCome' \in Nat
        <3>1. (IInv => Ahead \in Nat /\ ToCome \in Nat)'
            BY AheadNat, ToComeNat, PTL
        <3> QED
            BY <3>1, AheadNat, ToComeNat
    <2>2. CASE LoopStep
        <3>1. asked' /\ Ahead' < Ahead /\ ToCome' = ToCome
            BY <2>2, LoopDescends
        <3>2. Ahead' + ToCome' < Ahead + ToCome
            BY <2>1, <3>1, Sums, Zenon
        <3>3. StepsLeft' < StepsLeft /\ StepsLeft' <= StepsLeft
            <4>1. Ahead + ToCome \in Nat /\ Ahead' + ToCome' \in Nat
                BY <2>1, Sums, Zenon
            <4> QED
                BY <3>2, <4>1, Sums, Zenon DEF StepsLeft
        <3> QED
            BY <3>1, <3>3
    <2>3. CASE ~LoopStep
        <3>1. asked' /\ Ahead' + ToCome' <= Ahead + ToCome
            BY <2>3, OthersKeep DEF Next
        <3>2. StepsLeft' <= StepsLeft
            BY ONLY <2>1, <3>1 DEF StepsLeft
        <3> QED
            BY <2>3, <3>1, <3>2
    <2> QED
        BY <2>2, <2>3
<1> QED
    BY <1>1, Invariance, PTL DEF Spec
=============================================================================
