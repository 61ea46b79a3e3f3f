--------------------------- MODULE ChatRoomProofs ---------------------------
(***************************************************************************)
(* The invariants of ChatRoom for channels of any size, any number of      *)
(* messages and any number of rooms entered.                               *)
(***************************************************************************)
EXTENDS ChatRoom, SequenceTheorems, TLAPS

(* Who holds the mutex is told by where the areas are, an area sleeps only *)
(* at the head of its loop, and the two flags are never both set.          *)
WindowControl ==
    /\ mutex = "input" <=> pc["input"] \in {"edit", "act", "send"}
    /\ mutex = "option" <=> pc["option"] \in {"menu", "exit"}
    /\ \A a \in asleep : pc[a] = "lock"
    /\ ~(isChatLogCond /\ isOptionCond)

(* While the log area is blocked on the channel, nothing it has received   *)
(* is waiting to be drawn.                                                 *)
ReceiveIsQuiet == pc["log"] = "receive" => ~transferSignal

(* What is about to be sent is what the last key asked for, and there is   *)
(* room for it within the bound on messages under way.                     *)
SendBudget ==
    /\ pc["input"] = "act" /\ key = "timeout" => transferSignal
    /\ pc["input"] = "send" => key \in {"return", "arrow"}
    /\ pc["input"] \in {"act", "send"} /\ key = "arrow" => line = "scroll"
    /\ pc["input"] \in {"act", "send"} /\ key = "return" /\ line = "text"
          => owed < MaxSent

WInv ==
    /\ TypeOK
    /\ WindowControl
    /\ OneWindowOwner
    /\ NoLostWakeup
    /\ ReceiveIsQuiet
    /\ SendBudget
    /\ NoStrandedInput

USE BoundAssumption

LEMMA WInvLog ==
    ASSUME WInv, LogStep
    PROVE  WInv'
<1> USE DEF flags, logVars, lineVars, netVars, goto, Area, Free, Control, Item,
            Line, NoLine, Key, Awake, Broadcast, WInv
<1>1. CASE LogWait
  BY <1>1 DEF LogWait, Wait, TypeOK, WindowControl, OneWindowOwner,
       NoLostWakeup, ReceiveIsQuiet, SendBudget, NoStrandedInput, LogMay, OptionMay, InputMay
<1>2. CASE LogDraw
  BY <1>2, ZenonT(30) DEF LogDraw, TypeOK, WindowControl, OneWindowOwner,
       NoLostWakeup, ReceiveIsQuiet, SendBudget, NoStrandedInput, LogMay, OptionMay, InputMay
<1>3. CASE LogReceive
  BY <1>3 DEF LogReceive, TypeOK, WindowControl, OneWindowOwner,
       NoLostWakeup, ReceiveIsQuiet, SendBudget, NoStrandedInput, LogMay, OptionMay, InputMay
<1>4. CASE LogSignal
  BY <1>4 DEF LogSignal, TypeOK, WindowControl, OneWindowOwner,
       NoLostWakeup, ReceiveIsQuiet, SendBudget, NoStrandedInput, LogMay, OptionMay, InputMay
<1>5. CASE LogHandle
  BY <1>5 DEF LogHandle, TypeOK, WindowControl, OneWindowOwner,
       NoLostWakeup, ReceiveIsQuiet, SendBudget, NoStrandedInput, LogMay, OptionMay, InputMay
<1>6. CASE LogDrain
  <2>1. /\ listener' \in Seq(Item) /\ Len(listener') <= ListenerSize
        /\ msg' \in Item
    BY <1>6 DEF LogDrain, TypeOK
  <2>2. pending' \in Seq(Control) /\ Len(pending') <= PendingSize
    <3>1. CASE Head(listener) \in Control
      BY <1>6, <3>1, SMTT(30) DEF LogDrain, TypeOK
    <3>2. CASE Head(listener) \notin Control
      BY <1>6, <3>2 DEF LogDrain, TypeOK
    <3> QED
      BY <3>1, <3>2
  <2>3. TypeOK'
    BY <1>6, <2>1, <2>2 DEF LogDrain, TypeOK
  <2> QED
    BY <1>6, <2>3 DEF LogDrain, TypeOK, WindowControl, OneWindowOwner,
         NoLostWakeup, ReceiveIsQuiet, SendBudget, NoStrandedInput, LogMay, OptionMay, InputMay
<1>7. CASE LogDrained
  BY <1>7 DEF LogDrained, TypeOK, WindowControl, OneWindowOwner,
       NoLostWakeup, ReceiveIsQuiet, SendBudget, NoStrandedInput, LogMay, OptionMay, InputMay
<1>8. CASE LogRequeue
  <2>1. CASE pending = <<>>
    BY <1>8, <2>1 DEF LogRequeue, TypeOK, WindowControl, OneWindowOwner,
         NoLostWakeup, ReceiveIsQuiet, SendBudget, NoStrandedInput, LogMay, OptionMay, InputMay
  <2>2. CASE pending # <<>>
    <3>1. Head(pending) \in Item
      BY <2>2 DEF TypeOK
    <3>2. listener' \in Seq(Item) /\ Len(listener') <= ListenerSize
      <4>1. listener \in Seq(Item) /\ Len(listener) < ListenerSize
        BY <1>8, <2>2 DEF LogRequeue, Post, Room, TypeOK
      <4>2. listener' = Append(listener, Head(pending))
        BY <1>8, <2>2 DEF LogRequeue, Post
      <4> HIDE DEF Item
      <4> QED
        BY <3>1, <4>1, <4>2
    <3>3. pending' \in Seq(Control) /\ Len(pending') <= PendingSize
      <4>1. pending \in Seq(Control) /\ Len(pending) <= PendingSize
        BY DEF TypeOK
      <4>2. pending' = Tail(pending)
        BY <1>8, <2>2 DEF LogRequeue
      <4> HIDE DEF Control
      <4> QED
        BY <2>2, <4>1, <4>2
    <3>4. TypeOK'
      BY <1>8, <2>2, <3>2, <3>3 DEF LogRequeue, TypeOK
    <3> QED
      BY <1>8, <2>2, <3>4 DEF LogRequeue, TypeOK, WindowControl, OneWindowOwner,
         NoLostWakeup, ReceiveIsQuiet, SendBudget, NoStrandedInput, LogMay, OptionMay, InputMay
  <2> QED
    BY <2>1, <2>2
<1> QED
  BY <1>1, <1>2, <1>3, <1>4, <1>5, <1>6, <1>7, <1>8 DEF LogStep

LEMMA WInvOption ==
    ASSUME WInv, OptionStep \/ ReturnChat \/ ChooseExit
    PROVE  WInv'
<1> USE DEF flags, logVars, lineVars, netVars, goto, Area, Free, Control, Item,
            Line, NoLine, Key, Awake, Broadcast, WInv
<1>1. CASE OptionWait
  BY <1>1 DEF OptionWait, Wait, TypeOK, WindowControl, OneWindowOwner,
       NoLostWakeup, ReceiveIsQuiet, SendBudget, NoStrandedInput, LogMay, OptionMay, InputMay
<1>2. CASE OptionOpen
  BY <1>2 DEF OptionOpen, TypeOK, WindowControl, OneWindowOwner,
       NoLostWakeup, ReceiveIsQuiet, SendBudget, NoStrandedInput, LogMay, OptionMay, InputMay
<1>3. CASE ReturnChat
  BY <1>3, ZenonT(30) DEF ReturnChat, OptionClose, TypeOK, WindowControl, OneWindowOwner,
       NoLostWakeup, ReceiveIsQuiet, SendBudget, NoStrandedInput, LogMay, OptionMay, InputMay
<1>4. CASE ChooseExit
  BY <1>4 DEF ChooseExit, TypeOK, WindowControl, OneWindowOwner,
       NoLostWakeup, ReceiveIsQuiet, SendBudget, NoStrandedInput, LogMay, OptionMay, InputMay
<1>5. CASE ExitChat
  <2>1. listener' \in Seq(Item) /\ Len(listener') <= ListenerSize
    BY <1>5 DEF ExitChat, Post, Room, TypeOK
  <2>2. TypeOK'
    BY <1>5, <2>1 DEF ExitChat, OptionClose, TypeOK
  <2> QED
    BY <1>5, <2>2 DEF ExitChat, OptionClose, TypeOK, WindowControl, OneWindowOwner,
         NoLostWakeup, ReceiveIsQuiet, SendBudget, NoStrandedInput, LogMay, OptionMay, InputMay
<1>6. CASE OptionLeave
  BY <1>6 DEF OptionLeave, TypeOK, WindowControl, OneWindowOwner,
       NoLostWakeup, ReceiveIsQuiet, SendBudget, NoStrandedInput, LogMay, OptionMay, InputMay
<1> QED
  BY <1>1, <1>2, <1>3, <1>4, <1>5, <1>6 DEF OptionStep

LEMMA WInvInput ==
    ASSUME WInv, \/ InputStep \/ Timeout \/ PressReturn \/ PressArrow \/ PressF1
           \/ \E text \in Line : Type(text)
    PROVE  WInv'
<1> USE DEF flags, logVars, lineVars, netVars, goto, Area, Free, Control, Item,
            Line, NoLine, Key, Awake, Broadcast, WInv
<1>1. CASE InputWait
  BY <1>1 DEF InputWait, Wait, TypeOK, WindowControl, OneWindowOwner,
       NoLostWakeup, ReceiveIsQuiet, SendBudget, NoStrandedInput, LogMay, OptionMay, InputMay
<1>2. CASE InputOpen
  BY <1>2 DEF InputOpen, TypeOK, WindowControl, OneWindowOwner,
       NoLostWakeup, ReceiveIsQuiet, SendBudget, NoStrandedInput, LogMay, OptionMay, InputMay
<1>3. CASE InputKilled
  BY <1>3 DEF InputKilled, TypeOK, WindowControl, OneWindowOwner,
       NoLostWakeup, ReceiveIsQuiet, SendBudget, NoStrandedInput, LogMay, OptionMay, InputMay
<1>4. CASE OpenOptions
  BY <1>4 DEF OpenOptions, TypeOK, WindowControl, OneWindowOwner,
       NoLostWakeup, ReceiveIsQuiet, SendBudget, NoStrandedInput, LogMay, OptionMay, InputMay
<1>5. CASE GiveWay
  BY <1>5 DEF GiveWay, WakeLog, TypeOK, WindowControl, OneWindowOwner,
       NoLostWakeup, ReceiveIsQuiet, SendBudget, NoStrandedInput, LogMay, OptionMay, InputMay
<1>6. CASE Commit
  BY <1>6 DEF Commit, TypeOK, WindowControl, OneWindowOwner,
       NoLostWakeup, ReceiveIsQuiet, SendBudget, NoStrandedInput, LogMay, OptionMay, InputMay
<1>7. CASE SendText
  <2>1. owed < MaxSent
    BY <1>7 DEF SendText, SendBudget, WInv
  <2> QED
    BY <1>7, <2>1 DEF SendText, WakeLog, TypeOK, WindowControl, OneWindowOwner,
         NoLostWakeup, ReceiveIsQuiet, SendBudget, NoStrandedInput, LogMay, OptionMay, InputMay
<1>8. CASE PostScroll
  BY <1>8 DEF PostScroll, WakeLog, Post, Room, TypeOK, WindowControl, OneWindowOwner,
       NoLostWakeup, ReceiveIsQuiet, SendBudget, NoStrandedInput, LogMay, OptionMay, InputMay
<1>9. CASE PostQuit
  BY <1>9 DEF PostQuit, Post, Room, TypeOK, WindowControl, OneWindowOwner,
       NoLostWakeup, ReceiveIsQuiet, SendBudget, NoStrandedInput, LogMay, OptionMay, InputMay
<1>10. CASE Timeout
  BY <1>10 DEF Timeout, TypeOK, WindowControl, OneWindowOwner,
       NoLostWakeup, ReceiveIsQuiet, SendBudget, NoStrandedInput, LogMay, OptionMay, InputMay
<1>11. CASE PressReturn
  BY <1>11 DEF PressReturn, TypeOK, WindowControl, OneWindowOwner,
       NoLostWakeup, ReceiveIsQuiet, SendBudget, NoStrandedInput, LogMay, OptionMay, InputMay
<1>12. CASE PressArrow
  BY <1>12 DEF PressArrow, TypeOK, WindowControl, OneWindowOwner,
       NoLostWakeup, ReceiveIsQuiet, SendBudget, NoStrandedInput, LogMay, OptionMay, InputMay
<1>13. CASE PressF1
  BY <1>13 DEF PressF1, TypeOK, WindowControl, OneWindowOwner,
       NoLostWakeup, ReceiveIsQuiet, SendBudget, NoStrandedInput, LogMay, OptionMay, InputMay
<1>14. CASE \E text \in Line : Type(text)
  BY <1>14 DEF Type, TypeOK, WindowControl, OneWindowOwner,
       NoLostWakeup, ReceiveIsQuiet, SendBudget, NoStrandedInput, LogMay, OptionMay, InputMay
<1> QED
  BY <1>1, <1>2, <1>3, <1>4, <1>5, <1>6, <1>7, <1>8, <1>9, <1>10, <1>11, <1>12, <1>13, <1>14 DEF InputStep

LEMMA WInvNetwork ==
    ASSUME WInv, OthersMessage \/ OwnMessage \/ EnterRoom
    PROVE  WInv'
<1> USE DEF flags, logVars, lineVars, netVars, goto, Area, Free, Control, Item,
            Line, NoLine, Key, Awake, Broadcast, WInv
<1>1. CASE OthersMessage
  BY <1>1 DEF OthersMessage, Post, Room, TypeOK, WindowControl, OneWindowOwner,
       NoLostWakeup, ReceiveIsQuiet, SendBudget, NoStrandedInput, LogMay, OptionMay, InputMay
<1>2. CASE OwnMessage
  BY <1>2 DEF OwnMessage, Post, Room, TypeOK, WindowControl, OneWindowOwner,
       NoLostWakeup, ReceiveIsQuiet, SendBudget, NoStrandedInput, LogMay, OptionMay, InputMay
<1>3. CASE EnterRoom
  BY <1>3 DEF EnterRoom, NewRoom, TypeOK, WindowControl, OneWindowOwner,
       NoLostWakeup, ReceiveIsQuiet, SendBudget, NoStrandedInput, LogMay, OptionMay, InputMay
<1> QED
  BY <1>1, <1>2, <1>3

LEMMA WInvInit == Init => WInv
  BY DEF Init, NewRoom, Area, Free, Item, Control, Line, NoLine, Key, WInv,
     TypeOK, WindowControl, OneWindowOwner,
       NoLostWakeup, ReceiveIsQuiet, SendBudget, NoStrandedInput, LogMay, OptionMay, InputMay

LEMMA WInvStep == WInv /\ [Next]_vars => WInv'
<1>1. ASSUME WInv, UNCHANGED vars PROVE WInv'
  BY <1>1 DEF vars, flags, logVars, lineVars, netVars, WInv,
     TypeOK, WindowControl, OneWindowOwner,
       NoLostWakeup, ReceiveIsQuiet, SendBudget, NoStrandedInput, LogMay, OptionMay, InputMay
<1> QED
  BY <1>1, WInvLog, WInvOption, WInvInput, WInvNetwork DEF Next, User

(* Everything below follows from one inductive invariant of the window.    *)
THEOREM RoomInvariant == Spec => []WInv
  BY WInvInit, WInvStep, PTL DEF Spec

(* The window state keeps its types; the channel and the list of put aside *)
(* control strings never hold more than they were made for.                *)
THEOREM RoomTyping == Spec => []TypeOK
<1>1. WInv => TypeOK
  BY DEF WInv
<1> QED
  BY <1>1, RoomInvariant, PTL

(* No area sleeps through the Broadcast it needs: the conditions of the    *)
(* three Wait loops (drawing.go 621, 691, 735) are never true of a sleeper. *)
THEOREM RoomWakeups == Spec => []NoLostWakeup
<1>1. WInv => NoLostWakeup
  BY DEF WInv
<1> QED
  BY <1>1, RoomInvariant, PTL

(* The deadlock of the comment at drawing.go 739-766 does not occur: the   *)
(* window is handed to a blocked log area only with something to wake it.  *)
THEOREM RoomInputNotStranded == Spec => []NoStrandedInput
<1>1. WInv => NoStrandedInput
  BY DEF WInv
<1> QED
  BY <1>1, RoomInvariant, PTL

(* While one area keeps the mutex across a key press, the flags of the     *)
(* other two say that they may not draw.                                   *)
THEOREM RoomOneOwner == Spec => []OneWindowOwner
<1>1. WInv => OneWindowOwner
  BY DEF WInv
<1> QED
  BY <1>1, RoomInvariant, PTL

=============================================================================
