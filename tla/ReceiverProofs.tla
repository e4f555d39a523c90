--------------------------- MODULE ReceiverProofs ---------------------------
(***************************************************************************)
(* Proofs about the DTLS receiver, for any number of sessions and any      *)
(* queue size.  ReceiverInv is inductive: sessions are ordered by the      *)
(* ticket they drew at the swap; whoever waits no more has only ended      *)
(* sessions before it, because it waited for its immediate predecessor,    *)
(* which itself waited for all of those.                                   *)
(***************************************************************************)
EXTENDS Receiver, TLAPS

(* Nobody has swapped itself in at the start. *)
LEMMA InitReceiverInv == Init => ReceiverInv
<1> SUFFICES ASSUME Init PROVE ReceiverInv
  OBVIOUS
<1>1. TypeOK
  <2>1. queue \in [Sessions -> 0 .. QueueSize] /\ ticket \in [Sessions -> Nat]
    BY ReceiverAssumption DEF Init
  <2>2. /\ pc \in [Sessions -> Steps] /\ reader \in [Sessions -> {"off", "reading", "ended"}]
        /\ forwarder \in [Sessions -> {"off", "ready", "onframe", "ended"}]
    BY DEF Init, Steps
  <2>3. QED
    BY <2>1, <2>2 DEF Init, TypeOK
<1>2. \A s \in Sessions : ~Swapped(s) /\ ~Waiting(s) /\ ticket[s] = 0
  BY DEF Init, Swapped, Waiting
<1>3. TicketsOrder /\ WaitsForPredecessor /\ PredecessorsEnded
  BY <1>2 DEF Init, TicketsOrder, WaitsForPredecessor, PredecessorsEnded, PastWait
<1>4. DoneMeansEnded /\ CurIsNewest /\ ForwarderInBracket
  BY <1>2 DEF Init, DoneMeansEnded, CurIsNewest, ForwarderInBracket
<1>5. QED
  BY <1>1, <1>3, <1>4 DEF ReceiverInv

(* Every step keeps the types, the queue bound included. *)
LEMMA NextTypeOK == ReceiverInv /\ [Next]_vars => TypeOK'
<1> SUFFICES ASSUME ReceiverInv, [Next]_vars PROVE TypeOK'
  OBVIOUS
<1>t. TypeOK /\ WaitsForPredecessor
  BY DEF ReceiverInv
<1> USE ReceiverAssumption, <1>t DEF TypeOK, Steps, Goto, ioVars, linkVars
<1>1. ASSUME NEW s \in Sessions, Accept(s) PROVE TypeOK'
  BY <1>1 DEF Accept
<1>2. ASSUME NEW s \in Sessions, Swap(s) PROVE TypeOK'
  BY <1>2 DEF Swap, AfterSwap
<1>3. ASSUME NEW s \in Sessions, CloseOld(s) PROVE TypeOK'
  BY <1>3 DEF CloseOld, CloseReplaced, WaitsForPredecessor, Waiting
<1>4. ASSUME NEW s \in Sessions, WaitOld(s) \/ Recheck(s) \/ OnStreamStart(s)
      PROVE  TypeOK'
  BY <1>4 DEF WaitOld, Recheck, OnStreamStart
<1>5. ASSUME NEW s \in Sessions,
             RunCancelled(s) \/ RunEnded(s) \/ JoinForwarder(s) \/ OnStreamStop(s)
      PROVE  TypeOK'
  BY <1>5 DEF RunCancelled, RunEnded, JoinForwarder, OnStreamStop
<1>6. ASSUME NEW s \in Sessions, Cleanup(s) \/ CloseDone(s) \/ CloseConn(s)
      PROVE  TypeOK'
  BY <1>6 DEF Cleanup, CurAfter, CloseDone, CloseConn
<1>7. ASSUME NEW s \in Sessions, ReadFrame(s) PROVE TypeOK'
  BY <1>7 DEF ReadFrame, HasRoom
<1>8. ASSUME NEW s \in Sessions, TakeFrame(s) PROVE TypeOK'
  BY <1>8 DEF TakeFrame
<1>9. ASSUME NEW s \in Sessions,
             ReadFails(s) \/ OnFrame(s) \/ ForwarderEnds(s) \/ PeerCloses(s)
      PROVE  TypeOK'
  BY <1>9 DEF ReadFails, OnFrame, ForwarderEnds, PeerCloses
<1>10. CASE Cancel
  BY <1>10 DEF Cancel
<1>11. CASE Terminated \/ UNCHANGED vars
  BY <1>11 DEF Terminated, vars
<1>12. QED
  BY <1>1, <1>2, <1>3, <1>4, <1>5, <1>6, <1>7, <1>8, <1>9, <1>10, <1>11
     DEF Next, HandlerStep, ForwarderStep

-----------------------------------------------------------------------------
(* The order of sessions: the part of ReceiverInv that the handlers share. *)
Order ==
  /\ TicketsOrder
  /\ DoneMeansEnded
  /\ CurIsNewest
  /\ WaitsForPredecessor
  /\ PredecessorsEnded

(* A step that moves a handler within its phase keeps the order. *)
LEMMA SamePhase ==
  ASSUME TypeOK, Order, UNCHANGED linkVars,
         \A s \in Sessions : /\ Swapped(s)' = Swapped(s)
                             /\ Waiting(s)' = Waiting(s)
                             /\ Ended(s)' = Ended(s)
  PROVE  Order'
<1>1. TicketsOrder'
  BY DEF Order, TicketsOrder, linkVars
<1>2. DoneMeansEnded'
  BY DEF Order, DoneMeansEnded, linkVars, TypeOK
<1>3. CurIsNewest'
  BY DEF Order, CurIsNewest, linkVars, TypeOK
<1>4. WaitsForPredecessor'
  BY DEF Order, WaitsForPredecessor, linkVars, TypeOK
<1>5. PredecessorsEnded'
  BY DEF Order, PredecessorsEnded, PastWait, linkVars, TypeOK
<1>6. QED
  BY <1>1, <1>2, <1>3, <1>4, <1>5 DEF Order

(* The swap: the new session draws the largest ticket; with no current     *)
(* session everyone before it has ended, otherwise it waits for cur.       *)
LEMMA SwapOrder ==
  ASSUME TypeOK, TypeOK', Order, NEW s \in Sessions, Swap(s)
  PROVE  Order'
<1> USE ReceiverAssumption DEF TypeOK, Swap, AfterSwap, Goto
<1>1. ticket[s] = 0 /\ ~Swapped(s) /\ s # cur
  BY DEF Order, TicketsOrder, CurIsNewest, Swapped
<1>2. Swapped(s)' /\ ~Ended(s)' /\ ticket'[s] = swaps + 1 /\ swaps' = swaps + 1
  BY DEF Swapped, Ended
<1>3. \A t \in Sessions : t # s => /\ ticket'[t] = ticket[t]
                                   /\ replaced'[t] = replaced[t]
                                   /\ Swapped(t)' = Swapped(t)
                                   /\ Waiting(t)' = Waiting(t)
                                   /\ Ended(t)' = Ended(t)
  BY DEF Swapped, Waiting, Ended
<1>4. TicketsOrder'
  <2>1. \A t \in Sessions : ticket[t] <= swaps /\ (Swapped(t) <=> ticket[t] # 0)
    BY DEF Order, TicketsOrder
  <2>2. \A t \in Sessions : ticket'[t] <= swaps' /\ (Swapped(t)' <=> ticket'[t] # 0)
    BY <1>2, <1>3, <2>1
  <2>3. \A t, u \in Sessions : ticket'[t] = ticket'[u] /\ ticket'[t] # 0 => t = u
    BY <1>2, <1>3, <2>1 DEF Order, TicketsOrder
  <2>4. QED
    BY <2>2, <2>3 DEF TicketsOrder
<1>5. DoneMeansEnded'
  BY <1>1, <1>3 DEF Order, DoneMeansEnded, Ended, Swapped
<1>6. CurIsNewest'
  BY <1>2 DEF CurIsNewest
<1>7. WaitsForPredecessor'
  <2>1. ASSUME NEW t \in Sessions, t # s, Waiting(t)'
        PROVE  /\ replaced'[t] \in Sessions
               /\ Swapped(replaced[t])'
               /\ ticket'[replaced[t]] + 1 = ticket'[t]
    BY <1>1, <1>3, <2>1 DEF Order, WaitsForPredecessor
  <2>2. ASSUME Waiting(s)'
        PROVE  /\ replaced'[s] \in Sessions /\ replaced'[s] # s
               /\ Swapped(replaced'[s])
               /\ ticket[replaced'[s]] = swaps
    BY <1>1, <2>2 DEF Order, CurIsNewest, Waiting
  <2>3. ASSUME NEW t \in Sessions, t # s, Waiting(t)'
        PROVE  replaced'[t] = replaced[t]
    BY <1>3, <2>3
  <2>4. QED
    BY <1>2, <1>3, <2>1, <2>2, <2>3 DEF WaitsForPredecessor, Swapped
<1>8. PredecessorsEnded'
  <2>1. ASSUME NEW t \in Sessions, NEW u \in Sessions,
               PastWait(t)', Swapped(u)', ticket'[u] < ticket'[t]
        PROVE  Ended(u)'
    <3>1. u # s
      BY <1>2, <1>3, <2>1 DEF Order, TicketsOrder
    <3>2. CASE t = s
      <4>1. cur = NoSession
        BY <2>1, <3>2 DEF PastWait, Waiting
      <4>2. QED
        BY <4>1, <1>3, <2>1, <3>1 DEF Order, CurIsNewest
    <3>3. CASE t # s
      BY <1>3, <2>1, <3>1, <3>3 DEF Order, PredecessorsEnded, PastWait
    <3>4. QED
      BY <3>2, <3>3
  <2>2. QED
    BY <2>1 DEF PredecessorsEnded
<1>9. QED
  BY <1>4, <1>5, <1>6, <1>7, <1>8 DEF Order

(* The end of the wait: the predecessor has ended, hence all before it. *)
LEMMA WaitOrder ==
  ASSUME TypeOK, Order, NEW s \in Sessions, WaitOld(s)
  PROVE  Order'
<1> USE DEF TypeOK, WaitOld, Goto, linkVars
<1>1. \A t \in Sessions : /\ Swapped(t)' = Swapped(t)
                          /\ Ended(t)' = Ended(t)
                          /\ t # s => Waiting(t)' = Waiting(t)
  BY DEF Swapped, Waiting, Ended
<1>2. ~Waiting(s)' /\ Waiting(s) /\ ~Ended(s)
  BY DEF Waiting, Ended
<1>3. TicketsOrder'
  BY <1>1 DEF Order, TicketsOrder
<1>4. DoneMeansEnded'
  BY <1>1 DEF Order, DoneMeansEnded
<1>5. CurIsNewest'
  BY <1>1 DEF Order, CurIsNewest
<1>6. WaitsForPredecessor'
  BY <1>1, <1>2 DEF Order, WaitsForPredecessor
<1>7. PredecessorsEnded'
  <2>1. ASSUME NEW t \in Sessions, NEW u \in Sessions,
               PastWait(t)', Swapped(u)', ticket'[u] < ticket'[t]
        PROVE  Ended(u)'
    <3>1. CASE t = s
      <4>1. replaced[s] \in Sessions /\ ticket[replaced[s]] + 1 = ticket[s]
        BY <1>2 DEF Order, WaitsForPredecessor
      <4>2. Ended(replaced[s])
        BY DEF Order, DoneMeansEnded
      <4>3. PastWait(replaced[s])
        BY <4>2 DEF Ended, PastWait, Swapped, Waiting
      <4>4. Swapped(u) /\ ticket[u] <= ticket[replaced[s]]
        BY <1>1, <2>1, <3>1, <4>1
      <4>5. CASE ticket[u] < ticket[replaced[s]]
        BY <1>1, <4>1, <4>3, <4>4, <4>5 DEF Order, PredecessorsEnded
      <4>6. CASE ticket[u] = ticket[replaced[s]]
        <5>1. u = replaced[s]
          BY <4>1, <4>4, <4>6 DEF Order, TicketsOrder
        <5>2. QED
          BY <1>1, <4>2, <5>1
      <4>7. QED
        BY <4>1, <4>4, <4>5, <4>6
    <3>2. CASE t # s
      BY <1>1, <2>1, <3>2 DEF Order, PredecessorsEnded, PastWait
    <3>3. QED
      BY <3>1, <3>2
  <2>2. QED
    BY <2>1 DEF PredecessorsEnded
<1>8. QED
  BY <1>3, <1>4, <1>5, <1>6, <1>7 DEF Order

(* A handler that gives cur up has only ended sessions before it. *)
LEMMA CleanupOrder ==
  ASSUME TypeOK, Order, NEW s \in Sessions, Cleanup(s)
  PROVE  Order'
<1> USE ReceiverAssumption DEF TypeOK, Cleanup, CurAfter, Goto
<1>1. \A t \in Sessions : /\ Swapped(t)' = Swapped(t)
                          /\ Waiting(t)' = Waiting(t)
                          /\ Ended(t)' = (Ended(t) \/ t = s)
  BY DEF Swapped, Waiting, Ended
<1>2. PastWait(s) /\ ~Ended(s)
  BY DEF PastWait, Swapped, Waiting, Ended
<1>3. TicketsOrder'
  BY <1>1 DEF Order, TicketsOrder
<1>4. DoneMeansEnded'
  BY <1>1 DEF Order, DoneMeansEnded
<1>5. CurIsNewest'
  <2>1. CASE cur = s
    <3>1. \A t \in Sessions : Swapped(t) /\ t # s => ticket[t] < ticket[s]
      BY <2>1 DEF Order, TicketsOrder, CurIsNewest
    <3>2. \A t \in Sessions : Swapped(t) => Ended(t) \/ t = s
      BY <3>1, <1>2 DEF Order, PredecessorsEnded
    <3>3. QED
      BY <1>1, <2>1, <3>2 DEF CurIsNewest
  <2>2. CASE cur # s
    BY <1>1, <2>2 DEF Order, CurIsNewest
  <2>3. QED
    BY <2>1, <2>2
<1>6. WaitsForPredecessor'
  BY <1>1 DEF Order, WaitsForPredecessor
<1>7. PredecessorsEnded'
  BY <1>1 DEF Order, PredecessorsEnded, PastWait
<1>8. QED
  BY <1>3, <1>4, <1>5, <1>6, <1>7 DEF Order

(* Closing a done channel keeps the order of the sessions.                 *)
LEMMA CloseDoneOrder ==
  ASSUME TypeOK, Order, NEW s \in Sessions, CloseDone(s)
  PROVE  Order'
<1> USE DEF TypeOK, CloseDone, Goto
<1>1. \A t \in Sessions : /\ Swapped(t)' = Swapped(t)
                          /\ Waiting(t)' = Waiting(t)
                          /\ Ended(t)' = Ended(t)
  BY DEF Swapped, Waiting, Ended
<1>2. Ended(s)
  BY DEF Ended
<1>3. TicketsOrder'
  BY <1>1 DEF Order, TicketsOrder
<1>4. DoneMeansEnded'
  BY <1>1, <1>2 DEF Order, DoneMeansEnded
<1>5. CurIsNewest'
  BY <1>1 DEF Order, CurIsNewest
<1>6. WaitsForPredecessor'
  BY <1>1 DEF Order, WaitsForPredecessor
<1>7. PredecessorsEnded'
  BY <1>1 DEF Order, PredecessorsEnded, PastWait
<1>8. QED
  BY <1>3, <1>4, <1>5, <1>6, <1>7 DEF Order

(* Every action keeps the order of the sessions.                           *)
LEMMA NextOrder == ReceiverInv /\ [Next]_vars => Order'
<1> SUFFICES ASSUME ReceiverInv, [Next]_vars PROVE Order'
  OBVIOUS
<1>t. TypeOK /\ Order
  BY DEF ReceiverInv, Order
<1>u. TypeOK'
  BY NextTypeOK
<1>1. ASSUME NEW s \in Sessions, Swap(s) PROVE Order'
  BY <1>t, <1>u, <1>1, SwapOrder
<1>2. ASSUME NEW s \in Sessions, WaitOld(s) PROVE Order'
  BY <1>t, <1>2, WaitOrder
<1>3. ASSUME NEW s \in Sessions, Cleanup(s) PROVE Order'
  BY <1>t, <1>3, CleanupOrder
<1>4. ASSUME NEW s \in Sessions, CloseDone(s) PROVE Order'
  BY <1>t, <1>4, CloseDoneOrder
<1>5. ASSUME NEW s \in Sessions,
             \/ Accept(s) \/ CloseOld(s) \/ Recheck(s) \/ OnStreamStart(s)
             \/ RunCancelled(s) \/ RunEnded(s) \/ JoinForwarder(s)
             \/ OnStreamStop(s) \/ CloseConn(s)
      PROVE  Order'
  <2>1. UNCHANGED linkVars
    BY <1>5 DEF Accept, CloseOld, Recheck, OnStreamStart, RunCancelled,
                RunEnded, JoinForwarder, OnStreamStop, CloseConn
  <2>2. \A t \in Sessions : /\ Swapped(t)' = Swapped(t)
                            /\ Waiting(t)' = Waiting(t)
                            /\ Ended(t)' = Ended(t)
    BY <1>5, <1>t
       DEF Accept, CloseOld, Recheck, OnStreamStart, RunCancelled, RunEnded,
           JoinForwarder, OnStreamStop, CloseConn, Goto, Swapped, Waiting,
           Ended, TypeOK
  <2>3. QED
    BY <1>t, <2>1, <2>2, SamePhase
<1>6. ASSUME UNCHANGED <<pc, linkVars>> PROVE Order'
  <2>1. \A t \in Sessions : /\ Swapped(t)' = Swapped(t)
                            /\ Waiting(t)' = Waiting(t)
                            /\ Ended(t)' = Ended(t)
    BY <1>6 DEF Swapped, Waiting, Ended
  <2>2. QED
    BY <1>t, <1>6, <2>1, SamePhase
<1>7. ASSUME NEW s \in Sessions,
             \/ ReadFrame(s) \/ ReadFails(s) \/ TakeFrame(s) \/ OnFrame(s)
             \/ ForwarderEnds(s) \/ PeerCloses(s)
      PROVE  Order'
  BY <1>6, <1>7
     DEF ReadFrame, ReadFails, TakeFrame, OnFrame, ForwarderEnds, PeerCloses
<1>8. CASE Cancel \/ Terminated \/ UNCHANGED vars
  BY <1>6, <1>8 DEF Cancel, Terminated, vars, linkVars
<1>9. QED
  BY <1>1, <1>2, <1>3, <1>4, <1>5, <1>7, <1>8
     DEF Next, HandlerStep, ForwarderStep

-----------------------------------------------------------------------------
(* A forwarder that may still deliver keeps its handler in the bracket. *)
LEMMA NextForwarder == ReceiverInv /\ [Next]_vars => ForwarderInBracket'
<1> SUFFICES ASSUME ReceiverInv, [Next]_vars PROVE ForwarderInBracket'
  OBVIOUS
<1>t. TypeOK /\ ForwarderInBracket
  BY DEF ReceiverInv
<1> USE <1>t DEF TypeOK, ForwarderInBracket, Goto, ioVars, linkVars
<1>1. ASSUME NEW s \in Sessions,
             Accept(s) \/ Swap(s) \/ CloseOld(s) \/ WaitOld(s) \/ Recheck(s)
      PROVE  ForwarderInBracket'
  BY <1>1 DEF Accept, Swap, CloseOld, WaitOld, Recheck
<1>2. ASSUME NEW s \in Sessions, OnStreamStart(s) PROVE ForwarderInBracket'
  BY <1>2 DEF OnStreamStart
<1>3. ASSUME NEW s \in Sessions, RunCancelled(s) \/ RunEnded(s)
      PROVE  ForwarderInBracket'
  BY <1>3 DEF RunCancelled, RunEnded
<1>4. ASSUME NEW s \in Sessions, JoinForwarder(s) PROVE ForwarderInBracket'
  BY <1>4 DEF JoinForwarder, Joined
<1>5. ASSUME NEW s \in Sessions,
             OnStreamStop(s) \/ Cleanup(s) \/ CloseDone(s) \/ CloseConn(s)
      PROVE  ForwarderInBracket'
  BY <1>5 DEF OnStreamStop, Cleanup, CloseDone, CloseConn
<1>6. ASSUME NEW s \in Sessions,
             \/ ReadFrame(s) \/ ReadFails(s) \/ TakeFrame(s) \/ OnFrame(s)
             \/ ForwarderEnds(s) \/ PeerCloses(s)
      PROVE  ForwarderInBracket'
  BY <1>6
     DEF ReadFrame, ReadFails, TakeFrame, OnFrame, ForwarderEnds, PeerCloses
<1>7. CASE Cancel \/ Terminated \/ UNCHANGED vars
  BY <1>7 DEF Cancel, Terminated, vars
<1>8. QED
  BY <1>1, <1>2, <1>3, <1>4, <1>5, <1>6, <1>7
     DEF Next, HandlerStep, ForwarderStep

-----------------------------------------------------------------------------
(* ReceiverInv holds in every reachable state of the receiver.             *)
THEOREM ReceiverInvariant == Spec => []ReceiverInv
<1>1. ReceiverInv /\ [Next]_vars => ReceiverInv'
  BY NextTypeOK, NextOrder, NextForwarder DEF ReceiverInv, Order
<1>2. QED
  BY <1>1, InitReceiverInv, PTL DEF Spec

(* Type correctness: frameCh never holds more than QueueSize frames.       *)
THEOREM ReceiverTypes == Spec => []TypeOK
<1>1. ReceiverInv => TypeOK
  BY DEF ReceiverInv
<1>2. QED
  BY <1>1, ReceiverInvariant, PTL

(* For any number of connections the OnStreamStart ... OnStreamStop        *)
(* brackets of handle never overlap.                                       *)
THEOREM BracketsDisjoint == Spec => []OneBracket
<1>1. ReceiverInv => OneBracket
  <2> SUFFICES ASSUME ReceiverInv, NEW s \in Sessions, NEW t \in Sessions,
                      InBracket(s), InBracket(t), s # t
               PROVE  FALSE
    BY DEF OneBracket
  <2>1. PastWait(s) /\ PastWait(t) /\ ~Ended(s) /\ ~Ended(t)
    BY DEF InBracket, PastWait, Swapped, Waiting, Ended
  <2>2. ticket[s] # ticket[t] /\ ticket[s] \in Nat /\ ticket[t] \in Nat
    BY <2>1 DEF ReceiverInv, TypeOK, TicketsOrder, PastWait
  <2>3. ~(ticket[s] < ticket[t]) /\ ~(ticket[t] < ticket[s])
    BY <2>1 DEF ReceiverInv, PredecessorsEnded, PastWait
  <2>4. QED
    BY <2>2, <2>3
<1>2. QED
  BY <1>1, ReceiverInvariant, PTL

(* A stream is started only for the newest session: cur is checked again   *)
(* after the wait, and whoever is cur drew the last ticket.                *)
THEOREM BracketsInOrder == Spec => NewestWins
<1>1. ReceiverInv /\ [Next]_vars =>
        [\A s \in Sessions :
           pc[s] # "start" /\ pc'[s] = "start" => ticket'[s] = swaps']_vars
  <2> SUFFICES ASSUME ReceiverInv, Next, NEW s \in Sessions,
                      pc[s] # "start", pc'[s] = "start"
               PROVE  ticket'[s] = swaps'
    OBVIOUS
  <2>t. TypeOK /\ CurIsNewest /\ s # NoSession
    BY ReceiverAssumption DEF ReceiverInv
  <2>1. Swap(s) \/ Recheck(s)
    BY <2>t DEF Next, HandlerStep, ForwarderStep, Accept, Swap, CloseOld, WaitOld,
       Recheck, OnStreamStart, RunCancelled, RunEnded, JoinForwarder,
       OnStreamStop, Cleanup, CloseDone, CloseConn, ReadFrame, ReadFails,
       TakeFrame, OnFrame, ForwarderEnds, PeerCloses, Cancel, Terminated, vars,
       Goto, AfterSwap, TypeOK
  <2>2. CASE Swap(s)
    BY <2>2, <2>t DEF Swap, TypeOK
  <2>3. CASE Recheck(s)
    <3>1. cur = s
      BY <2>3, <2>t DEF Recheck, Superseded, Goto, TypeOK
    <3>2. QED
      BY <2>3, <2>t, <3>1 DEF Recheck, CurIsNewest, linkVars
  <2>4. QED
    BY <2>1, <2>2, <2>3
<1>2. QED
  BY <1>1, ReceiverInvariant, PTL DEF Spec, NewestWins

(* No frame is delivered outside its own session's bracket before the      *)
(* context ends.                                                           *)
THEOREM FramesStayInBracket == Spec => []FramesInBracket
<1>1. ReceiverInv => FramesInBracket
  BY DEF ReceiverInv, ForwarderInBracket, FramesInBracket, InBracket
<1>2. QED
  BY <1>1, ReceiverInvariant, PTL
=============================================================================
