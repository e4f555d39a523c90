------------------------ MODULE LightProviderProofs ------------------------
(***************************************************************************)
(* Proofs about the light provider and its shutdown fence, for any lights, *)
(* any number of drain goroutines and any number of writes.  ProviderInv   *)
(* is inductive: since at most one drain exists, the states of a light     *)
(* stand in line (shown, on its way, taken, queued), and once the writes   *)
(* are closed nothing but the turn-off and the write then under way        *)
(* touches the Pro's lights.                                               *)
(***************************************************************************)
EXTENDS LightProvider, TLAPS

(* The numbers of the writes are natural numbers.                          *)
LEMMA NumbersAreNat == Numbers \subseteq Nat /\ 0 \in Numbers
BY LightsAssumption DEF Numbers

(* Nothing is queued, driven or fenced at the start. *)
LEMMA InitProviderInv == Init => ProviderInv
<1> SUFFICES ASSUME Init PROVE ProviderInv
  OBVIOUS
<1> USE NumbersAreNat DEF Init, Empty
<1>1. TypeOK
  BY LightsAssumption DEF TypeOK, DrainSteps, ShutSteps
<1>2. OneDrain /\ IdleHoldsNothing
  BY LightsAssumption DEF OneDrain, IdleHoldsNothing
<1>3. WritesOrdered
  BY DEF WritesOrdered, InFlight
<1>4. FenceState /\ FenceIsFinal /\ DrivenAccounted
  BY DEF FenceState, FenceIsFinal, DrivenAccounted
<1>5. QED
  BY <1>1, <1>2, <1>3, <1>4 DEF ProviderInv

(* Every step keeps the types; a forward in progress carries a state. *)
LEMMA NextTypeOK == TypeOK /\ [Next]_vars => TypeOK'
<1> SUFFICES ASSUME TypeOK, [Next]_vars PROVE TypeOK'
  OBVIOUS
<1> USE NumbersAreNat, LightsAssumption
    DEF TypeOK, DrainSteps, ShutSteps, Goto, Settle, queueVars, proVars,
        setVars, shutVars, inputVars
<1>1. ASSUME NEW Z \in SUBSET Lights, SetRequestedMembers(Z) PROVE TypeOK'
  BY <1>1 DEF SetRequestedMembers
<1>2. ASSUME NEW l \in Lights, AdmitWrite(l) PROVE TypeOK'
  BY <1>2 DEF AdmitWrite
<1>3. ASSUME NEW l \in Lights, NEW noop \in BOOLEAN, NEW d \in Drains,
             SetLightV1(l, noop, d)
      PROVE  TypeOK'
  <2>1. Accepts => writes + 1 \in Numbers
    BY <1>3 DEF SetLightV1, Numbers
  <2>2. CASE Accepts
    <3>1. /\ drained' \in Drains /\ drain' \in [Drains -> DrainSteps]
          /\ \A e \in Drains : drain'[e] = drain[e] \/ drain'[e] = "top"
      BY <1>3, <2>2 DEF SetLightV1
    <3>n. /\ noops' = noops \/ noops' = noops \cup {writes + 1}
          /\ pending' = [pending EXCEPT ![l] = writes + 1]
          /\ accepted' = [accepted EXCEPT ![l] = writes + 1]
          /\ writes' = writes + 1 /\ admitted' = admitted \ {l}
      BY <1>3, <2>2 DEF SetLightV1
    <3>2. /\ pending' \in [Lights -> Numbers] /\ accepted' \in [Lights -> Numbers]
          /\ writes' \in Numbers /\ noops' \in SUBSET Numbers
          /\ admitted' \in SUBSET Lights
      BY <2>1, <2>2, <3>n
    <3>3. UNCHANGED <<batch, cur, closed, loaded, proVars, setVars, shutVars,
                      zone, settled>>
      BY <1>3 DEF SetLightV1
    <3>4. \A e \in Drains :
            drain'[e] \in {"fetch", "check", "write", "mark"} => cur'[e].state # 0
      BY <3>1, <3>3
    <3>5. QED
      BY <3>1, <3>2, <3>3, <3>4
  <2>3. CASE ~Accepts
    BY <1>3, <2>3 DEF SetLightV1
  <2>4. QED
    BY <2>2, <2>3
<1>c. \A d \in Drains : cur[d].light \in Lights /\ cur[d].state \in Numbers
  OBVIOUS
<1>4. ASSUME NEW d \in Drains, DrainExit(d) \/ TakeBatch(d) \/ BatchDone(d)
      PROVE  TypeOK'
  <2>1. CASE DrainExit(d)
    BY <2>1 DEF DrainExit
  <2>2. CASE TakeBatch(d)
    BY <2>2 DEF TakeBatch, StillDraining, Empty
  <2>3. CASE BatchDone(d)
    BY <2>3 DEF BatchDone
  <2>4. QED
    BY <1>4, <2>1, <2>2, <2>3
<1>5. ASSUME NEW d \in Drains, NEW l \in Lights, Forward(d, l) PROVE TypeOK'
  <2>1. batch[d][l] \in Numbers \ {0}
    BY <1>5 DEF Forward, InBatch
  <2>2. /\ cur' \in [Drains -> [light : Lights, state : Numbers]]
        /\ cur'[d].state # 0 /\ \A e \in Drains : e # d => cur'[e] = cur[e]
        /\ batch' \in [Drains -> [Lights -> Numbers]]
    BY <1>5, <2>1 DEF Forward
  <2>3. /\ drain' \in [Drains -> DrainSteps] /\ settled' \in [Lights -> Numbers]
        /\ \A e \in Drains : e # d => drain'[e] = drain[e]
    BY <1>5, <2>1 DEF Forward
  <2>4. \A e \in Drains :
          drain'[e] \in {"fetch", "check", "write", "mark"} => cur'[e].state # 0
    BY <2>2, <2>3
  <2>5. QED
    BY <1>5, <2>2, <2>3, <2>4 DEF Forward
<1>6. ASSUME NEW d \in Drains, NEW ok \in BOOLEAN, FetchLights(d, ok)
      PROVE  TypeOK'
  BY <1>6 DEF FetchLights
<1>7. ASSUME NEW d \in Drains, StartWrite(d) \/ WriteLands(d) \/ MarkControlled(d)
      PROVE  TypeOK'
  <2>1. CASE StartWrite(d)
    BY <1>c, <2>1 DEF StartWrite
  <2>2. CASE WriteLands(d)
    BY <1>c, <2>2 DEF WriteLands, Applies
  <2>3. CASE MarkControlled(d)
    BY <1>c, <2>3 DEF MarkControlled, Marked
  <2>4. QED
    BY <1>7, <2>1, <2>2, <2>3
<1>8. ASSUME NEW d \in Drains, NEW applied \in BOOLEAN, WriteFails(d, applied)
      PROVE  TypeOK'
  <2>1. CASE applied
    <3>1. /\ pro' \in [Lights -> Numbers] /\ shown' \in [Lights -> Numbers]
      BY <1>c, <1>8, <2>1 DEF WriteFails, Applies
    <3>2. settled' \in [Lights -> Numbers] /\ lost' \in SUBSET Lights
      BY <1>c, <1>8, <2>1 DEF WriteFails
    <3>3. QED
      BY <1>8, <3>1, <3>2 DEF WriteFails
  <2>2. CASE ~applied
    BY <1>c, <1>8, <2>2 DEF WriteFails
  <2>3. QED
    BY <2>1, <2>2
<1>9. ASSUME NEW l \in Lights, AgesOut(l) PROVE TypeOK'
  BY <1>9 DEF AgesOut
<1>10. CASE ReadControlled
  BY <1>10 DEF ReadControlled, Current
<1>11. CASE CloseLightWrites
  BY <1>11 DEF CloseLightWrites, Empty
<1>12. CASE FenceHeld \/ FenceTimeout
  BY <1>12 DEF FenceHeld, FenceTimeout, BeginTurnOff, Current
<1>13. CASE ShutdownEnds
  BY <1>13 DEF ShutdownEnds
<1>14. ASSUME NEW l \in Lights, TurnOff(l) \/ TurnOffFails(l) PROVE TypeOK'
  <2>1. CASE TurnOff(l)
    BY <2>1 DEF TurnOff
  <2>2. CASE TurnOffFails(l)
    BY <2>2 DEF TurnOffFails
  <2>3. QED
    BY <1>14, <2>1, <2>2
<1>15. CASE UNCHANGED vars
  BY <1>15 DEF vars
<1>16. QED
  BY <1>1, <1>2, <1>3, <1>4, <1>5, <1>6, <1>7, <1>8, <1>9, <1>10, <1>11,
     <1>12, <1>13, <1>14, <1>15 DEF Next, DrainStep, ShutdownStep

(* One drain goroutine, whose channel the provider holds.                  *)
LEMMA NextOneDrain == TypeOK /\ OneDrain /\ [Next]_vars => OneDrain'
<1> SUFFICES ASSUME TypeOK, OneDrain, [Next]_vars PROVE OneDrain'
  OBVIOUS
<1> USE LightsAssumption DEF OneDrain, Goto, queueVars
<1>t. drain \in [Drains -> DrainSteps]
  BY DEF TypeOK
<1>1. ASSUME NEW l \in Lights, NEW noop \in BOOLEAN, NEW d \in Drains,
             SetLightV1(l, noop, d)
      PROVE  OneDrain'
  <2>1. CASE Accepts /\ drained = NoDrain
    <3>1. drained' = d /\ drain' = [drain EXCEPT ![d] = "top"]
      BY <1>1, <2>1 DEF SetLightV1
    <3>2. QED
      BY <1>t, <2>1, <3>1
  <2>2. CASE ~(Accepts /\ drained = NoDrain)
    <3>1. UNCHANGED <<drained, drain>>
      BY <1>1, <2>2 DEF SetLightV1
    <3>2. QED
      BY <3>1
  <2>3. QED
    BY <2>1, <2>2
<1>2. ASSUME NEW d \in Drains, DrainExit(d) PROVE OneDrain'
  BY <1>t, <1>2 DEF DrainExit
<1>3. ASSUME NEW d \in Drains, drain[d] # "off", NEW step \in DrainSteps,
             step # "off", Goto(d, step), UNCHANGED drained
      PROVE  OneDrain'
  BY <1>t, <1>3
<1>4. ASSUME NEW d \in Drains, DrainStep(d), ~DrainExit(d) PROVE OneDrain'
  <2>1. /\ drain[d] # "off" /\ UNCHANGED drained
        /\ \E step \in DrainSteps : step # "off" /\ Goto(d, step)
    BY <1>4 DEF DrainStep, TakeBatch, BatchDone, Forward, FetchLights, StartWrite,
       WriteLands, WriteFails, MarkControlled, StillDraining, DrainSteps
  <2>2. QED
    BY <1>3, <2>1
<1>5. CASE UNCHANGED <<drained, drain>>
  BY <1>5
<1>6. QED
  BY <1>1, <1>2, <1>4, <1>5
  DEF Next, ShutdownStep, SetRequestedMembers, AdmitWrite, AgesOut,
      ReadControlled, CloseLightWrites, FenceHeld, FenceTimeout, ShutdownEnds,
      TurnOff, TurnOffFails, vars

(* A drain at the head of its loop, or gone, holds no taken state.         *)
LEMMA NextIdle == TypeOK /\ IdleHoldsNothing /\ [Next]_vars => IdleHoldsNothing'
<1> SUFFICES ASSUME TypeOK, IdleHoldsNothing, [Next]_vars PROVE IdleHoldsNothing'
  OBVIOUS
<1> USE DEF IdleHoldsNothing, Goto, queueVars
<1>t. drain \in [Drains -> DrainSteps] /\ batch \in [Drains -> [Lights -> Numbers]]
  BY DEF TypeOK
<1>1. ASSUME NEW l \in Lights, NEW noop \in BOOLEAN, NEW d \in Drains,
             SetLightV1(l, noop, d)
      PROVE  IdleHoldsNothing'
  <2>1. /\ UNCHANGED batch
        /\ \/ UNCHANGED drain
           \/ drain[d] = "off" /\ drain' = [drain EXCEPT ![d] = "top"]
    BY <1>1 DEF SetLightV1
  <2>2. QED
    BY <1>t, <2>1
<1>2. ASSUME NEW d \in Drains, DrainExit(d) \/ BatchDone(d)
      PROVE  IdleHoldsNothing'
  BY <1>t, <1>2 DEF DrainExit, BatchDone
<1>3. ASSUME NEW d \in Drains, DrainStep(d), ~DrainExit(d), ~BatchDone(d)
      PROVE  IdleHoldsNothing'
  <2>1. \E step \in DrainSteps \ {"off", "top"} : Goto(d, step)
    BY <1>3 DEF DrainStep, TakeBatch, Forward, FetchLights, StartWrite,
       WriteLands, WriteFails, MarkControlled, DrainSteps
  <2>2. \A e \in Drains : e # d => batch'[e] = batch[e]
    BY <1>t, <1>3 DEF DrainStep, TakeBatch, Forward, FetchLights, StartWrite,
       WriteLands, WriteFails, MarkControlled
  <2>3. QED
    BY <1>t, <2>1, <2>2
<1>4. CASE UNCHANGED <<drain, batch>>
  BY <1>4
<1>5. QED
  BY <1>1, <1>2, <1>3, <1>4
  DEF Next, ShutdownStep, SetRequestedMembers, AdmitWrite, AgesOut,
      ReadControlled, CloseLightWrites, FenceHeld, FenceTimeout, ShutdownEnds,
      TurnOff, TurnOffFails, vars

(* Nothing moves between the queue, the batches and the Pro.               *)
QuietStep ==
  /\ UNCHANGED <<pending, batch, cur, shown, writes>>
  /\ \A d \in Drains : InFlight(d)' => InFlight(d)

(* The steps that move a state, and the others.                            *)
LEMMA OrderSteps ==
  ASSUME TypeOK, [Next]_vars
  PROVE  \/ \E l \in Lights, noop \in BOOLEAN, d \in Drains : SetLightV1(l, noop, d)
         \/ \E d \in Drains : TakeBatch(d) \/ WriteLands(d) \/ WriteFails(d, TRUE)
         \/ \E d \in Drains, l \in Lights : Forward(d, l)
         \/ CloseLightWrites
         \/ QuietStep
<1> USE DEF QuietStep, InFlight, queueVars, proVars, inputVars, Goto
<1>t. drain \in [Drains -> DrainSteps]
  BY DEF TypeOK
<1>1. ASSUME NEW d \in Drains, DrainExit(d) \/ BatchDone(d) \/ MarkControlled(d)
      PROVE  QuietStep
  BY <1>t, <1>1 DEF DrainExit, BatchDone, MarkControlled
<1>2. ASSUME NEW d \in Drains, StartWrite(d) PROVE QuietStep
  BY <1>t, <1>2 DEF StartWrite
<1>3. ASSUME NEW d \in Drains, NEW ok \in BOOLEAN, FetchLights(d, ok)
      PROVE  QuietStep
  BY <1>t, <1>3 DEF FetchLights
<1>4. ASSUME NEW d \in Drains, WriteFails(d, FALSE) PROVE QuietStep
  BY <1>t, <1>4 DEF WriteFails
<1>5. ASSUME NEW Z \in SUBSET Lights, SetRequestedMembers(Z) PROVE QuietStep
  BY <1>5 DEF SetRequestedMembers
<1>6. ASSUME NEW l \in Lights,
             AdmitWrite(l) \/ AgesOut(l) \/ TurnOff(l) \/ TurnOffFails(l)
      PROVE  QuietStep
  BY <1>6 DEF AdmitWrite, AgesOut, TurnOff, TurnOffFails
<1>7. CASE ReadControlled \/ FenceHeld \/ FenceTimeout \/ ShutdownEnds
  BY <1>7 DEF ReadControlled, FenceHeld, FenceTimeout, ShutdownEnds
<1>8. CASE UNCHANGED vars
  BY <1>8 DEF vars
<1>9. \A d \in Drains, applied \in BOOLEAN :
        WriteFails(d, applied) => WriteFails(d, TRUE) \/ WriteFails(d, FALSE)
  OBVIOUS
<1>10. QED
  BY <1>1, <1>2, <1>3, <1>4, <1>5, <1>6, <1>7, <1>8, <1>9
  DEF Next, DrainStep, ShutdownStep

(* The states of each light stay in line, and what the Pro shows never     *)
(* goes back.                                                              *)
LEMMA NextOrdered ==
  ASSUME TypeOK, OneDrain, IdleHoldsNothing, WritesOrdered, [Next]_vars
  PROVE  WritesOrdered' /\ \A l \in Lights : shown'[l] >= shown[l]
<1> DEFINE Goal == WritesOrdered' /\ \A l \in Lights : shown'[l] >= shown[l]
<1>t. /\ pending \in [Lights -> Nat] /\ shown \in [Lights -> Nat]
      /\ batch \in [Drains -> [Lights -> Nat]] /\ drain \in [Drains -> DrainSteps]
      /\ cur \in [Drains -> [light : Lights, state : Nat]]
      /\ writes \in Nat
  <2>1. pending \in [Lights -> Nat] /\ shown \in [Lights -> Nat] /\ writes \in Nat
    BY NumbersAreNat DEF TypeOK
  <2>2. batch \in [Drains -> [Lights -> Nat]] /\ drain \in [Drains -> DrainSteps]
    <3>1. [Lights -> Numbers] \subseteq [Lights -> Nat]
      BY NumbersAreNat
    <3>2. QED
      BY <3>1 DEF TypeOK
  <2>3. cur \in [Drains -> [light : Lights, state : Nat]]
    <3>1. [light : Lights, state : Numbers] \subseteq [light : Lights, state : Nat]
      BY NumbersAreNat
    <3>2. QED
      BY <3>1 DEF TypeOK
  <2>4. QED
    BY <2>1, <2>2, <2>3
(* Beside the drain that moves there is none that holds anything.          *)
<1>u. ASSUME NEW d \in Drains, drain[d] # "off", NEW e \in Drains, e # d
      PROVE  drain[e] = "off" /\ batch[e] = Empty /\ ~InFlight(e)
  BY <1>u DEF OneDrain, IdleHoldsNothing, InFlight
<1>1. CASE QuietStep
  BY <1>1, <1>t DEF QuietStep, WritesOrdered
<1>2. CASE CloseLightWrites
  BY <1>2, <1>t DEF CloseLightWrites, WritesOrdered, InFlight, Empty, proVars, inputVars
<1>3. ASSUME NEW l \in Lights, NEW noop \in BOOLEAN, NEW d \in Drains,
             SetLightV1(l, noop, d)
      PROVE  Goal
  <2>1. /\ UNCHANGED <<batch, cur, shown>>
        /\ \A e \in Drains : InFlight(e)' => InFlight(e)
    BY <1>3, <1>t DEF SetLightV1, proVars, InFlight
  <2>2. \/ UNCHANGED <<pending, writes>>
        \/ /\ pending' = [pending EXCEPT ![l] = writes + 1]
           /\ writes' = writes + 1
    BY <1>3 DEF SetLightV1
  <2>3. CASE UNCHANGED <<pending, writes>>
    BY <1>t, <2>1, <2>3 DEF WritesOrdered
  <2>4. CASE /\ pending' = [pending EXCEPT ![l] = writes + 1]
             /\ writes' = writes + 1
    <3>1. /\ pending'[l] = writes + 1
          /\ \A k \in Lights : k # l => pending'[k] = pending[k]
      BY <1>t, <2>4
    <3>2. QED
      BY <1>t, <2>1, <2>4, <3>1 DEF WritesOrdered
  <2>5. QED
    BY <2>2, <2>3, <2>4
<1>4. ASSUME NEW d \in Drains, TakeBatch(d) PROVE Goal
  <2>1. /\ UNCHANGED <<cur, shown, writes>> /\ pending' = Empty
        /\ batch' = [batch EXCEPT ![d] = pending]
        /\ drain[d] = "top" /\ drain' = [drain EXCEPT ![d] = "next"]
    BY <1>4 DEF TakeBatch, Goto, proVars, inputVars
  <2>2. \A e \in Drains : ~InFlight(e)'
    BY <1>t, <1>u, <2>1 DEF InFlight
  <2>3. QED
    BY <1>t, <2>1, <2>2 DEF WritesOrdered, Empty
<1>5. ASSUME NEW d \in Drains, NEW l \in Lights, Forward(d, l) PROVE Goal
  <2>1. /\ UNCHANGED <<pending, shown, writes>> /\ drain[d] = "next"
        /\ batch[d][l] # 0
        /\ batch' = [batch EXCEPT ![d][l] = 0]
        /\ cur' = [cur EXCEPT ![d] = [light |-> l, state |-> batch[d][l]]]
        /\ \A e \in Drains : e # d => drain'[e] = drain[e]
    BY <1>5, <1>t DEF Forward, InBatch, Goto, proVars, inputVars
  <2>2. \A e \in Drains : InFlight(e)' => e = d
    BY <1>u, <2>1 DEF InFlight
  <2>3. /\ cur'[d].light = l /\ cur'[d].state = batch[d][l] /\ batch'[d][l] = 0
        /\ \A e \in Drains, k \in Lights :
             batch'[e][k] = batch[e][k] \/ (batch'[e][k] = 0)
    BY <1>t, <2>1
  <2>4. QED
    BY <1>t, <2>1, <2>2, <2>3 DEF WritesOrdered
<1>6. ASSUME NEW d \in Drains, WriteLands(d) \/ WriteFails(d, TRUE) PROVE Goal
  <2>1. /\ UNCHANGED <<pending, batch, cur, writes>> /\ drain[d] = "write"
        /\ shown' = [shown EXCEPT ![cur[d].light] = cur[d].state]
        /\ drain' \in {[drain EXCEPT ![d] = "mark"], [drain EXCEPT ![d] = "next"]}
    BY <1>6 DEF WriteLands, WriteFails, Applies, Goto, inputVars
  <2>2. \A e \in Drains : ~InFlight(e)'
    BY <1>t, <1>u, <2>1 DEF InFlight
  <2>3. /\ cur[d].light \in Lights /\ cur[d].state \in Nat
        /\ InFlight(d)
    BY <1>t, <2>1 DEF InFlight
  <2>4. \A e \in Drains : batch[e][cur[d].light] = 0
    <3>1. batch[d][cur[d].light] = 0
      BY <2>3 DEF WritesOrdered
    <3>2. QED
      BY <1>u, <2>1, <2>3, <3>1 DEF Empty
  <2>5. QED
    BY <1>t, <2>1, <2>2, <2>3, <2>4 DEF WritesOrdered
<1>7. QED
  BY <1>1, <1>2, <1>3, <1>4, <1>5, <1>6, OrderSteps

(* Once Close has run no drain starts, so the one it waits for is the last. *)
LEMMA NextFence ==
  ASSUME TypeOK, OneDrain, FenceState, FenceIsFinal, [Next]_vars
  PROVE  FenceState' /\ FenceIsFinal'
<1> DEFINE Goal == FenceState' /\ FenceIsFinal'
<1> USE DEF FenceState, FenceIsFinal, Goto, queueVars, shutVars
<1>t. drain \in [Drains -> DrainSteps] /\ closed \in BOOLEAN /\ fenced \in BOOLEAN
  BY DEF TypeOK
<1>1. CASE UNCHANGED <<shut, closed, waitFor, fenced, drain>>
  BY <1>1
<1>2. ASSUME NEW l \in Lights, NEW noop \in BOOLEAN, NEW d \in Drains,
             SetLightV1(l, noop, d)
      PROVE  Goal
  <2>1. UNCHANGED <<shut, closed, waitFor, fenced>> /\ (closed => UNCHANGED drain)
    BY <1>2 DEF SetLightV1, Accepts
  <2>2. QED
    BY <1>t, <2>1
<1>3. ASSUME NEW d \in Drains, DrainStep(d) PROVE Goal
  <2>1. /\ UNCHANGED <<shut, closed, waitFor, fenced>> /\ drain[d] # "off"
        /\ \E step \in DrainSteps : Goto(d, step)
    BY <1>3 DEF DrainStep, DrainExit, TakeBatch, BatchDone, Forward, FetchLights,
       StartWrite, WriteLands, WriteFails, MarkControlled, DrainSteps
  <2>2. QED
    BY <1>t, <2>1
<1>4. CASE CloseLightWrites
  BY <1>t, <1>4 DEF CloseLightWrites, OneDrain
<1>5. CASE FenceHeld
  <2>1. \A d \in Drains : drain[d] = "off"
    BY <1>5 DEF FenceHeld, WriteDone
  <2>2. QED
    BY <1>t, <1>5, <2>1 DEF FenceHeld, BeginTurnOff
<1>6. CASE FenceTimeout
  BY <1>t, <1>6 DEF FenceTimeout, BeginTurnOff
<1>7. CASE ShutdownEnds
  BY <1>t, <1>7 DEF ShutdownEnds
<1>8. QED
  BY <1>1, <1>2, <1>3, <1>4, <1>5, <1>6, <1>7
  DEF Next, ShutdownStep, SetRequestedMembers, AdmitWrite, AgesOut,
      ReadControlled, TurnOff, TurnOffFails, vars

(* No light is on that nobody accounts for.                                *)
LEMMA NextDriven ==
  ASSUME TypeOK, OneDrain, FenceState, FenceIsFinal, DrivenAccounted, [Next]_vars
  PROVE  DrivenAccounted'
<1> USE DEF DrivenAccounted, Goto, queueVars, proVars, setVars, shutVars
<1>t. /\ drain \in [Drains -> DrainSteps] /\ pro \in [Lights -> Numbers]
      /\ cur \in [Drains -> [light : Lights, state : Numbers]]
      /\ fenced \in BOOLEAN /\ closed \in BOOLEAN /\ targets \in SUBSET Lights
  BY DEF TypeOK
<1>f. shut \in {"turnoff", "done"} => closed
  BY DEF FenceState
<1>1. CASE UNCHANGED <<pro, lost, missed, controlled, drain, cur, fenced, targets, shut,
                       closed, underway>>
  BY <1>1
<1>2. ASSUME NEW l \in Lights, NEW noop \in BOOLEAN, NEW d \in Drains,
             SetLightV1(l, noop, d)
      PROVE  DrivenAccounted'
  <2>1. /\ UNCHANGED <<pro, lost, missed, controlled, cur, fenced, targets, shut,
                       closed, underway>>
        /\ \A e \in Drains : /\ drain[e] = "mark" => drain'[e] = "mark"
                             /\ drain'[e] = drain[e] \/ drain'[e] = "top"
    BY <1>t, <1>2 DEF SetLightV1
  <2>2. QED
    BY <2>1
(* The drain's steps other than the write and the mark; none leads to a    *)
(* write once the provider is closed.                                      *)
<1>3. ASSUME NEW d \in Drains, drain[d] # "mark", NEW step \in DrainSteps \ {"mark"},
             Goto(d, step), closed => step # "write",
             UNCHANGED <<proVars, setVars, shutVars, closed>>,
             \A e \in Drains : e # d => cur'[e] = cur[e]
      PROVE  DrivenAccounted'
  BY <1>t, <1>3
<1>4. ASSUME NEW d \in Drains,
             DrainExit(d) \/ TakeBatch(d) \/ BatchDone(d) \/ StartWrite(d)
      PROVE  DrivenAccounted'
  <2>1. CASE DrainExit(d) \/ BatchDone(d)
    BY <1>3, <2>1 DEF DrainExit, BatchDone, DrainSteps
  <2>2. CASE TakeBatch(d)
    BY <1>3, <2>2 DEF TakeBatch, StillDraining, DrainSteps
  <2>3. CASE StartWrite(d)
    BY <1>3, <2>3 DEF StartWrite, ClosedMeanwhile, DrainSteps
  <2>4. QED
    BY <1>4, <2>1, <2>2, <2>3
<1>5. ASSUME NEW d \in Drains, NEW l \in Lights, Forward(d, l) PROVE DrivenAccounted'
  <2>1. \A e \in Drains : e # d => cur'[e] = cur[e]
    BY <1>t, <1>5 DEF Forward
  <2>2. /\ drain[d] = "next" /\ UNCHANGED <<proVars, setVars, shutVars, closed>>
        /\ Goto(d, "next") \/ Goto(d, "check") \/ Goto(d, "fetch")
    BY <1>5 DEF Forward
  <2>3. {"next", "check", "fetch"} \subseteq DrainSteps \ {"mark", "write"}
    BY DEF DrainSteps
  <2>4. PICK step \in {"next", "check", "fetch"} : Goto(d, step)
    BY <2>2
  <2>5. QED
    BY <1>3, <2>1, <2>2, <2>3, <2>4
<1>6. ASSUME NEW d \in Drains, NEW ok \in BOOLEAN, FetchLights(d, ok)
      PROVE  DrivenAccounted'
  BY <1>3, <1>6 DEF FetchLights, DrainSteps
<1>7. ASSUME NEW d \in Drains, WriteLands(d) PROVE DrivenAccounted'
  <2>1. ~fenced /\ (closed => cur[d].light \in underway)
    BY <1>7 DEF WriteLands, FenceIsFinal
  <2>2. /\ UNCHANGED <<lost, missed, controlled, cur, closed, shutVars>>
        /\ drain' = [drain EXCEPT ![d] = "mark"]
        /\ pro' = [pro EXCEPT ![cur[d].light] = cur[d].state]
    BY <1>7 DEF WriteLands, Applies
  <2>3. \A e \in Drains : drain[e] = "mark" => drain'[e] = "mark"
    BY <1>t, <2>2
  <2>4. drain'[d] = "mark" /\ \A l \in Lights : l # cur[d].light => pro'[l] = pro[l]
    BY <1>t, <2>2
  <2>5. \A e \in Drains : drain'[e] = drain[e] \/ e = d
    BY <1>t, <2>2
  <2>6. QED
    BY <1>f, <2>1, <2>2, <2>3, <2>4, <2>5
<1>8. ASSUME NEW d \in Drains, NEW applied \in BOOLEAN, WriteFails(d, applied)
      PROVE  DrivenAccounted'
  <2>1. CASE applied
    <3>1. ~fenced
      BY <1>8 DEF WriteFails, FenceIsFinal
    <3>2. /\ UNCHANGED <<missed, controlled, cur, closed, shutVars>>
          /\ drain[d] = "write" /\ drain' = [drain EXCEPT ![d] = "next"]
          /\ pro' = [pro EXCEPT ![cur[d].light] = cur[d].state]
          /\ lost' = lost \cup {cur[d].light}
      BY <1>8, <2>1 DEF WriteFails, Applies
    <3>3. \A e \in Drains : drain[e] = "mark" => drain'[e] = "mark"
      BY <1>t, <3>2
    <3>4. \A l \in Lights : l # cur[d].light => pro'[l] = pro[l]
      BY <1>t, <3>2
    <3>5. \A e \in Drains : drain'[e] = drain[e] \/ drain'[e] = "next"
      BY <1>t, <3>2
    <3>6. QED
      BY <3>1, <3>2, <3>3, <3>4, <3>5
  <2>2. CASE ~applied
    BY <1>3, <1>8, <2>2 DEF WriteFails, DrainSteps
  <2>3. QED
    BY <2>1, <2>2
<1>9. ASSUME NEW d \in Drains, MarkControlled(d) PROVE DrivenAccounted'
  <2>1. ~fenced /\ (closed => cur[d].light \in underway)
    BY <1>9 DEF MarkControlled, FenceIsFinal
  <2>2. /\ UNCHANGED <<pro, lost, cur, closed, shutVars>>
        /\ controlled' = controlled \cup {cur[d].light}
        /\ missed' = missed \ {cur[d].light}
        /\ drain' = [drain EXCEPT ![d] = "next"]
    BY <1>9 DEF MarkControlled, Marked
  <2>3. \A e \in Drains : drain[e] = "mark" => drain'[e] = "mark" \/ e = d
    BY <1>t, <2>2
  <2>4. \A e \in Drains : drain'[e] = drain[e] \/ drain'[e] = "next"
    BY <1>t, <2>2
  <2>5. QED
    BY <1>f, <2>1, <2>2, <2>3, <2>4
<1>10. ASSUME NEW l \in Lights, AgesOut(l) PROVE DrivenAccounted'
  BY <1>10 DEF AgesOut
<1>11. CASE CloseLightWrites
  BY <1>11 DEF CloseLightWrites
<1>12. CASE FenceHeld
  <2>1. \A d \in Drains : drain[d] = "off"
    BY <1>12 DEF FenceHeld, WriteDone, FenceState
  <2>2. controlled \subseteq Current
    BY DEF Current
  <2>3. QED
    BY <1>12, <2>1, <2>2 DEF FenceHeld, BeginTurnOff
<1>13. CASE FenceTimeout
  <2>1. ~fenced /\ closed
    BY <1>13 DEF FenceTimeout, FenceState
  <2>2. controlled \subseteq Current
    BY DEF Current
  <2>3. QED
    BY <1>13, <2>1, <2>2 DEF FenceTimeout, BeginTurnOff
<1>14. CASE ShutdownEnds
  BY <1>14 DEF ShutdownEnds
<1>15. ASSUME NEW l \in Lights, TurnOff(l) PROVE DrivenAccounted'
  <2>1. pro'[l] = 0 /\ \A k \in Lights : k # l => pro'[k] = pro[k]
    BY <1>t, <1>15 DEF TurnOff
  <2>2. QED
    BY <1>15, <2>1 DEF TurnOff
<1>16. ASSUME NEW l \in Lights, TurnOffFails(l) PROVE DrivenAccounted'
  BY <1>16 DEF TurnOffFails
<1>17. QED
  BY <1>1, <1>2, <1>4, <1>5, <1>6, <1>7, <1>8, <1>9, <1>10, <1>11, <1>12, <1>13,
     <1>14, <1>15, <1>16
  DEF Next, DrainStep, ShutdownStep, SetRequestedMembers, AdmitWrite,
      ReadControlled, vars

-----------------------------------------------------------------------------
(* ProviderInv holds in every reachable state of the provider.             *)
THEOREM ProviderInvariant == Spec => []ProviderInv
<1>1. ProviderInv /\ [Next]_vars => ProviderInv'
  BY NextTypeOK, NextOneDrain, NextIdle, NextOrdered, NextFence, NextDriven
  DEF ProviderInv
<1>2. QED
  BY <1>1, InitProviderInv, PTL DEF Spec

(* Type correctness; a forward in progress carries a state.                *)
THEOREM ProviderTypes == Spec => []TypeOK
<1>1. ProviderInv => TypeOK
  BY DEF ProviderInv
<1>2. QED
  BY <1>1, ProviderInvariant, PTL

(* SetLightV1 and drain never run two drains, for any number of writes.    *)
THEOREM SingleDrain == Spec => []OneDrain
<1>1. ProviderInv => OneDrain
  BY DEF ProviderInv
<1>2. QED
  BY <1>1, ProviderInvariant, PTL

(* The writes of a light reach the Pro in the order the TV sent them.      *)
THEOREM WritesInOrder == Spec => NoStaleOverwrite
<1>1. ProviderInv /\ [Next]_vars => [\A l \in Lights : shown'[l] >= shown[l]]_vars
  BY NextOrdered DEF ProviderInv
<1>2. QED
  BY <1>1, ProviderInvariant, PTL DEF Spec, NoStaleOverwrite

(* After Close reported that no write can land, none can.                  *)
THEOREM FenceHolds == Spec => []FenceIsFinal
<1>1. ProviderInv => FenceIsFinal
  BY DEF ProviderInv
<1>2. QED
  BY <1>1, ProviderInvariant, PTL

(* After a shutdown the lights the TV drove are off, but for the           *)
(* exceptions DrivenLightsEndOff names; a fence that timed out adds only   *)
(* the write under way when the writes were closed.                        *)
THEOREM LightsEndOff == Spec => []DrivenLightsEndOff
<1>1. ProviderInv => DrivenLightsEndOff
  BY DEF ProviderInv, DrivenAccounted, DrivenLightsEndOff
<1>2. QED
  BY <1>1, ProviderInvariant, PTL
=============================================================================
