-------------------------- MODULE WordLifecycleProofs --------------------------
(***************************************************************************)
(* Proofs about WordLifecycle, for every set of requests and canvas ids    *)
(* and any number of caches.                                               *)
(*                                                                         *)
(* IInv strengthens the safety properties until every step keeps them:     *)
(* the counter is the number of tool calls running; caches are retired in  *)
(* the order they are built, so whatever is neither in the slot nor        *)
(* retiring is gone; a panel's name is new when it enters the map; and a   *)
(* request that holds the slot's cache makes somebody own it even before   *)
(* Word has started.                                                       *)
(***************************************************************************)
EXTENDS WordLifecycle, FiniteSetTheorems, TLAPS

Using(r) == pc[r] \in UsingCache

\* The counter of createIdleShutdown counts the tool calls.
CountInv == inFlight = Cardinality(ToolsRunning)

\* The slot holds the last cache built or none; every other is on its way out.
SlotInv ==
    /\ current \in {NoCache, built}
    /\ current \notin retiring
    /\ current # NoCache => word[current] # "down"
    /\ retiring \subseteq 1..built
    /\ \A k \in Caches : k > built => word[k] = "cold"
    /\ \A k \in 1..built : k # current /\ k \notin retiring => word[k] = "down"
    /\ \A r \in Requests : cacheOf[r] <= built
    /\ \A r \in Requests : Using(r) => cacheOf[r] \in Caches

\* No other request can know the panel of r yet.
Own(r) ==
    /\ r \notin Displayed \cup showing
    /\ \A s \in Requests : s # r => panel[s] # r

\* A request that has not put its panel into the map has it for itself.
PanelInv ==
    \A r \in Requests :
        /\ pc[r] \in {"idle", "starting"} => Own(r)
        /\ pc[r] = "idle" => panel[r] = None
        /\ pc[r] = "starting" => id[r] \in Ids
        /\ pc[r] \in {"starting", "resolving", "opening", "opened", "exporting",
                     "exported"} => panel[r] \in Requests
        /\ job[r] \in {"action", "tool"} => pc[r] \in {"calling", "called", "done"}

\* Until shutdown() begins, what a protected request took is what the slot holds.
Protected(r) == Using(r) /\ (job[r] = "tool" \/ panel[r] \in Displayed)

UseInv ==
    shutdown = "no" =>
        \A r \in Requests : Protected(r) => current # NoCache /\ cacheOf[r] = current

\* The slot's cache has an owner from the moment somebody takes it.
InUse(k) == word[k] = "up" \/ \E r \in Requests : Using(r) /\ cacheOf[r] = k

OwnerInv == current # NoCache /\ current \notin strays /\ InUse(current) => Owned

\* What shutdown() is waiting for.
EndInv ==
    shutdown \in {"disposing", "over"} =>
        /\ early <= built
        /\ current = NoCache \/ current > early
        /\ awaited \subseteq 1..early
        /\ retiring \cap 1..early \subseteq awaited
        /\ shutdown = "over" => awaited \cap retiring = {}

IInv ==
    TypeOK /\ CountInv /\ SlotInv /\ PanelInv /\ UseInv /\ OwnerInv /\ EndInv

-----------------------------------------------------------------------------
(* The counter, the slot and the frame of a request's step.                *)

\* The invariant holds initially.
LEMMA InvInit == Init => IInv
<1> SUFFICES ASSUME Init PROVE IInv
  OBVIOUS
<1> USE LifecycleAssumption DEF Init, NoCache, Caches
<1>1. TypeOK
  <2>1. built \in 0..MaxCaches /\ early \in 0..MaxCaches /\ inFlight \in Nat
    OBVIOUS
  <2>2. /\ pc \in [Requests -> UsingCache \cup {"idle", "starting", "resolving",
                                                "closing", "done"}]
        /\ job \in [Requests -> {"none", "open", "refresh", "action", "tool", "close"}]
        /\ cacheOf \in [Requests -> Caches \cup {NoCache}]
    OBVIOUS
  <2>3. word \in [Caches -> {"cold", "up", "down"}]
    OBVIOUS
  <2> QED
    BY <2>1, <2>2, <2>3 DEF TypeOK
<1>2. CountInv
  <2>1. ToolsRunning = {}
    BY DEF ToolsRunning
  <2> QED
    BY <2>1, FS_EmptySet DEF CountInv
<1>3. SlotInv
  BY DEF SlotInv, Using, UsingCache
<1>4. PanelInv
  BY DEF PanelInv, Own, Displayed, Using, UsingCache
<1>5. UseInv /\ OwnerInv /\ EndInv
  BY DEF UseInv, Protected, Using, UsingCache, OwnerInv, EndInv
<1> QED
  BY <1>1, <1>2, <1>3, <1>4, <1>5 DEF IInv

\* There are finitely many tool calls, and none when the counter says none.
LEMMA CountedTools ==
  ASSUME IInv
  PROVE  /\ IsFiniteSet(ToolsRunning)
         /\ inFlight = 0 => ToolsRunning = {}
<1>1. IsFiniteSet(ToolsRunning)
  BY FS_Subset, LifecycleAssumption DEF ToolsRunning
<1>2. inFlight = 0 => ToolsRunning = {}
  BY <1>1, FS_EmptySet DEF IInv, CountInv
<1> QED
  BY <1>1, <1>2

\* A request that starts as anything but a tool, or goes on without ending one,
\* leaves the set of running tools as it is.
LEMMA SameTools ==
  ASSUME TypeOK, NEW r \in Requests, NEW step,
         pc' = [pc EXCEPT ![r] = step],
         \/ job' = job /\ (r \in ToolsRunning => step \in {"calling", "called"})
              /\ (job[r] = "tool" /\ step \in {"calling", "called"} => r \in ToolsRunning)
         \/ /\ r \notin ToolsRunning
            /\ \E what : what # "tool" /\ job' = [job EXCEPT ![r] = what]
  PROVE  ToolsRunning' = ToolsRunning
  BY DEF ToolsRunning, TypeOK

\* The counter follows the tool calls inside run.
LEMMA CountStep ==
  ASSUME IInv, NEW r \in Requests, Arrive(r) \/ Continue(r)
  PROVE  CountInv'
<1> USE DEF slotVars, panelVars, callVars, endVars
<1>0. TypeOK /\ CountInv /\ PanelInv
  BY DEF IInv
<1>1. CASE StartTool(r)
  <2>1. r \notin ToolsRunning /\ ToolsRunning' = ToolsRunning \cup {r}
    BY <1>0, <1>1 DEF StartTool, Start, ToolsRunning, TypeOK
  <2> QED
    BY <1>1, <2>1, <1>0, CountedTools, FS_AddElement DEF StartTool, CountInv
<1>2. CASE EndTool(r)
  <2>1. r \in ToolsRunning /\ ToolsRunning' = ToolsRunning \ {r}
    BY <1>0, <1>2 DEF EndTool, Goto, ToolsRunning, TypeOK
  <2> QED
    BY <1>2, <2>1, <1>0, CountedTools, FS_RemoveElement DEF EndTool, CountInv
<1>3. CASE OpenCanvas(r) \/ RefreshPanel(r) \/ PanelAction(r) \/ CloseCanvas(r)
  <2>1. inFlight' = inFlight /\ r \notin ToolsRunning
    BY <1>0, <1>3
    DEF OpenCanvas, RefreshPanel, PanelAction, CloseCanvas, Start, ToolsRunning, TypeOK
  <2>2. \E step, what : /\ what # "tool" /\ job' = [job EXCEPT ![r] = what]
                        /\ pc' = [pc EXCEPT ![r] = step]
    BY <1>3 DEF OpenCanvas, RefreshPanel, PanelAction, CloseCanvas, Start
  <2> QED
    BY <2>1, <2>2, <1>0, SameTools DEF CountInv
<1>4. CASE Continue(r) /\ ~EndTool(r)
  <2>1. inFlight' = inFlight /\ job' = job
    BY <1>4 DEF Continue, PanelStarted, PathResolved, ReachWord, Export, PanelDone,
       RefreshAbandoned, ActionDone, PanelClosed, Goto
  <2>2. \E step : /\ pc' = [pc EXCEPT ![r] = step]
                  /\ r \in ToolsRunning => step \in {"calling", "called"}
                  /\ job[r] = "tool" /\ step \in {"calling", "called"}
                        => r \in ToolsRunning
    BY <1>4 DEF Continue, PanelStarted, PathResolved, ReachWord, Export, PanelDone,
       RefreshAbandoned, ActionDone, PanelClosed, Goto, ToolsRunning
  <2> QED
    BY <2>1, <2>2, <1>0, SameTools DEF CountInv
<1> QED
  BY <1>1, <1>2, <1>3, <1>4 DEF Arrive, Continue

-----------------------------------------------------------------------------
(* Types.                                                                  *)

\* Asking the slot yields a cache.
LEMMA TypeGet == ASSUME TypeOK, Get PROVE current' \in Caches /\ built' \in 0..MaxCaches
                                         /\ retiring' \in SUBSET Caches /\ Live \in Caches
  BY LifecycleAssumption DEF TypeOK, Get, Live, Caches, NoCache

\* Disposing the slot keeps its types.
LEMMA TypeDispose ==
  ASSUME TypeOK, Dispose
  PROVE  /\ current' \in Caches \cup {NoCache} /\ built' \in 0..MaxCaches
         /\ retiring' \in SUBSET Caches
         /\ word' \in [Caches -> {"cold", "up", "down"}]
  BY DEF TypeOK, Dispose

Steps == UsingCache \cup {"idle", "starting", "resolving", "closing", "done"}

\* A request that starts keeps the types.
LEMMA TypeStart ==
  ASSUME TypeOK, NEW r \in Requests, NEW what \in AllKinds \ {"shutdown"},
         NEW i \in Ids \cup {None}, NEW q \in Requests \cup {None}, NEW step \in Steps,
         Start(r, what, i, q, step)
  PROVE  /\ pc' \in [Requests -> Steps]
         /\ job' \in [Requests -> {"none", "open", "refresh", "action", "tool", "close"}]
         /\ id' \in [Requests -> Ids \cup {None}]
         /\ panel' \in [Requests -> Requests \cup {None}]
  BY DEF TypeOK, Start, Steps, AllKinds

\* Every step keeps the types.
LEMMA TypeStep ==
  ASSUME IInv, Next
  PROVE  TypeOK'
<1> USE DEF slotVars, panelVars, callVars, endVars
<1>0. TypeOK
  BY DEF IInv
<1>1. ASSUME NEW r \in Requests, OpenCanvas(r) PROVE TypeOK'
  BY <1>0, <1>1 DEF OpenCanvas, Start, TypeOK, UsingCache
<1>2. ASSUME NEW r \in Requests, PanelStarted(r) PROVE TypeOK'
  BY <1>0, <1>2 DEF PanelStarted, Goto, TypeOK, UsingCache
<1>3. ASSUME NEW r \in Requests, PathResolved(r) PROVE TypeOK'
  BY <1>0, <1>3, TypeGet DEF PathResolved, Goto, AskForCache, Claim, TypeOK, UsingCache
<1>4. ASSUME NEW r \in Requests, RefreshPanel(r) PROVE TypeOK'
  BY <1>0, <1>4, TypeGet DEF RefreshPanel, Start, AskForCache, Claim, TypeOK, UsingCache
<1>5. ASSUME NEW r \in Requests, ReachWord(r) PROVE TypeOK'
  BY <1>0, <1>5 DEF ReachWord, Goto, TypeOK, UsingCache
<1>6. ASSUME NEW r \in Requests, Export(r) PROVE TypeOK'
  BY <1>0, <1>6, TypeGet DEF Export, Goto, AskForCache, Claim, TypeOK, UsingCache
<1>7. ASSUME NEW r \in Requests, PanelDone(r) PROVE TypeOK'
  <2>1. pc' \in [Requests -> Steps] /\ UNCHANGED callVars
    BY <1>0, <1>7 DEF PanelDone, Goto, TypeOK, Steps
  <2>2. panel[r] \in Requests
    BY <1>7 DEF PanelDone, IInv, PanelInv, Own
  <2>3. showing' \in SUBSET Requests
    BY <1>0, <1>7, <2>2 DEF PanelDone, TypeOK
  <2>4. current' \in Caches \cup {NoCache} /\ built' \in 0..MaxCaches
        /\ retiring' \in SUBSET Caches
    BY <1>0, <1>7, TypeGet DEF PanelDone, TypeOK
  <2> QED
    BY <1>0, <1>7, <2>1, <2>3, <2>4 DEF PanelDone, TypeOK, Steps
<1>8. ASSUME NEW r \in Requests, RefreshAbandoned(r) PROVE TypeOK'
  BY <1>0, <1>8 DEF RefreshAbandoned, Goto, TypeOK, UsingCache
<1>9. ASSUME NEW r \in Requests, PanelAction(r) PROVE TypeOK'
  <2>1. PICK i \in Ids : instances[i] # None /\ Start(r, "action", i, instances[i], "calling")
    BY <1>9 DEF PanelAction
  <2>2. instances[i] \in Requests
    BY <1>0, <2>1 DEF TypeOK
  <2>3. cacheOf' \in [Requests -> Caches \cup {NoCache}]
    BY <1>0, <1>9, TypeGet DEF PanelAction, AskForCache, TypeOK
  <2> QED
    BY <1>0, <1>9, <2>1, <2>2, <2>3, TypeStart, TypeGet
    DEF PanelAction, AskForCache, TypeOK, Steps, UsingCache, AllKinds
<1>10. ASSUME NEW r \in Requests, ActionDone(r) PROVE TypeOK'
  BY <1>0, <1>10 DEF ActionDone, Goto, TypeOK, UsingCache
<1>11. ASSUME NEW r \in Requests, StartTool(r) PROVE TypeOK'
  <2>1. cacheOf' \in [Requests -> Caches \cup {NoCache}] /\ inFlight' \in Nat
    BY <1>0, <1>11, TypeGet DEF StartTool, AskForCache, TypeOK
  <2> QED
    BY <1>0, <1>11, <2>1, TypeStart, TypeGet
    DEF StartTool, AskForCache, TypeOK, Steps, UsingCache, AllKinds
<1>12. ASSUME NEW r \in Requests, RefreshAfterEdit(r) PROVE TypeOK'
  BY <1>0, <1>12, TypeGet DEF RefreshAfterEdit, TypeOK, UsingCache
<1>13. ASSUME NEW r \in Requests, EndTool(r) PROVE TypeOK'
  <2>1. inFlight # 0
    BY <1>13, CountedTools DEF EndTool
  <2>2. inFlight' \in Nat /\ timer' \in BOOLEAN
    BY <1>0, <1>13, <2>1 DEF EndTool, Schedule, TypeOK
  <2>3. pc' \in [Requests -> Steps] /\ UNCHANGED callVars
    BY <1>0, <1>13 DEF EndTool, Goto, TypeOK, Steps
  <2> QED
    BY <1>0, <1>13, <2>2, <2>3 DEF EndTool, TypeOK, Steps
<1>14. ASSUME NEW r \in Requests, CloseCanvas(r) PROVE TypeOK'
  BY <1>0, <1>14 DEF CloseCanvas, Start, TypeOK, UsingCache
<1>15. ASSUME NEW r \in Requests, PanelClosed(r) PROVE TypeOK'
  BY <1>0, <1>15, TypeDispose DEF PanelClosed, Goto, Schedule, TypeOK, UsingCache
<1>16. CASE \E k \in Caches : DisposalEnds(k)
  BY <1>0, <1>16 DEF DisposalEnds, TypeOK
<1>17. CASE TimerFires
  BY <1>0, <1>17, TypeDispose DEF TimerFires, TypeOK
<1>18. CASE BeginShutdown
  <2>1. Displayed \in SUBSET Requests
    BY <1>0 DEF Displayed, TypeOK
  <2>2. closed' \in SUBSET Requests
    BY <1>0, <1>18, <2>1 DEF BeginShutdown, TypeOK
  <2> QED
    BY <1>0, <1>18, <2>2 DEF BeginShutdown, TypeOK
<1>19. CASE ShutdownDisposes
  <2>1. instances' \in [Ids -> Requests \cup {None}]
    BY <1>19 DEF ShutdownDisposes
  <2> QED
    BY <1>0, <1>19, <2>1, TypeDispose DEF ShutdownDisposes, TypeOK
<1>20. CASE ShutdownEnds
  BY <1>0, <1>20 DEF ShutdownEnds, TypeOK
<1> QED
  BY <1>1, <1>2, <1>3, <1>4, <1>5, <1>6, <1>7, <1>8, <1>9, <1>10, <1>11,
     <1>12, <1>13, <1>14, <1>15, <1>16, <1>17, <1>18, <1>19, <1>20
  DEF Next, Arrive, Continue, EndProcess

-----------------------------------------------------------------------------
(* The slot.                                                               *)

\* Asking for the cache keeps the slot in order, whoever remembers the answer.
LEMMA SlotAfterGet ==
  ASSUME TypeOK, SlotInv, Get, word' = word,
         \A r \in Requests : cacheOf'[r] \in {cacheOf[r], Live},
         \A r \in Requests : Using(r)' => \/ Using(r) /\ cacheOf'[r] = cacheOf[r]
                                          \/ cacheOf'[r] = Live
  PROVE  SlotInv'
<1> USE LifecycleAssumption DEF NoCache, Caches
<1>1. Live \in Caches /\ current' = Live /\ built' = Live /\ retiring' = retiring
  BY DEF Get, Live, SlotInv, TypeOK
<1>2. Live \notin retiring /\ word[Live] # "down" /\ built <= Live
  BY <1>1 DEF Live, SlotInv, TypeOK
<1>3. \A k \in 1..Live : k # Live /\ k \notin retiring => word[k] = "down"
  BY <1>1 DEF Live, SlotInv, TypeOK
<1>4. \A r \in Requests : cacheOf'[r] <= built' /\ (Using(r)' => cacheOf'[r] \in Caches)
  BY <1>1, <1>2 DEF SlotInv, TypeOK
<1> QED
  BY <1>1, <1>2, <1>3, <1>4 DEF SlotInv, TypeOK

\* Retiring the cache keeps it, too.
LEMMA SlotAfterDispose ==
  ASSUME TypeOK, SlotInv, Dispose, cacheOf' = cacheOf,
         \A r \in Requests : Using(r)' => Using(r)
  PROVE  SlotInv'
<1> USE LifecycleAssumption DEF NoCache, Caches
<1>1. current' = 0 /\ built' = built /\ retiring' = retiring \cup ({current} \ {0})
  BY DEF Dispose
<1>2. \A k \in Caches : word'[k] = IF k = current /\ word[k] = "cold" THEN "down" ELSE word[k]
  BY DEF Dispose
<1> QED
  BY <1>1, <1>2 DEF SlotInv, TypeOK

\* Nobody touches the slot, and no request takes up a cache.
LEMMA SlotUntouched ==
  ASSUME TypeOK, SlotInv, UNCHANGED <<slotVars, word, cacheOf>>,
         \A r \in Requests : Using(r)' => Using(r)
  PROVE  SlotInv'
  BY DEF SlotInv, slotVars

\* Caches below the live one stay retiring or gone.
LEMMA SlotStep ==
  ASSUME IInv, Next
  PROVE  SlotInv'
<1> USE DEF slotVars, panelVars, callVars, endVars
<1>0. TypeOK /\ SlotInv
  BY DEF IInv
<1>1. ASSUME NEW r \in Requests,
             OpenCanvas(r) \/ PanelStarted(r) \/ RefreshAbandoned(r) \/ ActionDone(r)
               \/ EndTool(r) \/ CloseCanvas(r)
      PROVE  SlotInv'
  <2>1. \A s \in Requests : Using(s)' => Using(s)
    BY <1>0, <1>1 DEF OpenCanvas, PanelStarted, RefreshAbandoned, ActionDone, EndTool,
       CloseCanvas, Start, Goto, Using, UsingCache, TypeOK
  <2> QED
    BY <1>0, <1>1, <2>1, SlotUntouched
    DEF OpenCanvas, PanelStarted, RefreshAbandoned, ActionDone, EndTool, CloseCanvas
<1>2. ASSUME NEW r \in Requests, PathResolved(r) PROVE SlotInv'
  <2>1. CASE UNCHANGED <<cacheOf, slotVars>> /\ Goto(r, "done")
    <3>1. \A s \in Requests : Using(s)' => Using(s)
      BY <1>0, <2>1 DEF Goto, Using, UsingCache, TypeOK
    <3> QED
      BY <1>0, <1>2, <2>1, <3>1, SlotUntouched DEF PathResolved
  <2>2. CASE Goto(r, "opening") /\ AskForCache(r)
    <3>1. \A s \in Requests : s # r => (Using(s)' => Using(s)) /\ cacheOf'[s] = cacheOf[s]
      BY <1>0, <2>2 DEF Goto, AskForCache, Using, TypeOK
    <3>2. cacheOf'[r] = Live
      BY <1>0, <2>2 DEF AskForCache, TypeOK
    <3> QED
      BY <1>0, <1>2, <2>2, <3>1, <3>2, SlotAfterGet DEF PathResolved, AskForCache
  <2> QED
    BY <1>2, <2>1, <2>2 DEF PathResolved
<1>3. ASSUME NEW r \in Requests,
             RefreshPanel(r) \/ Export(r) \/ PanelAction(r) \/ StartTool(r)
      PROVE  SlotInv'
  <2>1. AskForCache(r) /\ word' = word
    BY <1>3 DEF RefreshPanel, Export, PanelAction, StartTool
  <2>2. \A s \in Requests : s # r => (Using(s)' => Using(s)) /\ cacheOf'[s] = cacheOf[s]
    BY <1>0, <1>3 DEF RefreshPanel, Export, PanelAction, StartTool, Start, Goto,
       AskForCache, Using, TypeOK
  <2>3. cacheOf'[r] = Live
    BY <1>0, <2>1 DEF AskForCache, TypeOK
  <2> QED
    BY <1>0, <2>1, <2>2, <2>3, SlotAfterGet DEF AskForCache
<1>4. ASSUME NEW r \in Requests, PanelDone(r) PROVE SlotInv'
  <2>1. \A s \in Requests : Using(s)' => Using(s)
    BY <1>0, <1>4 DEF PanelDone, Goto, Using, UsingCache, TypeOK
  <2>2. cacheOf' = cacheOf /\ word' = word /\ (Get \/ UNCHANGED slotVars)
    BY <1>4 DEF PanelDone
  <2> QED
    BY <1>0, <2>1, <2>2, SlotAfterGet, SlotUntouched
<1>5. ASSUME NEW r \in Requests, ReachWord(r) PROVE SlotInv'
  <2>1. \A s \in Requests : Using(s)' => Using(s)
    BY <1>0, <1>5 DEF ReachWord, Goto, Using, UsingCache, TypeOK
  <2>2. cacheOf[r] \in Caches /\ cacheOf[r] <= built
    BY <1>0, <1>5 DEF ReachWord, SlotInv, Using, UsingCache
  <2>3. word' = [word EXCEPT ![cacheOf[r]] = "up"] /\ word[cacheOf[r]] # "down"
        /\ UNCHANGED <<slotVars, cacheOf>>
    BY <1>5 DEF ReachWord
  <2> QED
    BY <1>0, <2>1, <2>2, <2>3, LifecycleAssumption DEF SlotInv, TypeOK, Caches, NoCache
<1>6. ASSUME NEW r \in Requests, RefreshAfterEdit(r) PROVE SlotInv'
  <2>1. Get /\ word' = [word EXCEPT ![Live] = "up"] /\ UNCHANGED <<pc, cacheOf>>
    BY <1>6 DEF RefreshAfterEdit
  <2>2. Live \in Caches /\ current' = Live /\ built' = Live /\ retiring' = retiring
        /\ built <= Live /\ Live \notin retiring
    BY <1>0, <2>1, LifecycleAssumption DEF Get, Live, SlotInv, TypeOK, Caches, NoCache
  <2>3. \A k \in 1..Live : k # Live /\ k \notin retiring => word'[k] = "down"
    BY <1>0, <2>1, <2>2, LifecycleAssumption
    DEF Live, SlotInv, TypeOK, Caches, NoCache
  <2>4. \A k \in Caches : k > Live => word'[k] = "cold"
    BY <1>0, <2>1, <2>2, LifecycleAssumption DEF SlotInv, TypeOK, Caches
  <2>5. \A s \in Requests : cacheOf'[s] <= built' /\ (Using(s)' => cacheOf'[s] \in Caches)
    BY <1>0, <2>1, <2>2, LifecycleAssumption DEF SlotInv, TypeOK, Caches, NoCache, Using
  <2> QED
    BY <1>0, <2>1, <2>2, <2>3, <2>4, <2>5, LifecycleAssumption
    DEF SlotInv, TypeOK, Caches, NoCache
<1>7. ASSUME NEW r \in Requests, PanelClosed(r) PROVE SlotInv'
  <2>1. \A s \in Requests : Using(s)' => Using(s)
    BY <1>0, <1>7 DEF PanelClosed, Goto, Using, UsingCache, TypeOK
  <2> QED
    BY <1>0, <1>7, <2>1, SlotAfterDispose, SlotUntouched DEF PanelClosed
<1>8. CASE \E k \in Caches : DisposalEnds(k)
  BY <1>0, <1>8, LifecycleAssumption DEF DisposalEnds, SlotInv, TypeOK, Caches, NoCache, Using
<1>9. CASE TimerFires
  BY <1>0, <1>9, SlotAfterDispose, SlotUntouched DEF TimerFires, Using
<1>10. CASE BeginShutdown
  BY <1>0, <1>10, SlotUntouched DEF BeginShutdown, Using
<1>11. CASE ShutdownDisposes
  BY <1>0, <1>11, SlotAfterDispose DEF ShutdownDisposes, Using
<1>12. CASE ShutdownEnds
  BY <1>0, <1>12, LifecycleAssumption DEF ShutdownEnds, SlotInv, TypeOK, Caches, NoCache, Using
<1> QED
  BY <1>1, <1>2, <1>3, <1>4, <1>5, <1>6, <1>7, <1>8, <1>9, <1>10, <1>11, <1>12
  DEF Next, Arrive, Continue, EndProcess

-----------------------------------------------------------------------------
(* Panels.                                                                 *)

\* A request that goes on, with the map and the documents as they were.
LEMMA PanelGoto ==
  ASSUME TypeOK, PanelInv, NEW r \in Requests, NEW step \in Steps,
         Goto(r, step), pc[r] # "idle", step \notin {"idle", "starting"},
         UNCHANGED <<instances, showing>>,
         step \in {"resolving", "opening", "opened", "exporting", "exported"}
             => panel[r] \in Requests,
         job[r] \in {"action", "tool"} => step \in {"calling", "called", "done"}
  PROVE  PanelInv'
<1>1. UNCHANGED <<job, id, panel, Displayed>> /\ pc' = [pc EXCEPT ![r] = step]
  BY DEF Goto, callVars, Displayed
<1>2. ASSUME NEW s \in Requests, s # r PROVE pc'[s] = pc[s]
  BY <1>1, <1>2 DEF TypeOK
<1>3. pc'[r] = step
  BY <1>1 DEF TypeOK
<1> QED
  BY <1>1, <1>2, <1>3 DEF PanelInv, Own, Using, UsingCache

\* A request that starts on nobody's panel, or on one that is in use already.
LEMMA PanelStart ==
  ASSUME TypeOK, PanelInv, NEW r \in Requests, NEW what, NEW i, NEW step, NEW q,
         Start(r, what, i, q, step), showing' = showing, Displayed' \subseteq Displayed,
         \/ what = "open" /\ q = r /\ i \in Ids /\ step = "starting"
         \/ q \in Displayed \cup showing /\ step \notin {"idle", "starting"}
              /\ what # "tool" /\ (what = "action" => step = "calling")
         \/ q = None /\ what = "tool" /\ step = "calling"
  PROVE  PanelInv'
<1>1. /\ pc[r] = "idle" /\ r \notin Displayed \cup showing
      /\ \A s \in Requests : s # r => panel[s] # r
  BY DEF Start, PanelInv, Own
<1>2. /\ pc'[r] = step /\ job'[r] = what /\ id'[r] = i /\ panel'[r] = q
      /\ \A s \in Requests : s # r => /\ pc'[s] = pc[s] /\ job'[s] = job[s]
                                      /\ id'[s] = id[s] /\ panel'[s] = panel[s]
  BY DEF Start, TypeOK
<1>3. Displayed \cup showing \subseteq Requests
  BY DEF Displayed, TypeOK
<1>4. ASSUME NEW s \in Requests, s # r, pc[s] \in {"idle", "starting"}
      PROVE  s \notin Displayed \cup showing /\ s # q
  BY <1>1, <1>4, LifecycleAssumption DEF PanelInv, Own
<1>5. ASSUME NEW s \in Requests, pc'[s] \in {"idle", "starting"}
      PROVE  Own(s)'
  BY <1>1, <1>2, <1>4, <1>5, LifecycleAssumption DEF PanelInv, Own
<1> QED
  BY <1>1, <1>2, <1>3, <1>5, LifecycleAssumption DEF PanelInv, Own, Using, UsingCache

\* Whatever leaves the requests alone and shows no other panel.
LEMMA PanelUntouched ==
  ASSUME PanelInv, UNCHANGED <<showing, pc, callVars>>, Displayed' \subseteq Displayed
  PROVE  PanelInv'
  BY DEF PanelInv, Own, callVars, Using

\* A displayed panel stays one panel per canvas id.
LEMMA PanelStep ==
  ASSUME IInv, Next
  PROVE  PanelInv'
<1> USE DEF slotVars, panelVars, endVars
<1>0. TypeOK /\ PanelInv
  BY DEF IInv
<1>1. ASSUME NEW r \in Requests, OpenCanvas(r) PROVE PanelInv'
  <2>1. PICK i \in Ids :
           \/ instances[i] = None /\ Start(r, "open", i, r, "starting")
           \/ instances[i] # None /\ \E step \in {"resolving", "done"} :
                                        Start(r, "open", i, instances[i], step)
    BY <1>1 DEF OpenCanvas
  <2>2. instances[i] # None => instances[i] \in Displayed
    BY DEF Displayed
  <2>3. Displayed' = Displayed /\ showing' = showing
    BY <1>1 DEF OpenCanvas, Displayed
  <2> QED
    BY <1>0, <2>1, <2>2, <2>3, PanelStart
<1>2. ASSUME NEW r \in Requests, RefreshPanel(r) PROVE PanelInv'
  <2>1. PICK q \in showing \ closed : Start(r, "refresh", None, q, "opening")
    BY <1>2 DEF RefreshPanel
  <2>2. Displayed' = Displayed /\ showing' = showing
    BY <1>2 DEF RefreshPanel, Displayed
  <2> QED
    BY <1>0, <2>1, <2>2, PanelStart
<1>3. ASSUME NEW r \in Requests, PanelAction(r) PROVE PanelInv'
  <2>1. PICK i \in Ids : /\ instances[i] # None /\ instances[i] \in showing
                         /\ Start(r, "action", i, instances[i], "calling")
    BY <1>3 DEF PanelAction
  <2>2. Displayed' = Displayed /\ showing' = showing
    BY <1>3 DEF PanelAction, Displayed
  <2> QED
    BY <1>0, <2>1, <2>2, PanelStart
<1>4. ASSUME NEW r \in Requests, StartTool(r) PROVE PanelInv'
  <2>1. Displayed' = Displayed /\ showing' = showing
    BY <1>4 DEF StartTool, Displayed
  <2> QED
    BY <1>0, <1>4, <2>1, PanelStart DEF StartTool
<1>5. ASSUME NEW r \in Requests, CloseCanvas(r) PROVE PanelInv'
  <2>1. PICK i \in Ids : /\ instances[i] # None
                         /\ Start(r, "close", i, instances[i], "closing")
                         /\ instances' = [instances EXCEPT ![i] = None]
    BY <1>5 DEF CloseCanvas
  <2>2. instances[i] \in Displayed /\ Displayed' \subseteq Displayed
    BY <1>0, <2>1 DEF Displayed, TypeOK
  <2>3. showing' = showing
    BY <1>5 DEF CloseCanvas
  <2> QED
    BY <1>0, <2>1, <2>2, <2>3, PanelStart
<1>6. ASSUME NEW r \in Requests, PanelStarted(r) PROVE PanelInv'
  <2>1. /\ pc[r] = "starting" /\ Own(r) /\ id[r] \in Ids
        /\ instances' = [instances EXCEPT ![id[r]] = r]
    BY <1>0, <1>6 DEF PanelStarted, PanelInv, Own
  <2>2. Displayed' \subseteq Displayed \cup {r}
    BY <1>0, <2>1 DEF Displayed, TypeOK
  <2>3. PICK step \in {"resolving", "done"} : pc' = [pc EXCEPT ![r] = step]
    BY <1>6 DEF PanelStarted, Goto
  <2>4. UNCHANGED <<job, id, panel, showing>>
    BY <1>6 DEF PanelStarted, Goto, callVars
  <2>5. ASSUME NEW s \in Requests, s # r, pc[s] \in {"idle", "starting"}
        PROVE  Own(s)'
    BY <1>0, <2>2, <2>4, <2>5 DEF PanelInv, Own
  <2>6. panel[r] \in Requests
    BY <1>0, <1>6 DEF PanelStarted, PanelInv, Own
  <2>7. pc'[r] = step /\ \A s \in Requests : s # r => pc'[s] = pc[s]
    BY <1>0, <2>3 DEF TypeOK
  <2> QED
    BY <1>0, <2>1, <2>4, <2>5, <2>6, <2>7 DEF PanelInv
<1>7. ASSUME NEW r \in Requests, PanelDone(r) PROVE PanelInv'
  <2>1. panel[r] \in Requests
    BY <1>0, <1>7 DEF PanelDone, PanelInv, Own
  <2>2. pc[panel[r]] \notin {"idle", "starting"}
    BY <1>0, <1>7, <2>1 DEF PanelDone, PanelInv, Own
  <2>3. showing' \subseteq showing \cup {panel[r]} /\ Displayed' = Displayed
    BY <1>7 DEF PanelDone, Displayed
  <2>4. pc' = [pc EXCEPT ![r] = "done"] /\ UNCHANGED <<job, id, panel>>
    BY <1>7 DEF PanelDone, Goto, callVars
  <2> QED
    BY <1>0, <2>1, <2>2, <2>3, <2>4 DEF PanelInv, Own, TypeOK, Using, UsingCache
<1>8. ASSUME NEW r \in Requests,
             \/ PathResolved(r) \/ ReachWord(r) \/ Export(r) \/ RefreshAbandoned(r)
             \/ ActionDone(r) \/ EndTool(r) \/ PanelClosed(r)
      PROVE  PanelInv'
  <2>1. UNCHANGED <<instances, showing>>
    BY <1>8 DEF PathResolved, ReachWord, Export, RefreshAbandoned, ActionDone, EndTool,
       PanelClosed
  <2>2. \E step \in Steps :
           /\ Goto(r, step) /\ pc[r] # "idle" /\ step \notin {"idle", "starting"}
           /\ step \in {"resolving", "opening", "opened", "exporting", "exported"}
                 => panel[r] \in Requests
           /\ job[r] \in {"action", "tool"} => step \in {"calling", "called", "done"}
    <3>1. CASE PathResolved(r) \/ Export(r)
      BY <1>0, <3>1 DEF PathResolved, Export, PanelInv, Steps, UsingCache
    <3>2. CASE ReachWord(r)
      BY <1>0, <3>2 DEF ReachWord, PanelInv, Own, Steps, UsingCache, Using
    <3>3. CASE RefreshAbandoned(r) \/ ActionDone(r) \/ EndTool(r) \/ PanelClosed(r)
      BY <3>3 DEF RefreshAbandoned, ActionDone, EndTool, PanelClosed, Steps, ToolsRunning
    <3> QED
      BY <1>8, <3>1, <3>2, <3>3
  <2> QED
    BY <1>0, <2>1, <2>2, PanelGoto
<1>9. ASSUME \/ \E r \in Requests : RefreshAfterEdit(r)
             \/ \E k \in Caches : DisposalEnds(k)
             \/ TimerFires \/ EndProcess
      PROVE  PanelInv'
  <2>1. UNCHANGED <<showing, pc, callVars>>
    BY <1>9 DEF RefreshAfterEdit, DisposalEnds, TimerFires, EndProcess, BeginShutdown,
       ShutdownDisposes, ShutdownEnds
  <2>2. instances' = instances \/ instances' = [i \in Ids |-> None]
    BY <1>9 DEF RefreshAfterEdit, DisposalEnds, TimerFires, EndProcess, BeginShutdown,
       ShutdownDisposes, ShutdownEnds
  <2>3. Displayed' \subseteq Displayed
    BY <2>2 DEF Displayed
  <2> QED
    BY <1>0, <2>1, <2>3, PanelUntouched
<1> QED
  BY <1>1, <1>2, <1>3, <1>4, <1>5, <1>6, <1>7, <1>8, <1>9
  DEF Next, Arrive, Continue

-----------------------------------------------------------------------------
(* Whoever uses the slot's cache keeps it.                                 *)

\* With no panel displayed and no tool call counted, nobody is protected.
LEMMA NobodyProtected ==
  ASSUME IInv, Displayed = {}, inFlight = 0
  PROVE  \A r \in Requests : ~Protected(r)
<1>1. ToolsRunning = {}
  BY CountedTools
<1> QED
  BY <1>1 DEF IInv, PanelInv, Protected, Using, UsingCache, ToolsRunning

\* The general step: the slot does not change under a protected request, and who
\* becomes protected has just asked the slot.
LEMMA UseFrame ==
  ASSUME IInv, shutdown' = "no" => shutdown = "no",
         (\E s \in Requests : Protected(s)) => current = NoCache \/ current' = current,
         \A s \in Requests : Protected(s)' =>
             \/ Protected(s) /\ cacheOf'[s] = cacheOf[s]
             \/ current' # NoCache /\ cacheOf'[s] = current'
  PROVE  UseInv'
  BY DEF IInv, UseInv

\* The slot after it was asked.
LEMMA GetFacts ==
  ASSUME TypeOK, Get
  PROVE  /\ current' = Live /\ Live \in Caches /\ Live # NoCache
         /\ current = NoCache \/ current' = current
         /\ retiring' = retiring
         /\ built' = IF current = NoCache THEN built + 1 ELSE built
  BY LifecycleAssumption DEF TypeOK, Get, Live, Caches, NoCache

\* A protected request keeps the slot's cache.
LEMMA UseStep ==
  ASSUME IInv, Next
  PROVE  UseInv'
<1> USE DEF slotVars, panelVars, callVars, endVars
<1>0. TypeOK /\ PanelInv
  BY DEF IInv
<1>1. ASSUME NEW r \in Requests,
             OpenCanvas(r) \/ CloseCanvas(r) \/ RefreshAbandoned(r) \/ ActionDone(r)
               \/ EndTool(r) \/ ReachWord(r)
      PROVE  UseInv'
  <2>1. UNCHANGED <<shutdown, current, cacheOf>>
    BY <1>1 DEF OpenCanvas, CloseCanvas, RefreshAbandoned, ActionDone, EndTool, ReachWord
  <2>2. Displayed' \subseteq Displayed
    BY <1>0, <1>1 DEF OpenCanvas, CloseCanvas, RefreshAbandoned, ActionDone, EndTool,
       ReachWord, Displayed, TypeOK
  <2>3. ASSUME NEW t \in Requests, t # r
        PROVE  pc'[t] = pc[t] /\ job'[t] = job[t] /\ panel'[t] = panel[t]
    BY <1>0, <1>1, <2>3 DEF OpenCanvas, CloseCanvas, RefreshAbandoned, ActionDone,
       EndTool, ReachWord, Start, Goto, TypeOK
  <2>4. \/ pc'[r] \notin UsingCache
        \/ pc[r] \in UsingCache /\ job'[r] = job[r] /\ panel'[r] = panel[r]
    BY <1>0, <1>1 DEF OpenCanvas, CloseCanvas, RefreshAbandoned, ActionDone,
       EndTool, ReachWord, Start, Goto, TypeOK, UsingCache
  <2>5. \A s \in Requests : Protected(s)' => Protected(s)
    BY <2>2, <2>3, <2>4 DEF Protected, Using
  <2> QED
    BY <2>1, <2>5, UseFrame
<1>2. ASSUME NEW r \in Requests,
             \/ RefreshPanel(r) \/ Export(r) \/ PanelAction(r) \/ StartTool(r)
             \/ PathResolved(r)
      PROVE  UseInv'
  <2>1. UNCHANGED <<shutdown, Displayed>>
    BY <1>2 DEF RefreshPanel, Export, PanelAction, StartTool, PathResolved, Displayed
  <2>2. ASSUME NEW t \in Requests, t # r
        PROVE  /\ pc'[t] = pc[t] /\ job'[t] = job[t] /\ panel'[t] = panel[t]
               /\ cacheOf'[t] = cacheOf[t]
    BY <1>0, <1>2, <2>2 DEF RefreshPanel, Export, PanelAction, StartTool, PathResolved,
       AskForCache, Start, Goto, TypeOK
  <2>3. CASE AskForCache(r)
    <3>1. cacheOf'[r] = Live
      BY <1>0, <2>3 DEF AskForCache, TypeOK
    <3> QED
      BY <1>0, <2>1, <2>2, <2>3, <3>1, GetFacts, UseFrame DEF AskForCache, Protected, Using
  <2>4. CASE UNCHANGED <<cacheOf, current>> /\ Goto(r, "done")
    <3>1. ~Using(r)'
      BY <1>0, <2>4 DEF Goto, Using, UsingCache, TypeOK
    <3> QED
      BY <2>1, <2>2, <2>4, <3>1, UseFrame DEF Protected, Using
  <2> QED
    BY <1>2, <2>3, <2>4 DEF RefreshPanel, Export, PanelAction, StartTool, PathResolved
<1>3. ASSUME NEW r \in Requests, PanelDone(r) \/ RefreshAfterEdit(r) PROVE UseInv'
  <2>1. UNCHANGED <<shutdown, Displayed, job, panel, cacheOf>>
    BY <1>3 DEF PanelDone, RefreshAfterEdit, Goto, Displayed
  <2>2. \A s \in Requests : Using(s)' => Using(s)
    BY <1>0, <1>3 DEF PanelDone, RefreshAfterEdit, Goto, Using, UsingCache, TypeOK
  <2>3. Get \/ current' = current
    BY <1>3 DEF PanelDone, RefreshAfterEdit
  <2> QED
    BY <1>0, <2>1, <2>2, <2>3, GetFacts, UseFrame DEF Protected
<1>4. ASSUME NEW r \in Requests, PanelStarted(r) PROVE UseInv'
  <2>1. UNCHANGED <<shutdown, current, cacheOf, job, panel>>
    BY <1>4 DEF PanelStarted, Goto
  <2>2. Displayed' \subseteq Displayed \cup {r}
    BY <1>0, <1>4 DEF PanelStarted, PanelInv, Displayed, TypeOK
  <2>3. \A s \in Requests : Using(s)' => Using(s) /\ s # r
    BY <1>0, <1>4 DEF PanelStarted, Goto, Using, UsingCache, TypeOK
  <2>4. \A s \in Requests : s # r => panel[s] # r
    BY <1>0, <1>4 DEF PanelStarted, PanelInv, Own
  <2> QED
    BY <2>1, <2>2, <2>3, <2>4, UseFrame DEF Protected
<1>5. ASSUME NEW r \in Requests, PanelClosed(r) PROVE UseInv'
  <2>1. UNCHANGED <<shutdown, Displayed, job, panel, cacheOf>>
    BY <1>5 DEF PanelClosed, Goto, Displayed
  <2>2. \A s \in Requests : Using(s)' => Using(s)
    BY <1>0, <1>5 DEF PanelClosed, Goto, Using, UsingCache, TypeOK
  <2>3. (Displayed = {} /\ inFlight = 0) \/ current' = current
    BY <1>5 DEF PanelClosed
  <2> QED
    BY <2>1, <2>2, <2>3, NobodyProtected, UseFrame DEF Protected
<1>6. CASE TimerFires
  <2>1. UNCHANGED <<shutdown, Displayed, pc, job, panel, cacheOf>>
    BY <1>6 DEF TimerFires, Displayed
  <2>2. (Displayed = {} /\ inFlight = 0) \/ current' = current
    BY <1>6 DEF TimerFires
  <2> QED
    BY <2>1, <2>2, NobodyProtected, UseFrame DEF Protected, Using
<1>7. CASE \E k \in Caches : DisposalEnds(k)
  <2>1. UNCHANGED <<shutdown, Displayed, pc, job, panel, cacheOf, current>>
    BY <1>7 DEF DisposalEnds, Displayed
  <2> QED
    BY <2>1, UseFrame DEF Protected, Using
<1>8. CASE EndProcess
  BY <1>8 DEF EndProcess, BeginShutdown, ShutdownDisposes, ShutdownEnds, UseInv
<1> QED
  BY <1>1, <1>2, <1>3, <1>4, <1>5, <1>6, <1>7, <1>8 DEF Next, Arrive, Continue

-----------------------------------------------------------------------------
(* Whoever takes the slot's cache makes somebody own it.                   *)

\* The general step: an owner stays until the slot is emptied, and who takes the
\* cache up brings one.
LEMMA OwnerFrame ==
  ASSUME IInv, TypeOK', strays \subseteq strays',
         current' # NoCache => current' = Live,
         Owned /\ current' # NoCache => Owned',
         InUse(Live)' => InUse(Live) \/ Owned' \/ Live \in strays',
         Live' = Live \/ current' = NoCache
  PROVE  OwnerInv'
<1> SUFFICES ASSUME current' # NoCache, current' \notin strays', InUse(Live)'
             PROVE  Owned'
  BY DEF OwnerInv, InUse, Live
<1>1. current' = Live /\ Live \in Caches
  BY DEF TypeOK
<1>2. InUse(Live) \/ Owned'
  BY <1>1
<1>3. CASE current = NoCache
  <2>1. Live > built
    BY <1>3 DEF IInv, TypeOK, Live
  <2>2. word[Live] = "cold"
    BY <1>1, <2>1 DEF IInv, SlotInv
  <2>3. \A r \in Requests : cacheOf[r] # Live
    BY <2>1 DEF IInv, SlotInv, TypeOK, Caches, NoCache
  <2> QED
    BY <1>2, <2>2, <2>3 DEF InUse
<1>4. CASE current # NoCache
  BY <1>1, <1>2, <1>4 DEF IInv, OwnerInv, Live
<1> QED
  BY <1>3, <1>4

\* Owners that do not depend on what a request does.
LEMMA OwnedFrame ==
  ASSUME TypeOK, Owned, NEW r \in Requests, pc[r] # "closing",
         NEW step, pc' = [pc EXCEPT ![r] = step],
         UNCHANGED <<Displayed, inFlight, timer, shutdown>>
  PROVE  Owned'
  BY DEF Owned, TypeOK

\* A Word that is up keeps an owner.
LEMMA OwnerStep ==
  ASSUME IInv, Next
  PROVE  OwnerInv'
<1> USE DEF slotVars, panelVars, callVars, endVars
<1>0. TypeOK /\ PanelInv /\ TypeOK'
  BY TypeStep DEF IInv
<1>1. ASSUME NEW r \in Requests,
             OpenCanvas(r) \/ ReachWord(r) \/ RefreshAbandoned(r) \/ ActionDone(r)
      PROVE  OwnerInv'
  <2>1. UNCHANGED <<Displayed, inFlight, timer, shutdown, current, built, strays, cacheOf>>
    BY <1>1 DEF OpenCanvas, ReachWord, RefreshAbandoned, ActionDone, Displayed
  <2>2. pc[r] # "closing" /\ \E step : pc' = [pc EXCEPT ![r] = step]
    BY <1>1 DEF OpenCanvas, ReachWord, RefreshAbandoned, ActionDone, Start, Goto
  <2>3. \A s \in Requests : Using(s)' => Using(s)
    BY <1>0, <1>1 DEF OpenCanvas, ReachWord, RefreshAbandoned, ActionDone, Start, Goto,
       Using, UsingCache, TypeOK
  <2>4. \A k \in Caches : word'[k] = "up" =>
             word[k] = "up" \/ \E s \in Requests : Using(s) /\ cacheOf[s] = k
    BY <1>0, <1>1 DEF OpenCanvas, ReachWord, RefreshAbandoned, ActionDone, Using,
       UsingCache, TypeOK
  <2>5. current # NoCache => Live \in Caches
    BY <1>0 DEF Live, TypeOK
  <2>6. current' # NoCache /\ InUse(Live)' => InUse(Live)
    BY <2>1, <2>3, <2>4, <2>5 DEF InUse, Live
  <2>7. Owned => Owned'
    BY <1>0, <2>1, <2>2, OwnedFrame
  <2> QED
    BY <2>1, <2>6, <2>7 DEF OwnerInv, Live, IInv
<1>2. ASSUME NEW r \in Requests, PathResolved(r) \/ Export(r) \/ RefreshPanel(r)
      PROVE  OwnerInv'
  <2>1. UNCHANGED <<Displayed, inFlight, timer, shutdown, word>>
    BY <1>2 DEF PathResolved, Export, RefreshPanel, Displayed
  <2>2. pc[r] # "closing" /\ \E step : pc' = [pc EXCEPT ![r] = step]
    BY <1>2 DEF PathResolved, Export, RefreshPanel, Start, Goto
  <2>3. \A s \in Requests : s # r => (Using(s)' => Using(s)) /\ cacheOf'[s] = cacheOf[s]
    BY <1>0, <1>2 DEF PathResolved, Export, RefreshPanel, Start, Goto, AskForCache,
       Using, TypeOK
  <2>4. Owned => Owned'
    BY <1>0, <2>1, <2>2, OwnedFrame
  <2>5. CASE Get /\ \E q : Claim(q)
    <3>1. Displayed # {} \/ Live \in strays'
      BY <2>5 DEF Claim
    <3>2. Owned' \/ Live \in strays'
      BY <2>1, <3>1 DEF Owned
    <3>3. strays \subseteq strays' /\ current' = Live /\ Live' = Live
      BY <1>0, <2>5, GetFacts DEF Claim, Live
    <3> QED
      BY <1>0, <2>4, <3>2, <3>3, OwnerFrame
  <2>6. CASE UNCHANGED <<cacheOf, current, built, strays>> /\ Goto(r, "done")
    <3>1. ~Using(r)'
      BY <1>0, <2>6 DEF Goto, Using, UsingCache, TypeOK
    <3>2. InUse(current)' => InUse(current)
      BY <2>1, <2>3, <2>6, <3>1 DEF InUse
    <3> QED
      BY <2>4, <2>6, <3>2 DEF IInv, OwnerInv
  <2> QED
    BY <1>2, <2>5, <2>6 DEF PathResolved, Export, RefreshPanel, AskForCache
<1>3. ASSUME NEW r \in Requests, PanelAction(r) \/ StartTool(r) \/ RefreshAfterEdit(r)
      PROVE  OwnerInv'
  <2>1. Get /\ strays' = strays
    BY <1>3 DEF PanelAction, StartTool, RefreshAfterEdit, AskForCache
  <2>2. ASSUME PanelAction(r) PROVE Owned'
    BY <2>2 DEF PanelAction, Displayed, Owned
  <2>3. ASSUME StartTool(r) PROVE Owned'
    BY <1>0, <2>3 DEF StartTool, Owned, TypeOK
  <2>4. ASSUME RefreshAfterEdit(r) PROVE Owned'
    <3>1. inFlight # 0
      BY <2>4, CountedTools DEF RefreshAfterEdit, ToolsRunning
    <3> QED
      BY <1>0, <2>4, <3>1 DEF RefreshAfterEdit, Owned, TypeOK
  <2>5. Owned'
    BY <1>3, <2>2, <2>3, <2>4
  <2> QED
    BY <2>5 DEF OwnerInv
<1>4. ASSUME NEW r \in Requests, PanelDone(r) PROVE OwnerInv'
  <2>1. UNCHANGED <<Displayed, inFlight, timer, shutdown, word, cacheOf, strays>>
    BY <1>4 DEF PanelDone, Displayed
  <2>2. pc[r] # "closing" /\ pc' = [pc EXCEPT ![r] = "done"]
    BY <1>4 DEF PanelDone, Goto
  <2>3. \A s \in Requests : Using(s)' => Using(s)
    BY <1>0, <2>2 DEF Using, UsingCache, TypeOK
  <2>4. Owned => Owned'
    BY <1>0, <2>1, <2>2, OwnedFrame
  <2>5. CASE Get
    <3>1. current' = Live /\ Live' = Live
      BY <1>0, <2>5, GetFacts DEF Live
    <3>2. InUse(Live)' => InUse(Live)
      BY <2>1, <2>3, <3>1 DEF InUse
    <3> QED
      BY <1>0, <2>1, <2>4, <3>1, <3>2, OwnerFrame
  <2>6. CASE UNCHANGED slotVars
    <3>1. InUse(current)' => InUse(current)
      BY <2>1, <2>3, <2>6 DEF InUse
    <3> QED
      BY <2>1, <2>4, <2>6, <3>1 DEF IInv, OwnerInv
  <2> QED
    BY <1>4, <2>5, <2>6 DEF PanelDone
<1>5. ASSUME NEW r \in Requests, PanelStarted(r) \/ EndTool(r) \/ CloseCanvas(r)
      PROVE  OwnerInv'
  <2>1. ASSUME PanelStarted(r) PROVE Owned'
    <3>1. id[r] \in Ids /\ instances' = [instances EXCEPT ![id[r]] = r] /\ r # None
      BY <1>0, <2>1, LifecycleAssumption DEF PanelStarted, PanelInv
    <3>2. r \in Displayed'
      BY <1>0, <3>1 DEF Displayed, TypeOK
    <3> QED
      BY <3>2 DEF Owned
  <2>2. ASSUME EndTool(r) PROVE Owned'
    <3>1. Displayed' = Displayed /\ inFlight' = inFlight - 1
          /\ timer' = (Displayed = {} /\ inFlight' = 0)
      BY <1>0, <2>2 DEF EndTool, Schedule, Displayed, TypeOK
    <3>2. CASE Displayed = {} /\ inFlight' = 0
      BY <3>1, <3>2 DEF Owned
    <3>3. CASE Displayed # {}
      BY <3>1, <3>3 DEF Owned
    <3>4. CASE inFlight' # 0
      <4>1. inFlight' > 0
        BY <1>0, <3>4 DEF TypeOK
      <4> QED
        BY <4>1 DEF Owned
    <3> QED
      BY <3>2, <3>3, <3>4
  <2>3. ASSUME CloseCanvas(r) PROVE Owned'
    <3>1. pc'[r] = "closing"
      BY <1>0, <2>3 DEF CloseCanvas, Start, TypeOK
    <3> QED
      BY <3>1 DEF Owned
  <2>4. Owned'
    BY <1>5, <2>1, <2>2, <2>3
  <2> QED
    BY <2>4 DEF OwnerInv
<1>6. ASSUME (\E r \in Requests : PanelClosed(r)) \/ TimerFires \/ ShutdownDisposes
      PROVE  OwnerInv'
  <2>1. Dispose \/ Displayed' # {} \/ inFlight' > 0
    BY <1>0, <1>6 DEF PanelClosed, TimerFires, ShutdownDisposes, Displayed, TypeOK
  <2> QED
    BY <2>1 DEF OwnerInv, Owned, Dispose
<1>7. CASE \E k \in Caches : DisposalEnds(k)
  <2>1. /\ UNCHANGED <<Displayed, inFlight, timer, shutdown, pc, cacheOf, current, strays>>
        /\ \A k \in Caches : word'[k] = "up" => word[k] = "up"
    BY <1>0, <1>7 DEF DisposalEnds, Displayed, TypeOK
  <2>2. Owned' = Owned
    BY <2>1 DEF Owned
  <2>3. current # NoCache => (InUse(current)' => InUse(current))
    BY <1>0, <2>1 DEF InUse, Using, TypeOK
  <2> QED
    BY <2>1, <2>2, <2>3 DEF IInv, OwnerInv
<1>8. CASE BeginShutdown
  BY <1>8 DEF BeginShutdown, OwnerInv, Owned
<1>9. CASE ShutdownEnds
  <2>1. /\ UNCHANGED <<Displayed, inFlight, timer, pc, cacheOf, current, strays>>
        /\ \A k \in Caches : word'[k] = "up" => word[k] = "up"
        /\ shutdown # "closing"
    BY <1>0, <1>9 DEF ShutdownEnds, Displayed, TypeOK
  <2>2. Owned => Owned'
    BY <2>1 DEF Owned
  <2>3. current # NoCache => (InUse(current)' => InUse(current))
    BY <1>0, <2>1 DEF InUse, Using, TypeOK
  <2> QED
    BY <2>1, <2>2, <2>3 DEF IInv, OwnerInv
<1> QED
  BY <1>1, <1>2, <1>3, <1>4, <1>5, <1>6, <1>7, <1>8, <1>9
  DEF Next, Arrive, Continue, EndProcess

-----------------------------------------------------------------------------
(* What shutdown() waits for.                                              *)

\* A cache retired after shutdown() disposed the slot was built after that, too.
LEMMA EndFrame ==
  ASSUME IInv, UNCHANGED endVars,
         \/ Get \/ Dispose \/ UNCHANGED slotVars
         \/ \E k \in Caches : DisposalEnds(k)
  PROVE  EndInv'
<1> USE LifecycleAssumption DEF NoCache, Caches, slotVars, endVars
<1>1. CASE Get
  BY <1>1 DEF IInv, TypeOK, SlotInv, EndInv, Get, Live
<1>2. CASE Dispose
  BY <1>2 DEF IInv, TypeOK, SlotInv, EndInv, Dispose
<1>3. CASE UNCHANGED slotVars
  BY <1>3 DEF IInv, EndInv
<1>4. CASE \E k \in Caches : DisposalEnds(k)
  BY <1>4 DEF IInv, TypeOK, EndInv, DisposalEnds
<1> QED
  BY <1>1, <1>2, <1>3, <1>4

\* What shutdown() has waited for stays gone.
LEMMA EndStep ==
  ASSUME IInv, Next
  PROVE  EndInv'
<1> USE DEF slotVars, endVars
<1>1. ASSUME NEW r \in Requests, Arrive(r) \/ Continue(r) \/ RefreshAfterEdit(r)
      PROVE  EndInv'
  <2>1. UNCHANGED endVars /\ (Get \/ Dispose \/ UNCHANGED slotVars)
    BY <1>1 DEF Arrive, Continue, OpenCanvas, PanelStarted, PathResolved, RefreshPanel,
       ReachWord, Export, PanelDone, RefreshAbandoned, PanelAction, ActionDone,
       StartTool, RefreshAfterEdit, EndTool, CloseCanvas, PanelClosed, AskForCache
  <2> QED
    BY <2>1, EndFrame
<1>2. CASE TimerFires
  BY <1>2, EndFrame DEF TimerFires
<1>3. CASE \E k \in Caches : DisposalEnds(k)
  BY <1>3, EndFrame DEF DisposalEnds
<1>4. CASE BeginShutdown
  BY <1>4 DEF BeginShutdown, EndInv
<1>5. CASE ShutdownDisposes
  BY <1>5, LifecycleAssumption
  DEF ShutdownDisposes, Dispose, IInv, TypeOK, SlotInv, EndInv, NoCache, Caches
<1>6. CASE ShutdownEnds
  BY <1>6 DEF ShutdownEnds, IInv, EndInv
<1> QED
  BY <1>1, <1>2, <1>3, <1>4, <1>5, <1>6 DEF Next, EndProcess

-----------------------------------------------------------------------------
(* The theorems.                                                           *)

\* Every step preserves the invariant.
LEMMA InvStep == IInv /\ [Next]_vars => IInv'
<1> SUFFICES ASSUME IInv, [Next]_vars PROVE IInv'
  OBVIOUS
<1>1. CASE Next
  <2>1. CountInv'
    <3>1. ASSUME NEW r \in Requests, Arrive(r) \/ Continue(r) PROVE CountInv'
      BY <3>1, CountStep
    <3>2. ASSUME ~(\E r \in Requests : Arrive(r) \/ Continue(r)) PROVE CountInv'
      BY <1>1, <3>2 DEF Next, RefreshAfterEdit, DisposalEnds, TimerFires, EndProcess,
         BeginShutdown, ShutdownDisposes, ShutdownEnds, callVars, IInv, CountInv,
         ToolsRunning
    <3> QED
      BY <3>1, <3>2
  <2> QED
    BY <1>1, <2>1, TypeStep, SlotStep, PanelStep, UseStep, OwnerStep, EndStep DEF IInv
<1>2. CASE UNCHANGED vars
  BY <1>2 DEF vars, slotVars, panelVars, callVars, endVars, IInv, TypeOK, CountInv,
     ToolsRunning, SlotInv, Using, PanelInv, Own, Displayed, UseInv, Protected,
     OwnerInv, InUse, Owned, EndInv
<1> QED
  BY <1>1, <1>2

\* The inductive invariant holds in every reachable state.
THEOREM Invariant == Spec => []IInv
  BY InvInit, InvStep, PTL DEF Spec

\* Every variable keeps its type; above all, the counter never goes negative.
THEOREM TypeCorrect == Spec => []TypeOK
<1>1. IInv => TypeOK
  BY DEF IInv
<1> QED
  BY <1>1, Invariant, PTL

\* The idle timer, a closing canvas and the slot together never let Word go under
\* a tool call or under a displayed panel.
THEOREM UsersKeepWord == Spec => []WordOutlivesItsUse
<1>1. IInv => WordOutlivesItsUse
  BY DEF IInv, SlotInv, UseInv, Protected, Using, WordOutlivesItsUse
<1> QED
  BY <1>1, Invariant, PTL

\* No Word is left in the slot without somebody who lets it go, except on behalf
\* of a panel that had left the map.
THEOREM WordIsOwned == Spec => []WordHasAnOwner
<1>1. IInv => WordHasAnOwner
  BY DEF IInv, OwnerInv, InUse, WordHasAnOwner
<1> QED
  BY <1>1, Invariant, PTL

\* When shutdown() is over, no Word of a cache built before it disposed the slot
\* is still running.
THEOREM ShutdownIsComplete == Spec => []ShutdownWaitsForWord
<1>1. ASSUME IInv, shutdown = "over", NEW k \in 1..early PROVE word[k] # "up"
  <2>1. k \in 1..built /\ k # current /\ k \notin retiring
    BY <1>1 DEF IInv, TypeOK, EndInv, NoCache, Caches
  <2> QED
    BY <1>1, <2>1 DEF IInv, SlotInv
<1>2. IInv => ShutdownWaitsForWord
  BY <1>1 DEF ShutdownWaitsForWord
<1> QED
  BY <1>2, Invariant, PTL
=============================================================================
