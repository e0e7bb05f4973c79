---------------------------- MODULE WordHostProofs ----------------------------
(***************************************************************************)
(* Proofs about the Word host as Node sees it, for every value of the      *)
(* constants: first the bridge (WordHost), then the three tools that end   *)
(* in its commands (DocumentTools).                                        *)
(***************************************************************************)
EXTENDS WordHost, DocumentTools, SequenceTheorems, TLAPS

\* What is inductive.  An actor that is not under way rests; as long as no
\* child was let go of, every process that is left is the current child; and a
\* host that is past its quit is disposed, in the end without a child.
Resting ==
    /\ \A r \in Requests : stage[r] \in {"idle", "done"} => at[r] = "resting"
    /\ phase = "no" => at[Disposer] = "resting"

OnlyChild == ~killed => \A k \in Children : proc[k] # "none" => k = child

Over ==
    /\ phase \in {"exiting", "done"} => disposed
    /\ phase = "done" => child = NoChild

IInv == TypeOK /\ Resting /\ OnlyChild /\ PidIsNotRecycled /\ Over

\* The part of IInv that sending a frame can disturb, after the step.
Sound ==
    /\ child \in 0..MaxChildren /\ starting \in BOOLEAN
    /\ pending \in [Actors -> 0..MaxChildren]
    /\ at \in [Actors -> {"resting", "booting", "started", "waiting"} \cup Outcomes]
    /\ proc \in [Children -> {"none", "alive", "ended"}]
    /\ lines \in [Children -> Seq(Frame)]
    /\ docs \in SUBSET Children /\ killed \in BOOLEAN /\ deaths \in 0..MaxDeaths
    /\ \A a \in Actors : at[a] = "waiting" <=> pending[a] # NoChild
    /\ OnlyChild

\* What a frame leaves alone: processes do not vanish, other actors stay where
\* they are, and a disposed host gets no child.
Modest(a) ==
    /\ \A k \in Children : proc[k] # "none" => proc'[k] # "none"
    /\ \A b \in Actors \ {a, Starter} : at'[b] = at[b]
    /\ disposed => child' = child /\ proc' = proc /\ pending' = pending

-----------------------------------------------------------------------------
(* Sending a frame.                                                        *)

\* The initial state.
LEMMA InitHolds == Init => IInv
<1> SUFFICES ASSUME Init PROVE IInv
  OBVIOUS
<1> USE HostAssumption DEF Init, NoChild, Actors, Children, Outcomes
<1>1. lines \in [Children -> Seq(Frame)]
  <2>1. <<>> \in Seq(Frame)
    OBVIOUS
  <2> QED
    BY <2>1
<1>2. TypeOK
  <2>1. /\ child \in 0..MaxChildren /\ ownedPid \in 0..MaxChildren
        /\ deaths \in 0..MaxDeaths
    OBVIOUS
  <2>2. /\ pending \in [Actors -> 0..MaxChildren]
        /\ \A a \in Actors : at[a] = "waiting" <=> pending[a] # NoChild
    OBVIOUS
  <2>3. /\ stage \in [Requests -> Stages]
        /\ proc \in [Children -> {"none", "alive", "ended"}]
    BY DEF Stages
  <2> QED
    BY <1>1, <2>1, <2>2, <2>3 DEF TypeOK
<1>3. Resting /\ OnlyChild /\ PidIsNotRecycled /\ Over
  BY DEF Resting, OnlyChild, PidIsNotRecycled, Over
<1> QED
  BY <1>2, <1>3 DEF IInv

\* Writing to the current child, or failing to.
LEMMA WriteStep ==
  ASSUME IInv, NEW a \in Actors, a # Starter, NEW command \in Commands, at[a] # "waiting",
         Write(a, command), UNCHANGED <<child, starting, proc, docs, deaths, killed>>
  PROVE  Sound' /\ (disposed /\ child = NoChild => pending' = pending)
         /\ \A b \in Actors \ {a, Starter} : at'[b] = at[b]
<1> USE DEF NoChild, Children
<1>1. TypeOK /\ OnlyChild
  BY DEF IInv
<1>2. CASE child = NoChild
  BY <1>1, <1>2 DEF Write, Settle, Sound, TypeOK, OnlyChild, Outcomes
<1>3. CASE child # NoChild
  <2>1. child \in Children
    BY <1>1, <1>3 DEF TypeOK
  <2>2. [from |-> a, command |-> command] \in Frame
    BY DEF Frame
  <2>3. \A f \in Frame : Append(lines[child], f) \in Seq(Frame)
    BY <1>1, <2>1 DEF TypeOK
  <2>4. lines' \in [Children -> Seq(Frame)]
    BY <1>1, <1>3, <2>2, <2>3 DEF Write, TypeOK
  <2> QED
    BY <1>1, <1>3, <2>1, <2>4 DEF Write, Sound, TypeOK, OnlyChild, Outcomes
<1> QED
  BY <1>2, <1>3

\* A start.
LEMMA SpawnStep ==
  ASSUME IInv, NEW a \in Actors, a # Starter, at[a] # "waiting", child = NoChild,
         Spawn(a), UNCHANGED <<docs, deaths, killed>>
  PROVE  /\ Sound'
         /\ \A k \in Children : proc[k] # "none" => proc'[k] # "none"
         /\ \A b \in Actors \ {a, Starter} : at'[b] = at[b]
<1> USE DEF NoChild, Children
<1>1. TypeOK /\ OnlyChild
  BY DEF IInv
<1>2. PICK new \in Children :
        /\ proc[new] = "none"
        /\ child' = new /\ starting' = TRUE
        /\ proc' = [proc EXCEPT ![new] = "alive"]
        /\ lines' = [lines EXCEPT ![new] = <<[from |-> Starter, command |-> "ping"]>>]
        /\ pending' = [pending EXCEPT ![Starter] = new]
        /\ at' = [at EXCEPT ![Starter] = "waiting", ![a] = "booting"]
  BY DEF Spawn
<1>3. <<[from |-> Starter, command |-> "ping"]>> \in Seq(Frame)
  BY DEF Frame, Commands, Actors
<1>4. ~killed => \A k \in Children : proc[k] = "none"
  BY <1>1 DEF OnlyChild
<1>5. OnlyChild'
  BY <1>1, <1>2, <1>4 DEF OnlyChild, TypeOK
<1>6. \A b \in Actors : at'[b] = "waiting" <=> pending'[b] # NoChild
  BY <1>1, <1>2, HostAssumption DEF TypeOK, Actors
<1> QED
  BY <1>1, <1>2, <1>3, <1>5, <1>6, HostAssumption DEF Sound, TypeOK, Actors

\* A frame, whichever way it goes.
LEMMA SendStep ==
  ASSUME IInv, NEW a \in Actors, a # Starter, NEW command \in Commands, at[a] # "waiting",
         Send(a, command)
  PROVE  Sound' /\ Modest(a)
<1>1. TypeOK /\ OnlyChild
  BY DEF IInv
<1>2. UNCHANGED <<docs, deaths, killed>>
  BY DEF Send
<1>3. CASE /\ disposed /\ Settle(a, "lost")
           /\ UNCHANGED <<pending, lines, child, starting, proc>>
  <2>1. at' = [at EXCEPT ![a] = "lost"]
    BY <1>3 DEF Settle
  <2> QED
    BY <1>1, <1>2, <1>3, <2>1 DEF Sound, Modest, TypeOK, OnlyChild, Outcomes
<1>4. CASE /\ ~disposed /\ child # NoChild /\ Write(a, command)
           /\ UNCHANGED <<child, starting, proc>>
  BY <1>2, <1>4, WriteStep DEF Modest
<1>5. CASE /\ ~disposed /\ child = NoChild /\ starting
           /\ at' = [at EXCEPT ![a] = "booting"]
           /\ UNCHANGED <<pending, lines, child, starting, proc>>
  BY <1>1, <1>2, <1>5 DEF Sound, Modest, TypeOK, OnlyChild
<1>6. CASE ~disposed /\ child = NoChild /\ ~starting /\ Spawn(a)
  BY <1>2, <1>6, SpawnStep DEF Modest
<1> QED
  BY <1>3, <1>4, <1>5, <1>6 DEF Send

-----------------------------------------------------------------------------
(* The invariant, one action at a time.                                    *)

\* What is left to show of IInv of an action that changes, of the state in
\* Sound, only what a frame changes.
LEMMA Assemble ==
  ASSUME Sound', ownedPid' \in 0..MaxChildren, disposed' \in BOOLEAN, openArgs' \in BOOLEAN,
         stage' \in [Requests -> Stages], phase' \in {"no", "quitting", "exiting", "done"},
         Resting', PidIsNotRecycled', Over'
  PROVE  IInv'
  BY DEF Sound, IInv, TypeOK

\* Going on to another frame, or settling.
LEMMA GoStep ==
  ASSUME IInv, NEW r \in Requests, NEW s \in Stages \ {"idle", "done"}, at[r] # "waiting",
         Go(r, s), UNCHANGED <<ownedPid, disposed, phase>>, openArgs' \in BOOLEAN
  PROVE  IInv'
<1> USE HostAssumption DEF Actors
<1>1. TypeOK /\ Resting /\ PidIsNotRecycled /\ Over
  BY DEF IInv
<1>2. FrameOf(s) \in Commands /\ Send(r, FrameOf(s)) /\ stage' = [stage EXCEPT ![r] = s]
  BY DEF Go, FrameOf, Commands, Stages, AllKinds
<1>3. Sound' /\ Modest(r)
  BY <1>2, SendStep
<1>4. stage' \in [Requests -> Stages] /\ \A q \in Requests \ {r} : stage'[q] = stage[q]
  BY <1>1, <1>2 DEF TypeOK
<1>5. Resting'
  BY <1>1, <1>2, <1>3, <1>4 DEF Resting, Modest, TypeOK
<1>6. PidIsNotRecycled' /\ Over'
  BY <1>1, <1>3 DEF PidIsNotRecycled, Over, Modest, TypeOK, NoChild, Children
<1> QED
  BY <1>1, <1>3, <1>4, <1>5, <1>6, Assemble DEF TypeOK

\* A call settles.
LEMMA DoneStep ==
  ASSUME IInv, NEW r \in Requests, at[r] # "waiting", Done(r),
         UNCHANGED <<ownedPid, disposed, phase>>, openArgs' \in BOOLEAN
  PROVE  IInv'
<1> USE HostAssumption DEF Actors, childVars
<1>1. TypeOK /\ Resting /\ OnlyChild /\ PidIsNotRecycled /\ Over
  BY DEF IInv
<1>2. /\ at' = [at EXCEPT ![r] = "resting"] /\ stage' = [stage EXCEPT ![r] = "done"]
      /\ UNCHANGED <<pending, child, starting, proc, lines, docs, deaths, killed>>
  BY DEF Done
<1>3. stage' \in [Requests -> Stages]
  BY <1>1, <1>2 DEF TypeOK, Stages
<1>4. Sound'
  BY <1>1, <1>2 DEF Sound, TypeOK, OnlyChild
<1>5. Resting'
  BY <1>1, <1>2 DEF Resting, TypeOK
<1> QED
  BY <1>1, <1>2, <1>3, <1>4, <1>5, Assemble DEF PidIsNotRecycled, Over, TypeOK

\* A call is made.
LEMMA BeginStep ==
  ASSUME IInv, NEW r \in Requests, NEW k \in Kinds, Begin(r, k)
  PROVE  IInv'
<1>1. k \in Stages \ {"idle", "done"}
  BY HostAssumption DEF Stages, AllKinds
<1>2. at[r] # "waiting" /\ openArgs' \in BOOLEAN
  BY DEF IInv, Begin, Resting, TypeOK
<1> QED
  BY <1>1, <1>2, GoStep, DoneStep DEF Begin

\* A call goes on.
LEMMA ContinueStep ==
  ASSUME IInv, NEW r \in Requests, Continue(r)
  PROVE  IInv'
<1> USE HostAssumption
<1>1. TypeOK /\ Resting
  BY DEF IInv
<1>2. {"learn", "reopen", "reping", "again"} \subseteq Stages \ {"idle", "done"}
  BY DEF Stages, AllKinds
<1>3. "waiting" \notin Outcomes
  BY DEF Outcomes
<1>4. CASE Resume(r)
  <2>1. /\ at[r] = "started" /\ stage[r] \notin {"idle", "done"}
        /\ Write(r, FrameOf(stage[r]))
        /\ UNCHANGED <<openArgs, stage, child, starting, proc, docs, deaths, killed>>
        /\ UNCHANGED <<ownedPid, disposed, phase>>
    BY <1>1, <1>4 DEF Resume, Resting, fieldVars
  <2>2. FrameOf(stage[r]) \in Commands
    BY <1>1, <2>1 DEF FrameOf, Commands, Stages, AllKinds, TypeOK
  <2>3. Sound' /\ \A b \in Actors \ {r, Starter} : at'[b] = at[b]
    BY <2>1, <2>2, WriteStep DEF Actors
  <2>4. Resting'
    BY <1>1, <2>1, <2>3 DEF Resting, Actors
  <2>5. PidIsNotRecycled' /\ Over'
    BY <2>1 DEF IInv, PidIsNotRecycled, Over
  <2> QED
    BY <1>1, <2>1, <2>3, <2>4, <2>5, Assemble DEF TypeOK
<1>5. CASE Opened(r)
  BY <1>2, <1>5, GoStep, DoneStep DEF Opened
<1>6. CASE Recover(r)
  <2>1. at[r] # "waiting" /\ openArgs' \in BOOLEAN
    BY <1>1, <1>3, <1>6 DEF Recover, TypeOK
  <2> QED
    BY <1>2, <1>6, <2>1, GoStep DEF Recover
<1>7. CASE Return(r)
  <2>1. at[r] # "waiting" /\ openArgs' \in BOOLEAN
    BY <1>1, <1>3, <1>7 DEF Return, TypeOK
  <2> QED
    BY <1>7, <2>1, DoneStep DEF Return
<1> QED
  BY <1>4, <1>5, <1>6, <1>7 DEF Continue

\* The start is over.
LEMMA StartEndsStep ==
  ASSUME IInv, StartEnds
  PROVE  IInv'
<1> USE HostAssumption DEF Actors, childVars, NoChild
<1>1. TypeOK /\ Resting /\ OnlyChild /\ PidIsNotRecycled /\ Over
  BY DEF IInv
<1>2. Sound'
  BY <1>1 DEF StartEnds, Sound, TypeOK, OnlyChild, Outcomes
<1>3. Resting'
  BY <1>1 DEF StartEnds, Resting, TypeOK
<1> QED
  BY <1>1, <1>2, <1>3, Assemble DEF StartEnds, PidIsNotRecycled, Over, TypeOK

\* dispose() begins.
LEMMA DisposeStep ==
  ASSUME IInv, Dispose
  PROVE  IInv'
<1> USE HostAssumption DEF Actors, NoChild, Children
<1>1. TypeOK /\ Resting /\ OnlyChild /\ PidIsNotRecycled /\ Over
  BY DEF IInv
<1>2. /\ phase = "no" /\ at[Disposer] = "resting" /\ openArgs' = FALSE
      /\ UNCHANGED stage
  BY <1>1 DEF Dispose, Resting
<1>3. CASE /\ child = NoChild
           /\ disposed' = TRUE /\ ownedPid' = NoChild /\ phase' = "done"
           /\ UNCHANGED <<child, starting, actorVars, childVars>>
  <2>1. Sound'
    BY <1>1, <1>3 DEF Sound, TypeOK, OnlyChild, actorVars, childVars
  <2>2. Resting' /\ PidIsNotRecycled' /\ Over'
    BY <1>1, <1>2, <1>3 DEF Resting, PidIsNotRecycled, Over, actorVars
  <2> QED
    BY <1>1, <1>2, <1>3, <2>1, <2>2, Assemble DEF TypeOK
<1>4. CASE /\ child # NoChild
           /\ phase' = "quitting"
           /\ Send(Disposer, "quit")
           /\ UNCHANGED <<disposed, ownedPid>>
  <2>1. Sound' /\ Modest(Disposer)
    BY <1>2, <1>4, SendStep DEF Commands
  <2>2. Resting'
    BY <1>1, <1>2, <1>4, <2>1 DEF Resting, Modest
  <2>3. PidIsNotRecycled' /\ Over'
    BY <1>1, <1>4, <2>1 DEF PidIsNotRecycled, Over, Modest, TypeOK
  <2> QED
    BY <1>1, <1>2, <1>4, <2>1, <2>2, <2>3, Assemble DEF TypeOK
<1> QED
  BY <1>3, <1>4 DEF Dispose

\* The quit has settled.
LEMMA QuitSettledStep ==
  ASSUME IInv, QuitSettled
  PROVE  IInv'
<1> USE HostAssumption DEF Actors, NoChild, childVars
<1>1. TypeOK /\ Resting /\ OnlyChild /\ PidIsNotRecycled /\ Over
  BY DEF IInv
<1>2. phase \in {"quitting", "exiting", "done"}
  BY <1>1 DEF QuitSettled, Resting, TypeOK, Outcomes
<1>3. Sound'
  BY <1>1 DEF QuitSettled, Sound, TypeOK, OnlyChild, Outcomes
<1>4. Resting'
  BY <1>1 DEF QuitSettled, Resting, TypeOK
<1>5. PidIsNotRecycled' /\ Over'
  BY <1>1 DEF QuitSettled, PidIsNotRecycled, Over
<1> QED
  BY <1>1, <1>3, <1>4, <1>5, Assemble DEF QuitSettled, TypeOK

\* #kill.  Every process that was there still is.
LEMMA KillStep ==
  ASSUME IInv, Kill
  PROVE  /\ child' = NoChild /\ proc' \in [Children -> {"none", "alive", "ended"}]
         /\ killed' \in BOOLEAN /\ OnlyChild'
         /\ UNCHANGED ownedPid => PidIsNotRecycled'
<1> USE DEF NoChild, Children
<1>1. TypeOK /\ OnlyChild /\ PidIsNotRecycled
  BY DEF IInv
<1>2. /\ child' = NoChild /\ proc' \in [Children -> {"none", "alive", "ended"}]
      /\ killed' \in BOOLEAN
      /\ \A k \in Children : proc'[k] = "none" <=> proc[k] = "none"
  BY <1>1 DEF Kill, TypeOK
<1>3. OnlyChild'
  BY <1>1, <1>2 DEF Kill, OnlyChild, TypeOK
<1> QED
  BY <1>1, <1>2, <1>3 DEF PidIsNotRecycled, TypeOK

\* The last part of dispose(): the child is let go of.
LEMMA DisposeEndsStep ==
  ASSUME IInv, DisposeEnds
  PROVE  IInv'
<1>1. TypeOK /\ Resting /\ Over
  BY DEF IInv
<1>2. Sound' /\ PidIsNotRecycled'
  BY <1>1, KillStep, HostAssumption DEF DisposeEnds, Sound, TypeOK, actorVars, NoChild
<1>3. Resting' /\ Over'
  BY <1>1, KillStep DEF DisposeEnds, Resting, Over, actorVars
<1> QED
  BY <1>1, <1>2, <1>3, Assemble DEF DisposeEnds, TypeOK

\* A timer fires: the entry goes, and the current child with it.
LEMMA TimesOutStep ==
  ASSUME IInv, NEW a \in Actors, TimesOut(a)
  PROVE  IInv'
<1>1. TypeOK /\ Resting /\ Over
  BY DEF IInv
<1>2. /\ at[a] = "waiting" /\ at' = [at EXCEPT ![a] = "lost"]
      /\ pending' = [pending EXCEPT ![a] = NoChild]
  BY <1>1 DEF TimesOut, Settle, TypeOK
<1>3. Sound' /\ PidIsNotRecycled'
  BY <1>1, <1>2, KillStep, HostAssumption DEF TimesOut, Sound, TypeOK, NoChild, Outcomes
<1>4. Resting' /\ Over'
  BY <1>1, <1>2, KillStep DEF TimesOut, Resting, Over, TypeOK, Actors
<1> QED
  BY <1>1, <1>3, <1>4, Assemble DEF TimesOut, TypeOK

\* An answer.  A frame is answered by a process that is still there, so the Word
\* a ping names is not one whose exit has been reported.
LEMMA AnswerStep ==
  ASSUME IInv, NEW k \in Children, Answer(k)
  PROVE  IInv'
<1> USE HostAssumption DEF NoChild, Children
<1>1. TypeOK /\ Resting /\ OnlyChild /\ PidIsNotRecycled /\ Over
  BY DEF IInv
<1> DEFINE frame == Head(lines[k])
           expected == pending[frame.from] = k
<1>2. /\ proc[k] \in {"alive", "ended"} /\ lines[k] # <<>>
      /\ UNCHANGED <<child, starting, disposed, openArgs, stage, phase, deaths, killed>>
  BY DEF Answer
<1>3. lines[k] \in Seq(Frame) /\ frame \in Frame /\ Tail(lines[k]) \in Seq(Frame)
  BY <1>1, <1>2 DEF TypeOK
<1>4. frame.from \in Actors
  BY <1>3 DEF Frame
<1>5. /\ docs' \in {docs, docs \cup {k}, docs \ {k}}
      /\ proc' \in {proc, [proc EXCEPT ![k] = "ended"]}
      /\ lines' \in {[lines EXCEPT ![k] = <<>>], [lines EXCEPT ![k] = Tail(lines[k])]}
      /\ ownedPid' \in {NoChild, k, ownedPid}
  BY <1>1 DEF Answer, TypeOK
<1>6. /\ pending' \in [Actors -> 0..MaxChildren]
      /\ at' \in [Actors -> {"resting", "booting", "started", "waiting"} \cup Outcomes]
      /\ \A a \in Actors : at'[a] = "waiting" <=> pending'[a] # NoChild
      /\ \A a \in Actors : at[a] # "waiting" => at'[a] = at[a]
  <2>1. CASE ~expected
    BY <1>1, <2>1 DEF Answer, actorVars, TypeOK
  <2>2. CASE expected
    <3>1. PICK o \in Outcomes : /\ at' = [at EXCEPT ![frame.from] = o]
                                /\ pending' = [pending EXCEPT ![frame.from] = NoChild]
      BY <2>2 DEF Answer, Settle, Replies, Outcomes
    <3>2. at[frame.from] = "waiting"
      BY <1>1, <1>4, <2>2 DEF TypeOK
    <3> QED
      BY <1>1, <1>4, <3>1, <3>2 DEF TypeOK, Outcomes
  <2> QED
    BY <2>1, <2>2
<1>7. Sound'
  <2>1. lines' \in [Children -> Seq(Frame)]
    <3>1. <<>> \in Seq(Frame)
      OBVIOUS
    <3> QED
      BY <1>1, <1>3, <1>5, <3>1 DEF TypeOK
  <2>2. proc' \in [Children -> {"none", "alive", "ended"}] /\ OnlyChild'
    BY <1>1, <1>2, <1>5 DEF TypeOK, OnlyChild
  <2>3. docs' \in SUBSET Children
    BY <1>1, <1>5 DEF TypeOK
  <2> QED
    BY <1>1, <1>2, <1>6, <2>1, <2>2, <2>3 DEF Sound, TypeOK
<1>8. ownedPid' \in 0..MaxChildren /\ PidIsNotRecycled'
  BY <1>1, <1>2, <1>5 DEF PidIsNotRecycled, TypeOK
<1>9. Resting' /\ Over'
  BY <1>1, <1>2, <1>6 DEF Resting, Over, Actors
<1> QED
  BY <1>1, <1>2, <1>7, <1>8, <1>9, Assemble DEF TypeOK

\* A child ends by itself.
LEMMA ChildDiesStep ==
  ASSUME IInv, NEW k \in Children, ChildDies(k)
  PROVE  IInv'
<1> USE HostAssumption DEF NoChild, Children, fieldVars, actorVars
<1>1. TypeOK /\ Resting /\ OnlyChild /\ PidIsNotRecycled /\ Over
  BY DEF IInv
<1>2. Sound'
  BY <1>1 DEF ChildDies, Sound, TypeOK, OnlyChild
<1>3. Resting' /\ PidIsNotRecycled' /\ Over'
  BY <1>1 DEF ChildDies, Resting, PidIsNotRecycled, Over, TypeOK
<1> QED
  BY <1>1, <1>2, <1>3, Assemble DEF ChildDies, TypeOK

\* An exit event.  Without a #kill before it, it is the current child's: no
\* process is left.
LEMMA ExitEventStep ==
  ASSUME IInv, NEW k \in Children, ExitEvent(k)
  PROVE  IInv'
<1> USE HostAssumption DEF NoChild, Children
<1>1. TypeOK /\ Resting /\ OnlyChild /\ PidIsNotRecycled /\ Over
  BY DEF IInv
<1>2. /\ proc[k] = "ended" /\ proc' = [proc EXCEPT ![k] = "none"]
      /\ lines' = [lines EXCEPT ![k] = <<>>] /\ docs' = docs \ {k}
      /\ child' = NoChild /\ ownedPid' = NoChild
      /\ pending' = [a \in Actors |-> NoChild]
      /\ at' = [a \in Actors |-> IF pending[a] # NoChild THEN "lost" ELSE at[a]]
      /\ UNCHANGED <<starting, disposed, openArgs, stage, phase, deaths, killed>>
  BY DEF ExitEvent, Exited, RejectAll
<1>3. <<>> \in Seq(Frame)
  OBVIOUS
<1>4. lines' \in [Children -> Seq(Frame)]
  BY <1>1, <1>2, <1>3 DEF TypeOK
<1>5. OnlyChild'
  BY <1>1, <1>2 DEF OnlyChild, TypeOK
<1>6. Sound'
  BY <1>1, <1>2, <1>4, <1>5 DEF Sound, TypeOK, Outcomes
<1>7. Resting' /\ PidIsNotRecycled' /\ Over'
  BY <1>1, <1>2 DEF Resting, PidIsNotRecycled, Over, TypeOK, Actors
<1> QED
  BY <1>1, <1>2, <1>6, <1>7, Assemble DEF TypeOK

\* Every step preserves the invariant.
LEMMA Step == IInv /\ [Next]_vars => IInv'
<1> SUFFICES ASSUME IInv, [Next]_vars PROVE IInv'
  OBVIOUS
<1>1. CASE UNCHANGED vars
  BY <1>1 DEF vars, fieldVars, actorVars, childVars, IInv, TypeOK, Resting, OnlyChild,
              PidIsNotRecycled, Over
<1>2. CASE Next
  BY <1>2, BeginStep, ContinueStep, StartEndsStep, DisposeStep, QuitSettledStep,
     DisposeEndsStep, TimesOutStep, AnswerStep, ChildDiesStep, ExitEventStep DEF Next
<1> QED
  BY <1>1, <1>2

-----------------------------------------------------------------------------
(* The theorems.                                                           *)

\* What is inductive holds of every reachable state of the bridge.
THEOREM Invariance == Spec => []IInv
  BY InitHolds, Step, PTL DEF Spec

\* Every variable of the bridge keeps its type, and an actor waits for an answer
\* exactly as long as its entry is in #pending.
THEOREM TypeCorrect == Spec => []TypeOK
<1>1. IInv => TypeOK
  BY DEF IInv
<1> QED
  BY <1>1, Invariance, PTL

\* The Word that #onExit or reapOnExit would end belongs to a child whose exit has
\* not been reported yet.
THEOREM PidNotRecycled == Spec => []PidIsNotRecycled
<1>1. IInv => PidIsNotRecycled
  BY DEF IInv
<1> QED
  BY <1>1, Invariance, PTL

\* Until #kill has let go of a child, #ensureStarted keeps to one child, however
\* many calls start it and however often it dies.
THEOREM OneChildOnly == Spec => []OneChildUntilATimeout
<1>1. IInv => OneChildUntilATimeout
  BY DEF IInv, OnlyChild, OneChildUntilATimeout, Alive
<1> QED
  BY <1>1, Invariance, PTL

\* A disposed host refuses every frame in ensureStarted, before it spawns or
\* writes anything.
LEMMA DisposedRefuses ==
  ASSUME NEW a, NEW command, disposed, Send(a, command)
  PROVE  UNCHANGED <<pending, child, proc>>
  BY DEF Send

\* A call goes on, or begins, after dispose() has returned: a call that waited for
\* a start finds no child, everything else is refused.
LEMMA CallsAfterDispose ==
  ASSUME IInv, phase = "done", NEW r \in Requests,
         Continue(r) \/ \E k \in Kinds : Begin(r, k)
  PROVE  UNCHANGED <<pending, child, proc>>
<1>1. disposed /\ child = NoChild
  BY DEF IInv, Over
<1>2. \A s : Go(r, s) => UNCHANGED <<pending, child, proc>>
  BY <1>1, DisposedRefuses DEF Go
<1>3. Done(r) => UNCHANGED <<pending, child, proc>>
  BY DEF Done, childVars
<1>4. Resume(r) => UNCHANGED <<pending, child, proc>>
  BY <1>1 DEF Resume, Write, fieldVars
<1>5. Opened(r) \/ Recover(r) \/ Return(r) => UNCHANGED <<pending, child, proc>>
  BY <1>2, <1>3 DEF Opened, Recover, Return
<1>6. \A k \in Kinds : Begin(r, k) => UNCHANGED <<pending, child, proc>>
  BY <1>2, <1>3 DEF Begin
<1> QED
  BY <1>4, <1>5, <1>6 DEF Continue

\* Once dispose() has returned, no child is spawned and nothing is written to one,
\* not even for a call that was waiting for a start.
THEOREM DisposeFinal == Spec => DisposeIsFinal
<1> DEFINE Final == phase = "done" =>
                      /\ child' = NoChild
                      /\ \A k \in Children : proc[k] = "none" => proc'[k] = "none"
                      /\ \A a \in Actors : pending'[a] \in {pending[a], NoChild}
<1>1. ASSUME IInv, [Next]_vars, phase = "done"
      PROVE  /\ child' = NoChild
             /\ \A k \in Children : proc[k] = "none" => proc'[k] = "none"
             /\ \A a \in Actors : pending'[a] \in {pending[a], NoChild}
  <2>1. TypeOK /\ disposed /\ child = NoChild
    BY <1>1 DEF IInv, Over
  <2>2. CASE UNCHANGED <<pending, child, proc>>
    BY <2>1, <2>2
  <2>3. ASSUME UNCHANGED vars PROVE UNCHANGED <<pending, child, proc>>
    BY <2>3 DEF vars, fieldVars, actorVars, childVars
  <2>4. ASSUME NEW r \in Requests, Continue(r) \/ \E k \in Kinds : Begin(r, k)
        PROVE  UNCHANGED <<pending, child, proc>>
    BY <1>1, <2>4, CallsAfterDispose
  <2>5. ASSUME StartEnds PROVE UNCHANGED <<pending, child, proc>>
    BY <2>5 DEF StartEnds, childVars
  <2>6. ASSUME QuitSettled PROVE UNCHANGED <<pending, child, proc>>
    BY <2>6 DEF QuitSettled, childVars
  <2>7. ~Dispose /\ ~DisposeEnds
    BY <1>1 DEF Dispose, DisposeEnds
  <2>8. ASSUME NEW a \in Actors, TimesOut(a)
        PROVE  /\ child' = NoChild
               /\ \A k \in Children : proc[k] = "none" => proc'[k] = "none"
               /\ \A b \in Actors : pending'[b] \in {pending[b], NoChild}
    BY <2>1, <2>8 DEF TimesOut, Kill, TypeOK
  <2>9. ASSUME NEW k \in Children, Answer(k) \/ ChildDies(k) \/ ExitEvent(k)
        PROVE  /\ child' = NoChild
               /\ \A j \in Children : proc[j] = "none" => proc'[j] = "none"
               /\ \A b \in Actors : pending'[b] \in {pending[b], NoChild}
    <3>1. CASE Answer(k)
      BY <2>1, <3>1 DEF Answer, actorVars, TypeOK
    <3>2. CASE ChildDies(k)
      BY <2>1, <3>2 DEF ChildDies, fieldVars, actorVars, TypeOK
    <3>3. CASE ExitEvent(k)
      BY <2>1, <3>3 DEF ExitEvent, Exited, RejectAll, TypeOK
    <3> QED
      BY <2>9, <3>1, <3>2, <3>3
  <2>10. CASE UNCHANGED vars
    BY <2>2, <2>3, <2>10
  <2>11. CASE Next
    BY <2>2, <2>4, <2>5, <2>6, <2>7, <2>8, <2>9, <2>11 DEF Next
  <2> QED
    BY <1>1, <2>10, <2>11
<1>2. IInv /\ [Next]_vars => [Final]_vars
  BY <1>1
<1> QED
  BY <1>2, Invariance, PTL DEF Spec, DisposeIsFinal
-----------------------------------------------------------------------------
(* The tools: what is inductive.                                           *)

\* The steps of a read, and those of an edit and of a create before they go on to one.
ReadSteps == {"before", "fetch", "after"}
EditSteps == {"file", "edit"}
CreateSteps == {"exists", "create", "build", "look", "save", "clean", "verify"}

\* A call has written nothing so far; it has written a whole document.
Unwritten(c) == \A i \in DOMAIN written : written[i].by # c
Wrote(c) == \E i \in DOMAIN written : written[i].by = c /\ written[i].doc # Damaged

\* The state of a call is a record with the fields it begins with.
CallsAreCalls == DOMAIN call = Calls /\ \A c \in Calls : DOMAIN call[c] = DOMAIN NewCall

\* At which steps a call of each tool can be, and when it reads its document back.
KindFits(c) ==
    /\ step[c] = "idle" => call[c].kind = "none" /\ ~call[c].back
    /\ step[c] \in CreateSteps => call[c].kind = "create" /\ ~call[c].back
    /\ step[c] \in EditSteps => call[c].kind = "edit" /\ ~call[c].back
    /\ step[c] \in ReadSteps =>
          /\ call[c].kind \in {"read", "edit", "create"}
          /\ call[c].kind = "create" => call[c].back
          /\ call[c].kind = "read" => ~call[c].back
    /\ step[c] # "done" => call[c].told = "none"

\* The request of an edit names a paragraph that was shown, or nobody.
AskedOf(c) ==
    \E entry \in Shown \cup {Nobody}, change \in Changes :
        /\ call[c].request = [change EXCEPT !.address = entry.address]
        /\ call[c].shown = entry.text

\* What a call holds of its request, and the paragraph an edit has found in the map.
RequestFits(c) ==
    /\ step[c] \in CreateSteps => call[c].request \in AskedSpecs
    /\ step[c] \in ReadSteps /\ call[c].kind = "read" => call[c].request \in AskedPages
    /\ step[c] \in EditSteps \cup ReadSteps /\ call[c].kind = "edit" /\ ~call[c].back
          => AskedOf(c)
    /\ step[c] = "edit" =>
          call[c].target \in Shown /\ call[c].target.address = call[c].request.address

\* A read goes forward: what it exported was written no earlier than the document its
\* first token is of, and what is at the path no earlier than what it exported.
ReadFits(c) ==
    /\ step[c] \in {"fetch", "after"} =>
          call[c].before \in 1..Len(written) /\ (file = 0 \/ file >= call[c].before)
    /\ step[c] = "after" =>
          /\ call[c].markup \in call[c].before..Len(written)
          /\ file = 0 \/ file >= call[c].markup
          /\ written[call[c].markup].doc # Damaged

\* What a call has written at each step.
WritesFit(c) ==
    /\ step[c] \in {"idle", "exists", "create", "build", "look", "save"} => Unwritten(c)
    /\ step[c] = "verify" => Wrote(c)
    /\ step[c] \in ReadSteps /\ call[c].kind = "create" => Wrote(c)

\* The token and the paragraphs a caller was given are those of a document.
KnownFits ==
    known # None =>
        /\ known.token \in 0..Len(written)
        /\ ToSet(known.map.paragraphs) \subseteq Shown

\* What holds of each call.
CallFits(c) == KindFits(c) /\ RequestFits(c) /\ ReadFits(c) /\ WritesFit(c)

\* The part of CreateReportsAreTrue that is about one call.
ReportIsTrue(c) ==
    call[c].kind = "create" =>
        /\ call[c].told \in {"create_failed", "create_not_persisted", "file_exists",
                             "directory_not_found"}
              => file = 0 \/ written[file].by # c
        /\ call[c].told \in {"done", "unreadable"} => Wrote(c)

\* What is inductive of the tools.
ToolsInv ==
    /\ ToolsTypeOK /\ CallsAreCalls /\ KnownFits
    /\ \A c \in Calls : CallFits(c) /\ ReportIsTrue(c)

\* What a step may do to the file: nothing, take it away, or write it.
Grows(by) ==
    \/ written' = written /\ file' \in {0, file}
    \/ \E doc \in AllDocuments \cup {Damaged} : Put(doc, by)

\* It holds at the start.
LEMMA ToolsInitHolds == ToolsInit => ToolsInv
<1> SUFFICES ASSUME ToolsInit PROVE ToolsInv
  OBVIOUS
<1> USE ToolsAssumption
<1>1. CallsAreCalls
  BY DEF ToolsInit, CallsAreCalls, NewCall
<1>2. \A c \in Calls : KindFits(c) /\ RequestFits(c) /\ ReadFits(c)
  BY DEF ToolsInit, KindFits, RequestFits, ReadFits, NewCall, CreateSteps, EditSteps,
     ReadSteps
<1>3. KnownFits
  BY DEF ToolsInit, KnownFits
<1>4. \A c \in Calls : call[c].current = 0 /\ call[c].before = 0 /\ call[c].markup = 0
  BY DEF ToolsInit, NewCall
<1>5. /\ written \in Seq([doc : AllDocuments \cup {Damaged}, by : Writers])
      /\ file \in 0..Len(written)
      /\ \A i \in DOMAIN written : written[i].by = None
  <2>1. CASE written = <<>> /\ file = 0
    BY <2>1
  <2>2. CASE \E d \in Documents : written = <<[doc |-> d, by |-> None]>> /\ file = 1
    <3>1. PICK d \in Documents : written = <<[doc |-> d, by |-> None]>> /\ file = 1
      BY <2>2
    <3>2. [doc |-> d, by |-> None] \in [doc : AllDocuments \cup {Damaged}, by : Writers]
      BY DEF AllDocuments, Unedited, Writers
    <3> QED
      BY <3>1, <3>2
  <2> QED
    BY <2>1, <2>2 DEF ToolsInit
<1>6. host \in Calls \cup {None} /\ step = [c \in Calls |-> "idle"]
  BY DEF ToolsInit
<1>7. ToolsTypeOK
  <2>1. step \in [Calls -> Steps]
    BY <1>6 DEF Steps
  <2> QED
    BY <1>4, <1>5, <1>6, <2>1 DEF ToolsTypeOK
<1>8. \A c \in Calls : WritesFit(c)
  BY <1>5, <1>6 DEF WritesFit, Unwritten, ReadSteps
<1>9. \A c \in Calls : ReportIsTrue(c)
  BY DEF ToolsInit, NewCall, ReportIsTrue
<1> QED
  BY <1>1, <1>2, <1>3, <1>7, <1>8, <1>9 DEF ToolsInv, CallFits
-----------------------------------------------------------------------------
\* Documents are never taken back, and what is new at the path was just written.
LEMMA FileFacts ==
  ASSUME ToolsTypeOK, NEW by \in Writers, Grows(by)
  PROVE  /\ written' \in Seq([doc : AllDocuments \cup {Damaged}, by : Writers])
         /\ Len(written) \in Nat /\ Len(written') \in Nat /\ Len(written) <= Len(written')
         /\ file' \in 0..Len(written')
         /\ \A i \in DOMAIN written : i \in DOMAIN written' /\ written'[i] = written[i]
         /\ \A i \in DOMAIN written' : i \in DOMAIN written \/ written'[i].by = by
         /\ file' = 0 \/ file' = file \/ (file' > Len(written) /\ written'[file'].by = by)
<1> DEFINE W == [doc : AllDocuments \cup {Damaged}, by : Writers]
<1>1. written \in Seq(W) /\ file \in 0..Len(written)
  BY DEF ToolsTypeOK
<1>2. Len(written) \in Nat /\ DOMAIN written = 1..Len(written)
  BY <1>1, LenProperties
<1>3. CASE written' = written /\ file' \in {0, file}
  BY <1>1, <1>2, <1>3
<1>4. CASE \E doc \in AllDocuments \cup {Damaged} : Put(doc, by)
  <2>1. PICK doc \in AllDocuments \cup {Damaged} :
          written' = Append(written, [doc |-> doc, by |-> by]) /\ file' = Len(written) + 1
    BY <1>4 DEF Put
  <2> DEFINE new == [doc |-> doc, by |-> by]
  <2>2. new \in W /\ new.by = by
    OBVIOUS
  <2> HIDE DEF new, W
  <2>3. /\ Append(written, new) \in Seq(W)
        /\ Len(Append(written, new)) = Len(written) + 1
        /\ \A i \in 1..Len(written) : Append(written, new)[i] = written[i]
        /\ Append(written, new)[Len(written) + 1] = new
    BY <1>1, <2>2, AppendProperties
  <2>4. written' = Append(written, new)
    BY <2>1 DEF new
  <2>5. DOMAIN written' = 1..(Len(written) + 1)
    BY <2>3, <2>4, LenProperties, <1>2
  <2>6. \A i \in DOMAIN written' : i \in DOMAIN written \/ i = Len(written) + 1
    BY <1>2, <2>5
  <2> QED
    BY <1>1, <1>2, <2>1, <2>2, <2>3, <2>4, <2>5, <2>6 DEF W
<1> QED
  BY <1>3, <1>4 DEF Grows

\* What others do to the file leaves a call where it is.
LEMMA OthersKeep ==
  ASSUME ToolsInv, NEW by \in Writers, Grows(by), NEW d \in Calls, d # by,
         call'[d] = call[d], step'[d] = step[d]
  PROVE  CallFits(d)' /\ ReportIsTrue(d)'
<1>1. ToolsTypeOK /\ CallFits(d) /\ ReportIsTrue(d)
  BY DEF ToolsInv
<1>2. /\ Len(written) \in Nat /\ Len(written') \in Nat /\ Len(written) <= Len(written')
      /\ file' \in 0..Len(written')
      /\ \A i \in DOMAIN written : i \in DOMAIN written' /\ written'[i] = written[i]
      /\ \A i \in DOMAIN written' : i \in DOMAIN written \/ written'[i].by = by
      /\ file' = 0 \/ file' = file \/ (file' > Len(written) /\ written'[file'].by = by)
  BY <1>1, FileFacts
<1>3. file \in 0..Len(written) /\ DOMAIN written = 1..Len(written)
  BY <1>1, LenProperties DEF ToolsTypeOK
<1>4. Unwritten(d) => Unwritten(d)'
  BY <1>2 DEF Unwritten
<1>5. Wrote(d) => Wrote(d)'
  BY <1>2 DEF Wrote, Damaged
<1>6. KindFits(d)'
  BY <1>1 DEF CallFits, KindFits
<1>7. RequestFits(d)'
  BY <1>1 DEF CallFits, RequestFits, AskedOf
<1>8. WritesFit(d)'
  BY <1>1, <1>4, <1>5 DEF CallFits, WritesFit
<1>9. ReadFits(d)'
  <2> SUFFICES ASSUME step[d] \in {"fetch", "after"}
               PROVE  ReadFits(d)'
    BY DEF ReadFits
  <2>1. call[d].before \in 1..Len(written) /\ (file = 0 \/ file >= call[d].before)
    BY <1>1 DEF CallFits, ReadFits
  <2>2. call'[d].before \in 1..Len(written') /\ (file' = 0 \/ file' >= call'[d].before)
    BY <1>2, <1>3, <2>1
  <2>3. ASSUME step[d] = "after"
        PROVE  /\ call'[d].markup \in call'[d].before..Len(written')
               /\ file' = 0 \/ file' >= call'[d].markup
               /\ written'[call'[d].markup].doc # Damaged
    <3>1. /\ call[d].markup \in call[d].before..Len(written)
          /\ file = 0 \/ file >= call[d].markup
          /\ written[call[d].markup].doc # Damaged
      BY <1>1, <2>3 DEF CallFits, ReadFits
    <3>2. call[d].markup \in DOMAIN written
      BY <1>2, <1>3, <2>1, <3>1
    <3> QED
      BY <1>2, <1>3, <2>1, <3>1, <3>2
  <2> QED
    BY <2>2, <2>3 DEF ReadFits, Damaged
<1>10. ReportIsTrue(d)'
  <2>1. file = 0 \/ written[file].by # d => file' = 0 \/ written'[file'].by # d
    <3>1. file \in DOMAIN written \/ file = 0
      BY <1>2, <1>3
    <3> QED
      BY <1>2, <3>1
  <2> QED
    BY <1>1, <1>5, <2>1 DEF ReportIsTrue
<1> QED
  BY <1>6, <1>7, <1>8, <1>9, <1>10 DEF CallFits

\* What a step of call c must show.
Moved(c) ==
    /\ DOMAIN call' = Calls /\ DOMAIN call'[c] = DOMAIN NewCall
    /\ {call'[c].current, call'[c].before, call'[c].markup} \subseteq 0..Len(written')
    /\ step' \in [Calls -> Steps]
    /\ \A d \in Calls \ {c} : call'[d] = call[d] /\ step'[d] = step[d]
    /\ Grows(c)
    /\ host' \in Calls \cup {None}
    /\ KnownFits'
    /\ CallFits(c)' /\ ReportIsTrue(c)'

\* A step that shows this keeps the invariant.
LEMMA MovedKeeps ==
  ASSUME ToolsInv, NEW c \in Calls, Moved(c)
  PROVE  ToolsInv'
<1>1. ToolsTypeOK /\ CallsAreCalls
  BY DEF ToolsInv
<1>2. c \in Writers
  BY DEF Writers
<1>3. /\ written' \in Seq([doc : AllDocuments \cup {Damaged}, by : Writers])
      /\ file' \in 0..Len(written')
      /\ Len(written) \in Nat /\ Len(written') \in Nat /\ Len(written) <= Len(written')
  BY <1>1, <1>2, FileFacts DEF Moved
<1>4. \A d \in Calls \ {c} : CallFits(d)' /\ ReportIsTrue(d)'
  BY <1>2, OthersKeep DEF Moved
<1>5. \A d \in Calls :
          {call'[d].current, call'[d].before, call'[d].markup} \subseteq 0..Len(written')
  <2> SUFFICES ASSUME NEW d \in Calls
               PROVE  {call'[d].current, call'[d].before, call'[d].markup}
                          \subseteq 0..Len(written')
    OBVIOUS
  <2>1. CASE d = c
    BY <2>1 DEF Moved
  <2>2. CASE d # c
    <3>1. call'[d] = call[d]
      BY <2>2 DEF Moved
    <3>2. {call[d].current, call[d].before, call[d].markup} \subseteq 0..Len(written)
      BY <1>1 DEF ToolsTypeOK
    <3> QED
      BY <1>3, <3>1, <3>2
  <2> QED
    BY <2>1, <2>2
<1>6. ToolsTypeOK'
  BY <1>3, <1>5 DEF ToolsTypeOK, Moved, Damaged, Writers
<1>7. CallsAreCalls'
  <2>1. \A d \in Calls : DOMAIN call'[d] = DOMAIN NewCall
    BY <1>1 DEF CallsAreCalls, Moved
  <2> QED
    BY <2>1 DEF CallsAreCalls, Moved, NewCall
<1> QED
  BY <1>4, <1>6, <1>7 DEF ToolsInv, Moved

\* A call that ends.
LEMMA EndsStep ==
  ASSUME ToolsInv, NEW c \in Calls, NEW told, Ends(c, told), Grows(c),
         host' \in Calls \cup {None}, KnownFits',
         call[c].kind = "create" =>
            /\ told \in {"create_failed", "create_not_persisted", "file_exists",
                         "directory_not_found"}
                  => file' = 0 \/ written'[file'].by # c
            /\ told \in {"done", "unreadable"} => Wrote(c)'
  PROVE  Moved(c)
<1>1. /\ step \in [Calls -> Steps]
      /\ written \in Seq([doc : AllDocuments \cup {Damaged}, by : Writers])
      /\ DOMAIN call = Calls
  BY DEF ToolsInv, ToolsTypeOK, CallsAreCalls
<1>2. step' = [step EXCEPT ![c] = "done"]
  BY DEF Ends, Goto
<1>3. step' \in [Calls -> Steps] /\ step'[c] = "done"
  BY <1>1, <1>2 DEF Steps
<1> DEFINE r == [NewCall EXCEPT !.kind = call[c].kind, !.told = told]
<1>4. /\ DOMAIN r = DOMAIN NewCall /\ r.kind = call[c].kind /\ r.told = told
      /\ r.current = 0 /\ r.before = 0 /\ r.markup = 0
  BY DEF NewCall
<1>5. call' = [call EXCEPT ![c] = r]
  BY DEF Ends
<1> HIDE DEF r
<1>6. call'[c] = r /\ DOMAIN call' = Calls
  BY <1>1, <1>5
<1>7. \A d \in Calls \ {c} : call'[d] = call[d] /\ step'[d] = step[d]
  BY <1>1, <1>2, <1>5
<1>8. ReportIsTrue(c)'
  BY <1>4, <1>6 DEF ReportIsTrue
<1>9. CallFits(c)'
  BY <1>3 DEF CallFits, KindFits, RequestFits, ReadFits, WritesFit, CreateSteps, EditSteps,
              ReadSteps
<1>10. Len(written') \in Nat
  BY FileFacts DEF ToolsInv, Writers
<1> QED
  BY <1>3, <1>4, <1>6, <1>7, <1>8, <1>9, <1>10 DEF Moved

-----------------------------------------------------------------------------
(* The steps, those that end a call apart.                                 *)

\* The fields of a call.
Fields == {"kind", "request", "shown", "current", "before", "markup", "writable", "tries",
           "retried", "target", "touched", "back", "told"}

\* The types a step of call c begins with.
LEMMA Begins ==
  ASSUME ToolsInv, NEW c \in Calls
  PROVE  /\ DOMAIN call = Calls /\ DOMAIN call[c] = Fields /\ DOMAIN NewCall = Fields
         /\ {call[c].current, call[c].before, call[c].markup} \subseteq 0..Len(written)
         /\ Len(written) \in Nat /\ file \in 0..Len(written)
         /\ DOMAIN written = 1..Len(written)
         /\ step \in [Calls -> Steps] /\ host \in Calls \cup {None} /\ KnownFits
         /\ CallFits(c) /\ ReportIsTrue(c)
         /\ c \in Writers
<1>1. DOMAIN NewCall = Fields
  BY DEF NewCall, Fields
<1>2. written \in Seq([doc : AllDocuments \cup {Damaged}, by : Writers])
  BY DEF ToolsInv, ToolsTypeOK
<1>3. Len(written) \in Nat /\ DOMAIN written = 1..Len(written)
  BY <1>2, LenProperties
<1> QED
  BY <1>1, <1>3 DEF ToolsInv, ToolsTypeOK, CallsAreCalls, Writers

\* What was given to a caller stays so.
LEMMA KnownKept ==
  ASSUME ToolsInv, NEW by \in Writers, Grows(by), known' = known
  PROVE  KnownFits'
<1>1. Len(written) \in Nat /\ Len(written') \in Nat /\ Len(written) <= Len(written')
  BY FileFacts DEF ToolsInv
<1>2. KnownFits
  BY DEF ToolsInv
<1> QED
  BY <1>1, <1>2 DEF KnownFits

\* A call that goes on.
LEMMA GoesOn ==
  ASSUME ToolsInv, NEW c \in Calls, NEW next \in Steps \ {"done"}, Goto(c, next), Grows(c),
         DOMAIN call' = Calls, DOMAIN call'[c] = Fields,
         \A d \in Calls \ {c} : call'[d] = call[d],
         {call'[c].current, call'[c].before, call'[c].markup} \subseteq 0..Len(written'),
         host' \in Calls \cup {None}, KnownFits',
         KindFits(c)', RequestFits(c)', ReadFits(c)', WritesFit(c)'
  PROVE  Moved(c)
<1>1. step \in [Calls -> Steps] /\ DOMAIN NewCall = Fields
  BY Begins
<1>2. /\ step' \in [Calls -> Steps] /\ step'[c] = next
      /\ \A d \in Calls \ {c} : step'[d] = step[d]
  BY <1>1 DEF Goto
<1>3. ReportIsTrue(c)'
  BY <1>2 DEF KindFits, ReportIsTrue
<1> QED
  BY <1>1, <1>2, <1>3 DEF Moved, CallFits

\* A step from which only the place of a call is new.
LEMMA OnlyGoes ==
  ASSUME ToolsInv, NEW c \in Calls, NEW next \in Steps \ {"done"}, Goto(c, next),
         UNCHANGED <<call, known>>, Grows(c), host' \in Calls \cup {None},
         \/ /\ step[c] \in {"exists", "create", "build", "look"}
            /\ next \in {"create", "build", "look", "save"} /\ written' = written
         \/ step[c] \in CreateSteps /\ next = "clean"
         \/ step[c] \in CreateSteps /\ next = "verify" /\ Wrote(c)'
         \/ step[c] = "file" /\ next = "before"
  PROVE  Moved(c)
<1>1. /\ DOMAIN call = Calls /\ DOMAIN call[c] = Fields
      /\ {call[c].current, call[c].before, call[c].markup} \subseteq 0..Len(written)
      /\ step \in [Calls -> Steps] /\ KnownFits /\ CallFits(c) /\ c \in Writers
  BY Begins
<1>2. step'[c] = next
  BY <1>1 DEF Goto
<1>3. Len(written) \in Nat /\ Len(written') \in Nat /\ Len(written) <= Len(written')
  BY <1>1, FileFacts DEF ToolsInv
<1>4. {call'[c].current, call'[c].before, call'[c].markup} \subseteq 0..Len(written')
  BY <1>1, <1>3
<1>5. KindFits(c)'
  BY <1>1, <1>2 DEF CallFits, KindFits, CreateSteps, EditSteps, ReadSteps
<1>6. RequestFits(c)'
  BY <1>1, <1>2 DEF CallFits, KindFits, RequestFits, AskedOf, CreateSteps, EditSteps,
     ReadSteps
<1>7. ReadFits(c)'
  BY <1>2 DEF ReadFits, CreateSteps
<1>8. WritesFit(c)'
  BY <1>1, <1>2 DEF CallFits, KindFits, WritesFit, Unwritten, CreateSteps, EditSteps,
     ReadSteps
<1>9. KnownFits'
  BY <1>1, KnownKept
<1> QED
  BY <1>1, <1>4, <1>5, <1>6, <1>7, <1>8, <1>9, GoesOn

\* read_document is called.
LEMMA AskReadStep ==
  ASSUME ToolsInv, NEW c \in Calls, AskRead(c)
  PROVE  Moved(c)
<1>1. PICK page \in AskedPages :
        call' = [call EXCEPT ![c].kind = "read", ![c].request = page]
  BY DEF AskRead
<1>2. /\ DOMAIN call = Calls /\ DOMAIN call[c] = Fields
      /\ {call[c].current, call[c].before, call[c].markup} \subseteq 0..Len(written)
      /\ step \in [Calls -> Steps] /\ host \in Calls \cup {None} /\ KnownFits /\ CallFits(c)
  BY Begins
<1>3. /\ call'[c].kind = "read" /\ call'[c].request = page
      /\ \A field \in Fields \ {"kind", "request"} : call'[c][field] = call[c][field]
      /\ DOMAIN call' = Calls /\ DOMAIN call'[c] = Fields
      /\ \A d \in Calls \ {c} : call'[d] = call[d]
  BY <1>1, <1>2 DEF Fields
<1>4. /\ step[c] = "idle" /\ Goto(c, "before") /\ "before" \in Steps \ {"done"}
      /\ step'[c] = "before"
  BY <1>2 DEF AskRead, Goto, Steps
<1>5. UNCHANGED <<written, file, host, known>>
  BY DEF AskRead, fileVars
<1>6. /\ call'[c].current = call[c].current /\ call'[c].before = call[c].before
      /\ call'[c].markup = call[c].markup
      /\ call'[c].back = call[c].back /\ call'[c].told = call[c].told
  BY <1>3 DEF Fields
<1>7. KindFits(c)' /\ RequestFits(c)' /\ ReadFits(c)' /\ WritesFit(c)'
  BY <1>2, <1>3, <1>4, <1>6 DEF CallFits, KindFits, RequestFits, ReadFits, WritesFit,
     CreateSteps,
      EditSteps, ReadSteps
<1>8. Grows(c) /\ KnownFits'
  BY <1>2, <1>5 DEF Grows, KnownFits
<1> QED
  BY <1>2, <1>3, <1>4, <1>5, <1>6, <1>7, <1>8, GoesOn

\* create_document is called.
LEMMA AskCreateStep ==
  ASSUME ToolsInv, NEW c \in Calls, AskCreate(c)
  PROVE  Moved(c)
<1>1. PICK blocks \in AskedSpecs :
        call' = [call EXCEPT ![c].kind = "create", ![c].request = blocks]
  BY DEF AskCreate
<1>2. /\ DOMAIN call = Calls /\ DOMAIN call[c] = Fields
      /\ {call[c].current, call[c].before, call[c].markup} \subseteq 0..Len(written)
      /\ step \in [Calls -> Steps] /\ host \in Calls \cup {None} /\ KnownFits /\ CallFits(c)
  BY Begins
<1>3. /\ call'[c].kind = "create" /\ call'[c].request = blocks
      /\ \A field \in Fields \ {"kind", "request"} : call'[c][field] = call[c][field]
      /\ DOMAIN call' = Calls /\ DOMAIN call'[c] = Fields
      /\ \A d \in Calls \ {c} : call'[d] = call[d]
  BY <1>1, <1>2 DEF Fields
<1>4. /\ step[c] = "idle" /\ Goto(c, "exists") /\ "exists" \in Steps \ {"done"}
      /\ step'[c] = "exists"
  BY <1>2 DEF AskCreate, Goto, Steps
<1>5. UNCHANGED <<written, file, host, known>>
  BY DEF AskCreate, fileVars
<1>6. /\ call'[c].current = call[c].current /\ call'[c].before = call[c].before
      /\ call'[c].markup = call[c].markup
      /\ call'[c].back = call[c].back /\ call'[c].told = call[c].told
  BY <1>3 DEF Fields
<1>7. KindFits(c)' /\ RequestFits(c)' /\ ReadFits(c)' /\ WritesFit(c)'
  BY <1>2, <1>3, <1>4, <1>5, <1>6 DEF CallFits, KindFits, RequestFits, ReadFits, WritesFit,
      CreateSteps, EditSteps, ReadSteps, Unwritten
<1>8. Grows(c) /\ KnownFits'
  BY <1>2, <1>5 DEF Grows, KnownFits
<1> QED
  BY <1>2, <1>3, <1>4, <1>5, <1>6, <1>7, <1>8, GoesOn

\* edit_document is called, of a paragraph in a map.
LEMMA AskEditStep ==
  ASSUME ToolsInv, NEW c \in Calls, AskEdit(c)
  PROVE  Moved(c)
<1>1. PICK entry \in ToSet(known.map.paragraphs) \cup {Nobody}, change \in Changes :
        call' = [call EXCEPT ![c].kind = "edit",
                             ![c].request = [change EXCEPT !.address = entry.address],
                             ![c].shown = entry.text, ![c].current = known.token]
  BY DEF AskEdit
<1> DEFINE request == [change EXCEPT !.address = entry.address]
<1>2. call' = [call EXCEPT ![c].kind = "edit", ![c].request = request,
                           ![c].shown = entry.text, ![c].current = known.token]
  BY <1>1
<1> HIDE DEF request
<1>3. /\ DOMAIN call = Calls /\ DOMAIN call[c] = Fields
      /\ {call[c].current, call[c].before, call[c].markup} \subseteq 0..Len(written)
      /\ step \in [Calls -> Steps] /\ host \in Calls \cup {None} /\ KnownFits /\ CallFits(c)
  BY Begins
<1>4. /\ call'[c].kind = "edit" /\ call'[c].request = request /\ call'[c].shown = entry.text
      /\ call'[c].current = known.token
      /\ \A field \in Fields \ {"kind", "request", "shown", "current"} :
            call'[c][field] = call[c][field]
      /\ DOMAIN call' = Calls /\ DOMAIN call'[c] = Fields
      /\ \A d \in Calls \ {c} : call'[d] = call[d]
  BY <1>2, <1>3 DEF Fields
<1>5. /\ step[c] = "idle" /\ Goto(c, "file") /\ "file" \in Steps \ {"done"}
      /\ step'[c] = "file"
  BY <1>3 DEF AskEdit, Goto, Steps
<1>6. UNCHANGED <<written, file, host, known>> /\ known # None
  BY DEF AskEdit, fileVars
<1>7. /\ call'[c].before = call[c].before /\ call'[c].markup = call[c].markup
      /\ call'[c].back = call[c].back /\ call'[c].told = call[c].told
  BY <1>4 DEF Fields
<1>12. known.token \in 0..Len(written)
  BY <1>3, <1>6 DEF KnownFits
<1>8. AskedOf(c)'
  <2>1. entry \in Shown \cup {Nobody}
    BY <1>3, <1>6 DEF KnownFits
  <2> QED
    BY <1>4, <2>1 DEF AskedOf, request
<1>9. KindFits(c)' /\ RequestFits(c)' /\ ReadFits(c)' /\ WritesFit(c)'
  BY <1>3, <1>4, <1>5, <1>7, <1>8 DEF CallFits, KindFits, RequestFits, ReadFits, WritesFit,
      CreateSteps, EditSteps, ReadSteps
<1>10. Grows(c) /\ KnownFits'
  BY <1>3, <1>6 DEF Grows, KnownFits
<1>11. {call'[c].current, call'[c].before, call'[c].markup} \subseteq 0..Len(written')
  BY <1>3, <1>4, <1>6, <1>7, <1>12
<1> QED
  BY <1>3, <1>4, <1>5, <1>6, <1>9, <1>10, <1>11, GoesOn

\* A call that fails in a read, or before it.
LEMMA FailsStep ==
  ASSUME ToolsInv, NEW c \in Calls, Fails(c), step[c] \in ReadSteps \cup {"file"},
         UNCHANGED <<written, file, host, known>>
  PROVE  Moved(c)
<1>1. /\ Len(written) \in Nat /\ host \in Calls \cup {None} /\ CallFits(c) /\ KnownFits
      /\ c \in Writers
  BY Begins
<1>2. PICK told \in {"unreadable", "failed"} : Ends(c, told)
  BY DEF Fails
<1>3. Grows(c)
  BY DEF Grows
<1>4. KnownFits'
  BY <1>1, <1>3, KnownKept
<1>5. call[c].kind = "create" => Wrote(c)
  BY <1>1 DEF CallFits, KindFits, WritesFit, EditSteps, ReadSteps
<1>6. Wrote(c)' <=> Wrote(c)
  BY DEF Wrote, Damaged
<1> QED
  BY <1>1, <1>2, <1>3, <1>4, <1>5, <1>6, EndsStep

\* The token before a read.
LEMMA TokenBeforeStep ==
  ASSUME ToolsInv, NEW c \in Calls, TokenBefore(c)
  PROVE  Moved(c)
<1>1. UNCHANGED <<written, file, host, known>> /\ step[c] = "before"
  BY DEF TokenBefore, fileVars
<1>2. CASE Fails(c)
  BY <1>1, <1>2, FailsStep DEF ReadSteps
<1>3. CASE /\ file # 0
           /\ call' = [call EXCEPT ![c].before = file, ![c].retried = FALSE]
           /\ Goto(c, "fetch")
  <2>1. /\ DOMAIN call = Calls /\ DOMAIN call[c] = Fields
        /\ {call[c].current, call[c].before, call[c].markup} \subseteq 0..Len(written)
        /\ Len(written) \in Nat /\ file \in 0..Len(written)
        /\ step \in [Calls -> Steps] /\ host \in Calls \cup {None} /\ KnownFits
        /\ CallFits(c)
        /\ c \in Writers
    BY Begins
  <2>2. /\ call'[c].before = file
        /\ \A field \in Fields \ {"before", "retried"} : call'[c][field] = call[c][field]
        /\ DOMAIN call' = Calls /\ DOMAIN call'[c] = Fields
        /\ \A d \in Calls \ {c} : call'[d] = call[d]
    BY <1>3, <2>1 DEF Fields
  <2>3. Goto(c, "fetch") /\ "fetch" \in Steps \ {"done"} /\ step'[c] = "fetch"
    BY <1>3, <2>1 DEF Goto, Steps
  <2>4. /\ call'[c].current = call[c].current /\ call'[c].markup = call[c].markup
        /\ call'[c].kind = call[c].kind /\ call'[c].request = call[c].request
        /\ call'[c].shown = call[c].shown
        /\ call'[c].back = call[c].back /\ call'[c].told = call[c].told
    BY <2>2 DEF Fields
  <2>5. KindFits(c)' /\ RequestFits(c)' /\ WritesFit(c)'
    BY <1>1, <2>1, <2>3, <2>4 DEF CallFits, KindFits, RequestFits, WritesFit,
        CreateSteps, EditSteps, ReadSteps, Wrote, Damaged, AskedOf
  <2>6. ReadFits(c)'
    BY <1>1, <1>3, <2>1, <2>2, <2>3 DEF ReadFits
  <2>7. Grows(c)
    BY <1>1 DEF Grows
  <2>8. KnownFits'
    BY <1>1, <2>1, <2>7, KnownKept
  <2>9. {call'[c].current, call'[c].before, call'[c].markup} \subseteq 0..Len(written')
    BY <1>1, <2>1, <2>2, <2>4
  <2> QED
    BY <1>1, <2>1, <2>2, <2>3, <2>5, <2>6, <2>7, <2>8, <2>9, GoesOn
<1> QED
  BY <1>2, <1>3 DEF TokenBefore

\* The host exports a copy, of what is at the path now.
LEMMA FetchStep ==
  ASSUME ToolsInv, NEW c \in Calls, Fetch(c)
  PROVE  Moved(c)
<1>1. UNCHANGED <<written, file, host, known>> /\ step[c] = "fetch"
  BY DEF Fetch, fileVars
<1>2. CASE Fails(c)
  BY <1>1, <1>2, FailsStep DEF ReadSteps
<1>3. /\ DOMAIN call = Calls /\ DOMAIN call[c] = Fields
      /\ {call[c].current, call[c].before, call[c].markup} \subseteq 0..Len(written)
      /\ Len(written) \in Nat /\ file \in 0..Len(written)
      /\ step \in [Calls -> Steps] /\ host \in Calls \cup {None} /\ KnownFits /\ CallFits(c)
      /\ c \in Writers
  BY Begins
<1>4. Grows(c)
  BY <1>1 DEF Grows
<1>5. KnownFits'
  BY <1>1, <1>3, <1>4, KnownKept
<1>6. CASE /\ call' = [call EXCEPT ![c].retried = TRUE]
           /\ UNCHANGED step
  <2>1. /\ \A field \in Fields \ {"retried"} : call'[c][field] = call[c][field]
        /\ DOMAIN call' = Calls /\ DOMAIN call'[c] = Fields
        /\ \A d \in Calls \ {c} : call'[d] = call[d]
    BY <1>6, <1>3 DEF Fields
  <2>2. Goto(c, "fetch") /\ "fetch" \in Steps \ {"done"} /\ step'[c] = "fetch"
    BY <1>1, <1>3, <1>6 DEF Goto, Steps
  <2>3. /\ call'[c].current = call[c].current /\ call'[c].markup = call[c].markup
        /\ call'[c].before = call[c].before
        /\ call'[c].kind = call[c].kind /\ call'[c].request = call[c].request
        /\ call'[c].shown = call[c].shown
        /\ call'[c].back = call[c].back /\ call'[c].told = call[c].told
    BY <2>1 DEF Fields
  <2>4. KindFits(c)' /\ RequestFits(c)' /\ WritesFit(c)' /\ ReadFits(c)'
    BY <1>1, <1>3, <2>2, <2>3 DEF CallFits, KindFits, RequestFits, WritesFit, ReadFits,
        CreateSteps, EditSteps, ReadSteps, Wrote, Damaged, AskedOf
  <2> QED
    BY <1>1, <1>3, <1>4, <1>5, <2>1, <2>2, <2>3, <2>4, GoesOn
<1>7. CASE /\ file # 0 /\ written[file].doc # Damaged
           /\ \E writable \in BOOLEAN :
                 call' = [call EXCEPT ![c].markup = file, ![c].writable = writable]
           /\ Goto(c, "after")
  <2>0. PICK writable \in BOOLEAN :
          call' = [call EXCEPT ![c].markup = file, ![c].writable = writable]
    BY <1>7
  <2>1. /\ call'[c].markup = file
        /\ \A field \in Fields \ {"markup", "writable"} : call'[c][field] = call[c][field]
        /\ DOMAIN call' = Calls /\ DOMAIN call'[c] = Fields
        /\ \A d \in Calls \ {c} : call'[d] = call[d]
    BY <2>0, <1>3 DEF Fields
  <2>2. Goto(c, "after") /\ "after" \in Steps \ {"done"} /\ step'[c] = "after"
    BY <1>3, <1>7 DEF Goto, Steps
  <2>3. /\ call'[c].current = call[c].current /\ call'[c].before = call[c].before
        /\ call'[c].kind = call[c].kind /\ call'[c].request = call[c].request
        /\ call'[c].shown = call[c].shown
        /\ call'[c].back = call[c].back /\ call'[c].told = call[c].told
    BY <2>1 DEF Fields
  <2>4. KindFits(c)' /\ RequestFits(c)' /\ WritesFit(c)'
    BY <1>1, <1>3, <2>2, <2>3 DEF CallFits, KindFits, RequestFits, WritesFit,
        CreateSteps, EditSteps, ReadSteps, Wrote, Damaged, AskedOf
  <2>5. ReadFits(c)'
    <3>1. call[c].before \in 1..Len(written) /\ (file = 0 \/ file >= call[c].before)
      BY <1>1, <1>3 DEF CallFits, ReadFits
    <3> QED
      BY <1>1, <1>3, <1>7, <2>1, <2>2, <2>3, <3>1 DEF ReadFits, Damaged
  <2>6. {call'[c].current, call'[c].before, call'[c].markup} \subseteq 0..Len(written')
    BY <1>1, <1>3, <2>1, <2>3
  <2> QED
    BY <1>1, <1>3, <1>4, <1>5, <2>1, <2>2, <2>4, <2>5, <2>6, GoesOn
<1> QED
  BY <1>2, <1>6, <1>7 DEF Fetch

\* The page a read ends with is of a document there can be.
PagingOf(c) == IF call[c].kind = "read" THEN call[c].request ELSE Everything

\* The map of that document is what it holds.
LEMMA PageIsShown ==
  ASSUME ToolsInv, NEW c \in Calls, step[c] = "after"
  PROVE  /\ written[call[c].markup].doc \in AllDocuments /\ PagingOf(c) \in Pagings
         /\ Page(c).map = Maps[written[call[c].markup].doc][PagingOf(c)]
         /\ Page(c).paging = PagingOf(c) /\ Page(c).token = call[c].before
         /\ ToSet(Page(c).map.paragraphs) \subseteq Shown
<1>1. /\ Len(written) \in Nat /\ DOMAIN written = 1..Len(written) /\ CallFits(c)
  BY Begins
<1>2. call[c].before \in 1..Len(written)
  BY <1>1 DEF CallFits, ReadFits
<1>3. /\ call[c].markup \in call[c].before..Len(written)
      /\ written[call[c].markup].doc # Damaged
  BY <1>1 DEF CallFits, ReadFits
<1>4. call[c].markup \in DOMAIN written
  BY <1>1, <1>2, <1>3
<1>5. written \in Seq([doc : AllDocuments \cup {Damaged}, by : Writers])
  BY DEF ToolsInv, ToolsTypeOK
<1>6. written[call[c].markup] \in [doc : AllDocuments \cup {Damaged}, by : Writers]
  BY <1>1, <1>4, <1>5, ElementOfSeq
<1>7. written[call[c].markup].doc \in AllDocuments
  BY <1>3, <1>6
<1>8. PagingOf(c) \in Pagings
  BY <1>1 DEF PagingOf, Pagings, CallFits, RequestFits, ReadSteps
<1>9. /\ Page(c).map = Maps[written[call[c].markup].doc][PagingOf(c)]
      /\ Page(c).paging = PagingOf(c) /\ Page(c).token = call[c].before
  BY DEF Page, PagingOf
<1>10. ToSet(Page(c).map.paragraphs) \subseteq Shown
  BY <1>7, <1>8, <1>9 DEF Shown
<1> QED
  BY <1>7, <1>8, <1>9, <1>10

\* The token after a read, and what is done with it.
LEMMA TokenAfterStep ==
  ASSUME ToolsInv, NEW c \in Calls, TokenAfter(c)
  PROVE  Moved(c)
<1>1. UNCHANGED <<written, file, host>> /\ step[c] = "after"
  BY DEF TokenAfter, fileVars
<1>2. /\ DOMAIN call = Calls /\ DOMAIN call[c] = Fields
      /\ {call[c].current, call[c].before, call[c].markup} \subseteq 0..Len(written)
      /\ Len(written) \in Nat /\ file \in 0..Len(written)
      /\ step \in [Calls -> Steps] /\ host \in Calls \cup {None} /\ KnownFits /\ CallFits(c)
      /\ c \in Writers
  BY Begins
<1>3. Grows(c)
  BY <1>1 DEF Grows
<1>4. CASE Fails(c) /\ UNCHANGED known
  BY <1>1, <1>4, FailsStep DEF ReadSteps
<1>5. ASSUME UNCHANGED known, call' = [call EXCEPT ![c].tries = 1], Goto(c, "before")
      PROVE  Moved(c)
  <2>1. /\ \A field \in Fields \ {"tries"} : call'[c][field] = call[c][field]
        /\ DOMAIN call' = Calls /\ DOMAIN call'[c] = Fields
        /\ \A d \in Calls \ {c} : call'[d] = call[d]
    BY <1>5, <1>2 DEF Fields
  <2>2. Goto(c, "before") /\ "before" \in Steps \ {"done"} /\ step'[c] = "before"
    BY <1>2, <1>5 DEF Goto, Steps
  <2>3. /\ call'[c].current = call[c].current /\ call'[c].markup = call[c].markup
        /\ call'[c].before = call[c].before
        /\ call'[c].kind = call[c].kind /\ call'[c].request = call[c].request
        /\ call'[c].shown = call[c].shown
        /\ call'[c].back = call[c].back /\ call'[c].told = call[c].told
    BY <2>1 DEF Fields
  <2>4. KindFits(c)' /\ RequestFits(c)' /\ WritesFit(c)' /\ ReadFits(c)'
    BY <1>1, <1>2, <2>2, <2>3 DEF CallFits, KindFits, RequestFits, WritesFit, ReadFits,
        CreateSteps, EditSteps, ReadSteps, Wrote, Damaged, AskedOf
  <2>5. KnownFits'
    BY <1>2, <1>3, <1>5, KnownKept
  <2> QED
    BY <1>1, <1>2, <1>3, <2>1, <2>2, <2>3, <2>4, <2>5, GoesOn
<1>6. ASSUME call[c].kind = "edit", ~call[c].back, Resolve(c, Page(c)), UNCHANGED known
      PROVE  Moved(c)
  <2> DEFINE targets ==
        {p \in ToSet(Page(c).map.paragraphs) : p.address = call[c].request.address}
  <2>1. KnownFits'
    BY <1>2, <1>3, <1>6, KnownKept
  <2>2. CASE \E told \in {"stale", "locked", "address_not_found"} : Ends(c, told)
    BY <1>1, <1>2, <1>3, <1>6, <2>1, <2>2, EndsStep
  <2>3. CASE /\ targets # {} /\ Goto(c, "edit")
             /\ call' = [call EXCEPT ![c].target = CHOOSE p \in targets : TRUE]
    <3> DEFINE target == CHOOSE p \in targets : TRUE
    <3>1. target \in Shown /\ target.address = call[c].request.address
      <4>1. target \in targets
        BY <2>3
      <4> QED
        BY <1>1, <4>1, PageIsShown
    <3>2. call' = [call EXCEPT ![c].target = target]
      BY <2>3
    <3> HIDE DEF target
    <3>3. /\ call'[c].target = target
          /\ \A field \in Fields \ {"target"} : call'[c][field] = call[c][field]
          /\ DOMAIN call' = Calls /\ DOMAIN call'[c] = Fields
          /\ \A d \in Calls \ {c} : call'[d] = call[d]
      BY <3>2, <1>2 DEF Fields
    <3>4. Goto(c, "edit") /\ "edit" \in Steps \ {"done"} /\ step'[c] = "edit"
      BY <1>2, <2>3 DEF Goto, Steps
    <3>5. /\ call'[c].current = call[c].current /\ call'[c].markup = call[c].markup
          /\ call'[c].before = call[c].before
          /\ call'[c].kind = call[c].kind /\ call'[c].request = call[c].request
          /\ call'[c].shown = call[c].shown
          /\ call'[c].back = call[c].back /\ call'[c].told = call[c].told
      BY <3>3 DEF Fields
    <3>6. KindFits(c)' /\ RequestFits(c)' /\ WritesFit(c)' /\ ReadFits(c)'
      BY <1>1, <1>2, <1>6, <3>1, <3>3, <3>4, <3>5 DEF CallFits, KindFits, RequestFits,
         WritesFit,
          ReadFits, CreateSteps, EditSteps, ReadSteps, Wrote, Damaged, AskedOf
    <3> QED
      BY <1>1, <1>2, <1>3, <2>1, <3>3, <3>4, <3>5, <3>6, GoesOn
  <2> QED
    BY <1>6, <2>2, <2>3 DEF Resolve
<1>7. ASSUME known' = Page(c), Ends(c, "done"), ~(call[c].kind = "edit" /\ ~call[c].back)
      PROVE  Moved(c)
  <2>1. KnownFits'
    <3>1. known'.token = call[c].before /\ ToSet(known'.map.paragraphs) \subseteq Shown
      BY <1>1, <1>7, PageIsShown
    <3> QED
      BY <1>1, <1>2, <3>1 DEF KnownFits
  <2>2. call[c].kind = "create" => Wrote(c)'
    BY <1>1, <1>2 DEF CallFits, WritesFit, ReadSteps, Wrote, Damaged
  <2> QED
    BY <1>1, <1>2, <1>3, <1>7, <2>1, <2>2, EndsStep
<1> QED
  BY <1>4, <1>5, <1>6, <1>7 DEF TokenAfter

\* The checks of an edit.
LEMMA EditChecksStep ==
  ASSUME ToolsInv, NEW c \in Calls, EditChecks(c)
  PROVE  Moved(c)
<1>1. UNCHANGED <<written, file, host, known>> /\ step[c] = "file"
  BY DEF EditChecks, fileVars
<1>2. /\ host \in Calls \cup {None} /\ KnownFits /\ CallFits(c) /\ c \in Writers
  BY Begins
<1>3. Grows(c)
  BY <1>1 DEF Grows
<1>4. CASE Fails(c)
  BY <1>1, <1>4, FailsStep
<1>5. CASE Goto(c, "before") /\ UNCHANGED call
  <2>1. "before" \in Steps \ {"done"}
    BY DEF Steps
  <2> QED
    BY <1>1, <1>2, <1>3, <1>5, <2>1, OnlyGoes
<1>6. CASE Ends(c, "stale")
  BY <1>1, <1>2, <1>3, <1>6, KnownKept, EndsStep
<1> QED
  BY <1>4, <1>5, <1>6 DEF EditChecks

\* Cmd-Edit.
LEMMA HostEditsStep ==
  ASSUME ToolsInv, NEW c \in Calls, HostEdits(c)
  PROVE  Moved(c)
<1>1. UNCHANGED <<host, known>> /\ step[c] = "edit"
  BY DEF HostEdits
<1>2. /\ DOMAIN call = Calls /\ DOMAIN call[c] = Fields
      /\ {call[c].current, call[c].before, call[c].markup} \subseteq 0..Len(written)
      /\ step \in [Calls -> Steps] /\ host \in Calls \cup {None} /\ KnownFits /\ CallFits(c)
      /\ c \in Writers
  BY Begins
<1>3. ASSUME NEW told \in {"failed", "address_not_resolvable", "no_effect"},
             Ends(c, told), UNCHANGED fileVars
      PROVE  Moved(c)
  <2>1. Grows(c)
    BY <1>3 DEF Grows, fileVars
  <2> QED
    BY <1>1, <1>2, <1>3, <2>1, KnownKept, EndsStep
<1>4. ASSUME NEW new \in AllDocuments, NEW touched, Put(new, c), Goto(c, "before"),
             call' = [call EXCEPT ![c].back = TRUE, ![c].tries = 0, ![c].touched = touched]
      PROVE  Moved(c)
  <2>1. Grows(c)
    BY <1>4 DEF Grows
  <2>2. /\ call'[c].back = TRUE
        /\ \A field \in Fields \ {"back", "tries", "touched"} :
              call'[c][field] = call[c][field]
        /\ DOMAIN call' = Calls /\ DOMAIN call'[c] = Fields
        /\ \A d \in Calls \ {c} : call'[d] = call[d]
    BY <1>4, <1>2 DEF Fields
  <2>3. "before" \in Steps \ {"done"} /\ step'[c] = "before"
    BY <1>2, <1>4 DEF Goto, Steps
  <2>4. /\ call'[c].current = call[c].current /\ call'[c].markup = call[c].markup
        /\ call'[c].before = call[c].before
        /\ call'[c].kind = call[c].kind /\ call'[c].told = call[c].told
    BY <2>2 DEF Fields
  <2>5. KindFits(c)' /\ RequestFits(c)' /\ WritesFit(c)' /\ ReadFits(c)'
    BY <1>1, <1>2, <2>2, <2>3, <2>4 DEF CallFits, KindFits, RequestFits, WritesFit,
       ReadFits,
        CreateSteps, EditSteps, ReadSteps
  <2>6. Len(written) \in Nat /\ Len(written') \in Nat /\ Len(written) <= Len(written')
    BY <1>2, <2>1, FileFacts DEF ToolsInv
  <2>7. {call'[c].current, call'[c].before, call'[c].markup} \subseteq 0..Len(written')
    BY <1>2, <2>4, <2>6
  <2>8. KnownFits'
    BY <1>1, <1>2, <2>1, KnownKept
  <2> QED
    BY <1>1, <1>2, <1>4, <2>1, <2>2, <2>3, <2>5, <2>7, <2>8, GoesOn
<1> DEFINE doc == written[file].doc
           i == Located(doc, call[c].target.wordIndex)
           new == Edited(doc, i, call[c].request)
<1>5. \/ \E told \in {"failed", "address_not_resolvable", "no_effect"} :
            Ends(c, told) /\ UNCHANGED fileVars
      \/ /\ new \in AllDocuments /\ Put(new, c) /\ Goto(c, "before")
         /\ call' = [call EXCEPT ![c].back = TRUE, ![c].tries = 0,
                        ![c].touched =
                              Touched(call[c].request.op, call[c].target.wordIndex)]
  BY DEF HostEdits
<1> HIDE DEF new
<1> QED
  BY <1>3, <1>4, <1>5

\* A call to create that is told that the name is taken, or that there is no folder.
LEMMA EndsUnwritten ==
  ASSUME ToolsInv, NEW c \in Calls, step[c] \in {"exists", "create", "look"},
         NEW told \in {"file_exists", "directory_not_found"}, Ends(c, told),
         UNCHANGED <<written, file, known>>, host' \in Calls \cup {None}
  PROVE  Moved(c)
<1>1. /\ file \in 0..Len(written) /\ DOMAIN written = 1..Len(written)
      /\ Len(written) \in Nat
      /\ CallFits(c) /\ c \in Writers
  BY Begins
<1>2. Grows(c)
  BY DEF Grows
<1>3. file = 0 \/ written[file].by # c
  BY <1>1 DEF CallFits, WritesFit, Unwritten
<1> QED
  BY <1>1, <1>2, <1>3, KnownKept, EndsStep

\* The look before the host is asked.
LEMMA ExistsStep ==
  ASSUME ToolsInv, NEW c \in Calls, Exists(c)
  PROVE  Moved(c)
<1>1. UNCHANGED <<written, file, host, known>> /\ step[c] = "exists"
  BY DEF Exists, fileVars
<1>2. host \in Calls \cup {None}
  BY Begins
<1>3. CASE Ends(c, "file_exists")
  BY <1>1, <1>2, <1>3, EndsUnwritten
<1>4. CASE Goto(c, "create") /\ UNCHANGED call
  BY <1>1, <1>2, <1>4, OnlyGoes DEF Grows, Steps
<1> QED
  BY <1>3, <1>4 DEF Exists

\* Cmd-Create, up to the start of Word.
LEMMA HostCreatesStep ==
  ASSUME ToolsInv, NEW c \in Calls, HostCreates(c)
  PROVE  Moved(c)
<1>1. UNCHANGED <<written, file, known>> /\ step[c] = "create"
  BY DEF HostCreates, fileVars
<1>2. host \in Calls \cup {None}
  BY Begins
<1>3. CASE \E told \in {"file_exists", "directory_not_found"} :
             Ends(c, told) /\ UNCHANGED host
  BY <1>1, <1>2, <1>3, EndsUnwritten
<1>4. CASE Goto(c, "build") /\ host' = c /\ UNCHANGED call
  BY <1>1, <1>2, <1>4, OnlyGoes DEF Grows, Steps
<1> QED
  BY <1>3, <1>4 DEF HostCreates

\* It builds the document.
LEMMA HostBuildsStep ==
  ASSUME ToolsInv, NEW c \in Calls, HostBuilds(c)
  PROVE  Moved(c)
<1>1. UNCHANGED <<written, file, host, known, call>> /\ step[c] = "build"
  BY DEF HostBuilds, fileVars
<1>2. PICK next \in {"look", "clean"} : Goto(c, next)
  BY DEF HostBuilds
<1>3. next \in Steps \ {"done"} /\ Grows(c) /\ host' \in Calls \cup {None}
  BY <1>1, Begins DEF Grows, Steps
<1> QED
  BY <1>1, <1>2, <1>3, OnlyGoes DEF CreateSteps

\* The look before the save.
LEMMA HostLooksStep ==
  ASSUME ToolsInv, NEW c \in Calls, HostLooks(c)
  PROVE  Moved(c)
<1>1. UNCHANGED <<written, file, known>> /\ step[c] = "look"
  BY DEF HostLooks, fileVars
<1>2. host \in Calls \cup {None}
  BY Begins
<1>3. CASE Ends(c, "file_exists") /\ host' = None
  BY <1>1, <1>3, EndsUnwritten
<1>4. CASE Goto(c, "save") /\ UNCHANGED <<host, call>>
  BY <1>1, <1>2, <1>4, OnlyGoes DEF Grows, Steps
<1> QED
  BY <1>3, <1>4 DEF HostLooks

\* What SaveAs2 is given is a document.
LEMMA AuthoredIsDocument ==
  ASSUME ToolsInv, NEW c \in Calls, step[c] = "save"
  PROVE  Authored(call[c].request) \in AllDocuments /\ Authored(call[c].request) # Damaged
<1>1. call[c].request \in AskedSpecs
  BY DEF ToolsInv, CallFits, RequestFits, CreateSteps
<1>2. Authored(call[c].request) \in AllDocuments
  BY <1>1 DEF AllDocuments, Unedited
<1> QED
  BY <1>2, ToolsAssumption

\* SaveAs2: only when it returns is the call not on its way to clean up.
LEMMA HostSavesStep ==
  ASSUME ToolsInv, NEW c \in Calls, HostSaves(c)
  PROVE  Moved(c)
<1>1. UNCHANGED <<known, call>> /\ step[c] = "save"
  BY DEF HostSaves
<1>2. /\ host \in Calls \cup {None} /\ c \in Writers
      /\ written \in Seq([doc : AllDocuments \cup {Damaged}, by : Writers])
  BY Begins DEF ToolsInv, ToolsTypeOK
<1> DEFINE doc == Authored(call[c].request)
<1>3. doc \in AllDocuments /\ doc # Damaged
  BY <1>1, AuthoredIsDocument
<1> HIDE DEF doc
<1>4. CASE Put(doc, c) /\ Goto(c, "verify") /\ host' = None
  <2>1. Grows(c)
    BY <1>3, <1>4 DEF Grows
  <2>2. Wrote(c)'
    <3> DEFINE new == [doc |-> doc, by |-> c]
    <3>1. /\ new \in [doc : AllDocuments \cup {Damaged}, by : Writers] /\ new.by = c
          /\ new.doc # Damaged
      BY <1>2, <1>3
    <3>2. written' = Append(written, new)
      BY <1>4 DEF Put
    <3> HIDE DEF new
    <3>3. /\ Len(written') = Len(written) + 1 /\ written'[Len(written) + 1] = new
          /\ written' \in Seq([doc : AllDocuments \cup {Damaged}, by : Writers])
      BY <1>2, <3>1, <3>2, AppendProperties
    <3>4. Len(written) + 1 \in DOMAIN written'
      BY <1>2, <3>3, LenProperties
    <3> QED
      BY <3>1, <3>3, <3>4 DEF Wrote, Damaged
  <2>3. "verify" \in Steps \ {"done"} /\ step[c] \in CreateSteps
    BY <1>1 DEF Steps, CreateSteps
  <2> QED
    BY <1>1, <1>4, <2>1, <2>2, <2>3, OnlyGoes
<1>5. ASSUME Grows(c), Goto(c, "clean"), UNCHANGED host
      PROVE  Moved(c)
  <2>1. "clean" \in Steps \ {"done"} /\ step[c] \in CreateSteps
    BY <1>1 DEF Steps, CreateSteps
  <2> QED
    BY <1>1, <1>2, <1>5, <2>1, OnlyGoes
<1>6. CASE /\ \E d \in {doc, Damaged} : Put(d, c)
           /\ Goto(c, "clean") /\ UNCHANGED host
  BY <1>3, <1>5, <1>6 DEF Grows
<1>7. CASE Goto(c, "clean") /\ UNCHANGED <<fileVars, host>>
  BY <1>5, <1>7 DEF Grows, fileVars
<1> QED
  BY <1>4, <1>6, <1>7 DEF HostSaves, doc

\* The catch, which looks at what it has left.
LEMMA HostCleansUpStep ==
  ASSUME ToolsInv, NEW c \in Calls, HostCleansUp(c)
  PROVE  Moved(c)
<1>1. /\ UNCHANGED <<written, known>> /\ file' \in {0, file} /\ host' = None
      /\ Ends(c, CleanUpReport(file'))
  BY DEF HostCleansUp
<1>2. Grows(c) /\ c \in Writers
  BY <1>1 DEF Grows, Writers
<1>3. /\ CleanUpReport(file') = "create_failed" => file' = 0
      /\ CleanUpReport(file') \in {"create_failed", "left_behind"}
  BY DEF CleanUpReport
<1> QED
  BY <1>1, <1>2, <1>3, KnownKept, EndsStep

\* The host ends.
LEMMA HostDiesStep ==
  ASSUME ToolsInv, NEW c \in Calls, HostDies(c)
  PROVE  Moved(c)
<1>1. UNCHANGED <<written, file, known>> /\ host' = None /\ Ends(c, "failed")
  BY DEF HostDies, fileVars
<1>2. Grows(c) /\ c \in Writers
  BY <1>1 DEF Grows, Writers
<1> QED
  BY <1>1, <1>2, KnownKept, EndsStep

\* create() looks for its file.
LEMMA VerifyStep ==
  ASSUME ToolsInv, NEW c \in Calls, Verify(c)
  PROVE  Moved(c)
<1>1. UNCHANGED <<written, file, host, known>> /\ step[c] = "verify"
  BY DEF Verify, fileVars
<1>2. /\ DOMAIN call = Calls /\ DOMAIN call[c] = Fields
      /\ {call[c].current, call[c].before, call[c].markup} \subseteq 0..Len(written)
      /\ step \in [Calls -> Steps] /\ host \in Calls \cup {None} /\ KnownFits /\ CallFits(c)
      /\ c \in Writers
  BY Begins
<1>3. Grows(c)
  BY <1>1 DEF Grows
<1>4. KnownFits'
  BY <1>1, <1>2, <1>3, KnownKept
<1>5. CASE file = 0 /\ Ends(c, "create_not_persisted")
  BY <1>1, <1>2, <1>3, <1>4, <1>5, EndsStep
<1>6. CASE Ends(c, "create_unverified")
  BY <1>1, <1>2, <1>3, <1>4, <1>6, EndsStep
<1>7. CASE call' = [call EXCEPT ![c].back = TRUE] /\ Goto(c, "before")
  <2>1. /\ call'[c].back = TRUE
        /\ \A field \in Fields \ {"back"} : call'[c][field] = call[c][field]
        /\ DOMAIN call' = Calls /\ DOMAIN call'[c] = Fields
        /\ \A d \in Calls \ {c} : call'[d] = call[d]
    BY <1>2, <1>7 DEF Fields
  <2>2. Goto(c, "before") /\ "before" \in Steps \ {"done"} /\ step'[c] = "before"
    BY <1>2, <1>7 DEF Goto, Steps
  <2>3. /\ call'[c].current = call[c].current /\ call'[c].markup = call[c].markup
        /\ call'[c].before = call[c].before
        /\ call'[c].kind = call[c].kind /\ call'[c].told = call[c].told
    BY <2>1 DEF Fields
  <2>4. KindFits(c)' /\ RequestFits(c)' /\ WritesFit(c)' /\ ReadFits(c)'
    BY <1>1, <1>2, <2>1, <2>2, <2>3 DEF CallFits, KindFits, RequestFits, WritesFit,
       ReadFits,
        CreateSteps, EditSteps, ReadSteps, Wrote, Damaged
  <2> QED
    BY <1>1, <1>2, <1>3, <1>4, <2>1, <2>2, <2>3, <2>4, GoesOn
<1> QED
  BY <1>5, <1>6, <1>7 DEF Verify

\* Another program changes the file, or nothing happens.
LEMMA OthersStep ==
  ASSUME ToolsInv, OtherWrites \/ OtherDeletes \/ UNCHANGED toolsVars
  PROVE  ToolsInv'
<1>1. UNCHANGED <<host, known, step, call>>
  BY DEF OtherWrites, OtherDeletes, toolsVars
<1>2. Grows(Other) /\ Other \in Writers
  <2>1. CASE OtherWrites
    BY <2>1 DEF OtherWrites, Grows, AllDocuments, Unedited, Writers
  <2>2. CASE OtherDeletes
    BY <2>2 DEF OtherDeletes, Grows, Writers
  <2>3. CASE UNCHANGED toolsVars
    BY <2>3 DEF toolsVars, Grows, Writers
  <2> QED
    BY <2>1, <2>2, <2>3
<1>3. ToolsTypeOK
  BY DEF ToolsInv
<1>4. /\ written' \in Seq([doc : AllDocuments \cup {Damaged}, by : Writers])
      /\ file' \in 0..Len(written')
      /\ Len(written) \in Nat /\ Len(written') \in Nat /\ Len(written) <= Len(written')
  BY <1>2, <1>3, FileFacts
<1>5. ToolsTypeOK'
  <2>1. \A c \in Calls :
          {call[c].current, call[c].before, call[c].markup} \subseteq 0..Len(written')
    BY <1>3, <1>4 DEF ToolsTypeOK
  <2> QED
    BY <1>1, <1>3, <1>4, <2>1 DEF ToolsTypeOK, Damaged, Writers
<1>6. \A c \in Calls : CallFits(c)' /\ ReportIsTrue(c)'
  <2> SUFFICES ASSUME NEW c \in Calls PROVE CallFits(c)' /\ ReportIsTrue(c)'
    OBVIOUS
  <2>1. c # Other
    BY ToolsAssumption
  <2> QED
    BY <1>1, <1>2, <2>1, OthersKeep
<1>7. KnownFits' /\ CallsAreCalls'
  BY <1>1, <1>2, KnownKept DEF ToolsInv, CallsAreCalls, NewCall
<1> QED
  BY <1>5, <1>6, <1>7 DEF ToolsInv
-----------------------------------------------------------------------------
\* Every step of a call.
LEMMA CallStep ==
  ASSUME ToolsInv, NEW c \in Calls, Asks(c) \/ Reading(c) \/ Editing(c) \/ Creating(c)
  PROVE  Moved(c)
<1>1. CASE Asks(c)
  BY <1>1, AskReadStep, AskEditStep, AskCreateStep DEF Asks
<1>2. CASE Reading(c)
  BY <1>2, TokenBeforeStep, FetchStep, TokenAfterStep DEF Reading
<1>3. CASE Editing(c)
  BY <1>3, EditChecksStep, HostEditsStep DEF Editing
<1>4. CASE Creating(c)
  BY <1>4, ExistsStep, VerifyStep, HostCreatesStep, HostBuildsStep, HostLooksStep,
     HostSavesStep, HostCleansUpStep, HostDiesStep DEF Creating
<1> QED
  BY <1>1, <1>2, <1>3, <1>4

\* The invariant holds of every reachable state.
LEMMA ToolsInvHolds == ToolsSpec => []ToolsInv
<1>1. ASSUME ToolsInv, [ToolsNext]_toolsVars
      PROVE  ToolsInv'
  <2>1. ASSUME NEW c \in Calls, Asks(c) \/ Reading(c) \/ Editing(c) \/ Creating(c)
        PROVE  ToolsInv'
    BY <1>1, <2>1, CallStep, MovedKeeps
  <2> QED
    BY <1>1, <2>1, OthersStep DEF ToolsNext
<1> QED
  BY <1>1, ToolsInitHolds, PTL DEF ToolsSpec

\* Every variable of the tools keeps its type, and no call refers to a write to come.
THEOREM ToolsTypeCorrect == ToolsSpec => []ToolsTypeOK
<1>1. ToolsInv => ToolsTypeOK
  BY DEF ToolsInv
<1> QED
  BY <1>1, ToolsInvHolds, PTL

\* What create_document reports of the file is so, for any number of calls that create
\* or edit it, and another program that writes or deletes it: Cmd-Create removes what a
\* failed save has left or says that it is still there.
THEOREM CreateReports == ToolsSpec => []CreateReportsAreTrue
<1>1. ToolsInv => CreateReportsAreTrue
  BY DEF ToolsInv, ReportIsTrue, CreateReportsAreTrue, Wrote
<1> QED
  BY <1>1, ToolsInvHolds, PTL

-----------------------------------------------------------------------------
\* A caller is given a map at the end of a read whose two tokens agree.
LEMMA OnlyReadsAreKept ==
  ASSUME ToolsInv, ToolsNext, known' # known
  PROVE  \E c \in Calls : TokenAfter(c) /\ known' = Page(c) /\ file # 0 /\ SameToken(c)
<1>1. PICK c \in Calls : Asks(c) \/ Reading(c) \/ Editing(c) \/ Creating(c)
  BY DEF ToolsNext, OtherWrites, OtherDeletes
<1>2. TokenAfter(c)
  BY <1>1 DEF Asks, AskRead, AskEdit, AskCreate, Reading, TokenBefore, Fetch, Editing,
     EditChecks,
     HostEdits, Creating, Exists, Verify, HostCreates, HostBuilds, HostLooks, HostSaves,
     HostCleansUp, HostDies
<1> QED
  BY <1>2 DEF TokenAfter

\* Then what was exported between the two is what they are the token of.
LEMMA KeptIsOfItsToken ==
  ASSUME ToolsInv, NEW c \in Calls, TokenAfter(c), known' = Page(c), file # 0, SameToken(c)
  PROVE  /\ known'.token = call[c].markup /\ written' = written
         /\ known'.map = Maps[written[known'.token].doc][known'.paging]
         /\ written[known'.token].doc \in AllDocuments /\ known'.paging \in Pagings
<1>1. step[c] = "after" /\ written' = written /\ file = call[c].before
  BY DEF TokenAfter, SameToken, fileVars
<1>2. Len(written) \in Nat /\ file \in 0..Len(written) /\ CallFits(c)
  BY Begins
<1>3. call[c].markup \in call[c].before..Len(written) /\ file >= call[c].markup
  BY <1>1, <1>2 DEF CallFits, ReadFits
<1>4. call[c].markup = call[c].before
  BY <1>1, <1>2, <1>3
<1> QED
  BY <1>1, <1>4, PageIsShown

\* The map a caller is given is built of the document its token is of, whatever another
\* program, an edit or a create writes while it is read (read(): the tokens before and
\* after the export are compared).
THEOREM MapIsOfItsToken ==
  ToolsSpec =>
    [][known' # known =>
          known'.map = Maps[written[known'.token].doc][known'.paging]]_toolsVars
<1> DEFINE A == known' # known =>
                  known'.map = Maps[written[known'.token].doc][known'.paging]
<1>1. ToolsInv /\ [ToolsNext]_toolsVars => [A]_toolsVars
  BY OnlyReadsAreKept, KeptIsOfItsToken
<1> QED
  BY <1>1, ToolsInvHolds, PTL DEF ToolsSpec

\* If what is built of a markup describes its document, then every map a caller is given
\* describes the document its token is of, and the outline joined to it does.
THEOREM MapsAreTheDocument ==
  ASSUME MapsDescribe
  PROVE  ToolsSpec => MapIsTheDocument
<1> DEFINE A == known' # known =>
                  Describes(known'.map, known'.paging, written[known'.token].doc)
<1>1. ToolsInv /\ [ToolsNext]_toolsVars => [A]_toolsVars
  <2> SUFFICES ASSUME ToolsInv, ToolsNext, known' # known PROVE A
    OBVIOUS
  <2>1. PICK c \in Calls : TokenAfter(c) /\ known' = Page(c) /\ file # 0 /\ SameToken(c)
    BY OnlyReadsAreKept
  <2>2. /\ known'.map = Maps[written[known'.token].doc][known'.paging]
        /\ written[known'.token].doc \in AllDocuments /\ known'.paging \in Pagings
    BY <2>1, KeptIsOfItsToken
  <2> QED
    BY <2>2 DEF MapsDescribe
<1>2. ToolsSpec => [][A]_toolsVars
  BY <1>1, ToolsInvHolds, PTL DEF ToolsSpec
<1> QED
  BY <1>2 DEF MapIsTheDocument

-----------------------------------------------------------------------------
\* What was written last.
LEMMA PutIsLast ==
  ASSUME ToolsTypeOK, NEW doc \in AllDocuments \cup {Damaged}, NEW by \in Writers, Put(doc,
         by)
  PROVE  Last(written') = [doc |-> doc, by |-> by]
<1> DEFINE W == [doc : AllDocuments \cup {Damaged}, by : Writers]
           new == [doc |-> doc, by |-> by]
<1>1. written \in Seq(W) /\ new \in W
  BY DEF ToolsTypeOK
<1>2. written' = Append(written, new)
  BY DEF Put
<1> HIDE DEF W, new
<1>3. /\ Append(written, new)[Len(written) + 1] = new
      /\ Len(Append(written, new)) = Len(written) + 1
  BY <1>1, AppendProperties
<1>4. Last(written') = new
  BY <1>2, <1>3 DEF Last
<1> QED
  BY <1>4 DEF new

\* While a call is at its edit, what is written in its name is written by Cmd-Edit.
LEMMA OnlyTheHostEdits ==
  ASSUME ToolsInv, ToolsNext, NEW c \in Calls, step[c] = "edit", written' # written,
         Last(written').by = c
  PROVE  HostEdits(c)
<1>1. ToolsTypeOK /\ Other # c /\ Other \in Writers /\ Calls \subseteq Writers
  BY ToolsAssumption DEF ToolsInv, Writers
<1>2. ~OtherWrites
  <2> SUFFICES ASSUME OtherWrites PROVE FALSE
    OBVIOUS
  <2>1. PICK d \in Documents : Put(d, Other)
    BY DEF OtherWrites
  <2>2. d \in AllDocuments
    BY DEF AllDocuments, Unedited
  <2>3. Last(written') = [doc |-> d, by |-> Other]
    BY <1>1, <2>1, <2>2, PutIsLast
  <2> QED
    BY <1>1, <2>3
<1>3. PICK d \in Calls : Asks(d) \/ Reading(d) \/ Editing(d) \/ Creating(d)
  BY <1>2 DEF ToolsNext, OtherDeletes
<1>4. HostEdits(d) \/ HostSaves(d)
  BY <1>3 DEF Asks, AskRead, AskEdit, AskCreate, Reading, TokenBefore, Fetch, TokenAfter,
     Editing,
     EditChecks, Creating, Exists, Verify, HostCreates, HostBuilds, HostLooks, HostCleansUp,
     HostDies, fileVars
<1>5. \E doc \in AllDocuments \cup {Damaged} : Put(doc, d)
  <2>1. CASE HostEdits(d)
    BY <2>1 DEF HostEdits, fileVars
  <2>2. CASE HostSaves(d)
    <3>1. step[d] = "save"
      BY <2>2 DEF HostSaves
    <3>2. Authored(call[d].request) \in AllDocuments
      BY <3>1, AuthoredIsDocument
    <3> QED
      BY <2>2, <3>2 DEF HostSaves, fileVars
  <2> QED
    BY <1>4, <2>1, <2>2
<1>6. d = c
  <2>1. PICK doc \in AllDocuments \cup {Damaged} : Put(doc, d)
    BY <1>5
  <2>2. Last(written') = [doc |-> doc, by |-> d]
    BY <1>1, <2>1, PutIsLast
  <2> QED
    BY <2>2
<1> QED
  BY <1>4, <1>6 DEF HostSaves

\* The address of a request is for the map: the host changes what the operation says.
LEMMA AddressIsForTheMap ==
  ASSUME NEW change \in Changes, NEW address, NEW request,
         request = [change EXCEPT !.address = address]
  PROVE  /\ request.address = address /\ request.op = change.op
         /\ \A doc, i : Edited(doc, i, request) = Edited(doc, i, change)
         /\ \A old, new, n :
               IsChanged(old, new, n, request) <=> IsChanged(old, new, n, change)
<1>1. DOMAIN change = {"op", "address", "text", "headingLevel"}
  BY DEF Changes, Intent
<1>2. /\ request.op = change.op /\ request.text = change.text /\ request.address = address
      /\ request.headingLevel = change.headingLevel
  BY <1>1
<1>3. \A doc, i : Edited(doc, i, request) = Edited(doc, i, change)
  BY <1>2 DEF Edited
<1>4. \A old, new, n : IsChanged(old, new, n, request) <=> IsChanged(old, new, n, change)
  BY <1>2 DEF IsChanged
<1> QED
  BY <1>2, <1>3, <1>4

\* Cmd-Edit writes the change that was asked, of a paragraph with the text its caller
\* was shown: the address has that text in it, the map has the address, and the host
\* compares the text of the map with that of the paragraph it is about to change.
LEMMA HostEditsWhatWasShown ==
  ASSUME AddressesName, ChangesAreAsAsked, ToolsInv, NEW c \in Calls, HostEdits(c),
         written' # written
  PROVE  LET old == Contents(written[file].doc)
             new == Contents(Last(written').doc)
         IN  \E n \in DOMAIN old :
                /\ NormalizeText(old[n].text) = NormalizeText(call[c].shown)
                /\ IsChanged(old, new, n, call[c].request)
<1> DEFINE doc == written[file].doc
           target == call[c].target
           n == target.wordIndex
           i == Located(doc, n)
           request == call[c].request
           new == Edited(doc, i, request)
<1>1. /\ step[c] = "edit" /\ file # 0 /\ doc # Damaged /\ IsAt(doc, target)
      /\ doc[i].what = "p"
      /\ request.op = "delete_paragraph" => Len(WordTexts(new)) = Len(WordTexts(doc)) - 1
      /\ new \in AllDocuments /\ Put(new, c)
  BY DEF HostEdits, fileVars
<1>2. /\ file \in 0..Len(written) /\ DOMAIN written = 1..Len(written)
      /\ Len(written) \in Nat
      /\ CallFits(c) /\ c \in Writers /\ ToolsTypeOK
  BY Begins DEF ToolsInv
<1>3. doc \in AllDocuments
  <2>1. /\ written \in Seq([doc : AllDocuments \cup {Damaged}, by : Writers])
        /\ file \in 1..Len(written)
    BY <1>1, <1>2 DEF ToolsTypeOK
  <2>2. written[file] \in [doc : AllDocuments \cup {Damaged}, by : Writers]
    BY <1>2, <2>1, ElementOfSeq
  <2> QED
    BY <1>1, <2>2
<1>4. Last(written').doc = new
  <2> HIDE DEF new
  <2>1. Last(written') = [doc |-> new, by |-> c]
    BY <1>1, <1>2, PutIsLast
  <2> QED
    BY <2>1
<1>5. target \in Shown /\ target.address = request.address /\ AskedOf(c)
  BY <1>1, <1>2 DEF CallFits, KindFits, RequestFits, EditSteps
<1>6. PICK entry \in Shown \cup {Nobody}, change \in Changes :
        /\ request = [change EXCEPT !.address = entry.address]
        /\ call[c].shown = entry.text
  BY <1>5 DEF AskedOf
<1>7. /\ request.address = entry.address /\ request.op = change.op
      /\ new = Edited(doc, i, change)
      /\ \A before, after, m :
            IsChanged(before, after, m, request) <=> IsChanged(before, after, m, change)
  BY <1>6, AddressIsForTheMap
<1>8. NormalizeText(target.text) = NormalizeText(call[c].shown)
  <2>1. target.address # Nobody.address /\ target.address[2] = NormalizeText(target.text)
    BY <1>5 DEF AddressesName
  <2>2. entry \in Shown
    BY <1>5, <1>6, <1>7, <2>1
  <2>3. entry.address[2] = NormalizeText(entry.text)
    BY <2>2 DEF AddressesName
  <2> QED
    BY <1>5, <1>6, <1>7, <2>1, <2>3
<1>9. /\ n \in DOMAIN WordTexts(doc)
      /\ NormalizeText(WordTexts(doc)[n]) = NormalizeText(target.text)
  BY <1>1 DEF IsAt
<1>10. n \in DOMAIN Contents(doc) /\ Contents(doc)[n].text = WordTexts(doc)[n]
  BY <1>9 DEF Contents, WordTexts
<1>11. IsChanged(Contents(doc), Contents(new), n, change)
  BY <1>1, <1>3, <1>7, <1>9 DEF ChangesAreAsAsked
<1> QED
  BY <1>4, <1>7, <1>8, <1>9, <1>10, <1>11

\* If an address has the text of its paragraph in it, and a change the host makes to a
\* paragraph is the one that was asked for, then an edit changes a paragraph with the
\* text its caller was shown, that one only, and as asked: even when another program
\* writes between the read and Cmd-Edit, which is handed an index it does not trust.
THEOREM EditsHitWhatWasRead ==
  ASSUME AddressesName, ChangesAreAsAsked
  PROVE  ToolsSpec => EditHitsWhatWasRead
<1> DEFINE A ==
      \A c \in Calls :
          step[c] = "edit" /\ written' # written /\ Last(written').by = c =>
              LET old == Contents(written[file].doc)
                  new == Contents(Last(written').doc)
              IN  \E n \in DOMAIN old :
                     /\ NormalizeText(old[n].text) = NormalizeText(call[c].shown)
                     /\ IsChanged(old, new, n, call[c].request)
<1>1. ToolsInv /\ [ToolsNext]_toolsVars => [A]_toolsVars
  <2> SUFFICES ASSUME ToolsInv, ToolsNext,
                      NEW c \in Calls, step[c] = "edit", written' # written,
                      Last(written').by = c
               PROVE  LET old == Contents(written[file].doc)
                          new == Contents(Last(written').doc)
                      IN  \E n \in DOMAIN old :
                             /\ NormalizeText(old[n].text) = NormalizeText(call[c].shown)
                             /\ IsChanged(old, new, n, call[c].request)
    OBVIOUS
  <2>1. HostEdits(c)
    BY OnlyTheHostEdits
  <2> QED
    BY <2>1, HostEditsWhatWasShown
<1>2. ToolsSpec => [][A]_toolsVars
  BY <1>1, ToolsInvHolds, PTL DEF ToolsSpec
<1> QED
  BY <1>2 DEF EditHitsWhatWasRead
=============================================================================
