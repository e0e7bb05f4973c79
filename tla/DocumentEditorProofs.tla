------------------------- MODULE DocumentEditorProofs -------------------------
(***************************************************************************)
(* Proofs about DocumentEditor, for every set of calls and every bound.    *)
(*                                                                         *)
(* The inductive invariant IInv says why a rollback restores the right     *)
(* snapshot.  TurnInv: a call between its first and its last step is the   *)
(* head of the queue, so no other call touches the snapshot directory      *)
(* meanwhile.  SnapsInv: names are unique, and every part of the directory *)
(* has a newest member.  OwnInv: from takeSnapshot to the restore, the     *)
(* newest snapshot is the call's own, unless it was named out of order.    *)
(*                                                                         *)
(* ReportInv adds what the calls report, and HistoryInv what the snapshot  *)
(* directory is as an undo history: the last section maps every step of    *)
(* the editor to a step of EditHistory, while names follow the clock.      *)
(***************************************************************************)
EXTENDS DocumentEditorHistory, SequenceTheorems, FiniteSetTheorems, TLAPS

CallStates == EditSteps \cup SharedSteps
            \cup {"idle", "queued", "listing", "done", "aborted"}

HopStates == {"none", "sent", "open", "saving", "saved", "edited", "refused", "error"}

TurnInv == \A c \in Calls : Running(c) => queue # <<>> /\ Head(queue) = c

IsNewest(s, S) == s \in S /\ \A t \in S : t.name <= s.name

SnapsInv ==
    /\ \A s \in snaps : s.name \in named
    /\ \A s, t \in snaps : s.name = t.name => s = t
    /\ \A S \in SUBSET snaps : S # {} => \E s \in S : IsNewest(s, S)
    /\ ~ClockGoesBack => misnamed = {}

\* The steps at which a call relies on the snapshot it took.
NeedsOwn(c) ==
    \/ pc[c] \in {"retaining", "sending", "waiting", "verifying", "recovering"}
    \/ pc[c] = "restoring" /\ op[c] = "edit"

\* It took one, and unless that was named out of order it is the newest.
HasOwn(c) ==
    /\ mine[c] \in Nat
    /\ c \notin misnamed =>
           \E s \in snaps : s.name = mine[c] /\ s.by = c /\ IsNewest(s, snaps)

OwnInv ==
    \A c \in Calls :
        /\ pc[c] = "removing" => victim[c] \in Nat
        /\ pc[c] = "listing" => op[c] = "revert"
        /\ NeedsOwn(c) => HasOwn(c)

IInv == TypeOK /\ TurnInv /\ SnapsInv /\ OwnInv

USE DEF nameVars

-----------------------------------------------------------------------------
(* Facts about the snapshot directory.                                     *)

\* Newest picks a member with the greatest name whenever there is one.
LEMMA NewestIsNewest ==
  ASSUME NEW S, \E s \in S : IsNewest(s, S)
  PROVE  IsNewest(Newest(S), S)
  BY DEF Newest, IsNewest

\* Retention only removes, and never the newest.
LEMMA RetainedKeepsNewest ==
  ASSUME NEW S \in SUBSET Snapshot, NEW s, IsNewest(s, S)
  PROVE  Retained(S) \subseteq S /\ IsNewest(s, Retained(S))
<1>1. {t \in S : t.name > s.name} = {}
  BY DEF IsNewest, Snapshot
<1>2. Cardinality({t \in S : t.name > s.name}) < MaxSnapshots
  BY <1>1, FS_EmptySet, EditorAssumption
<1> QED
  BY <1>2 DEF Retained, IsNewest

\* So does what is left when a deletion fails.
LEMMA PrunedKeepsNewest ==
  ASSUME NEW S \in SUBSET Snapshot, NEW s, IsNewest(s, S), NEW T \in Pruned(S)
  PROVE  T \subseteq S /\ IsNewest(s, T)
<1>1. Retained(S) \subseteq S /\ IsNewest(s, Retained(S))
  BY RetainedKeepsNewest
<1>2. Retained(S) \subseteq T /\ T \subseteq S
  BY <1>1 DEF Pruned
<1> QED
  BY <1>1, <1>2 DEF IsNewest

\* A directory that only lost files keeps its order.
LEMMA SnapsInvMonotonic ==
  ASSUME SnapsInv, snaps' \subseteq snaps, UNCHANGED nameVars
  PROVE  SnapsInv'
  BY DEF SnapsInv, IsNewest

-----------------------------------------------------------------------------
(* The frame of a call's step.                                             *)

\* The invariant holds initially.
LEMMA InvInit == Init => IInv
  BY EditorAssumption
  DEF Init, IInv, TypeOK, TurnInv, SnapsInv, OwnInv, NeedsOwn, Running, EditSteps,
      SharedSteps, Outcomes

\* While the call at the head of the queue moves, no other call is running.
LEMMA OthersIdle ==
  ASSUME IInv, NEW c \in Calls, queue # <<>>, Head(queue) = c
  PROVE  \A d \in Calls : Running(d) => d = c
  BY DEF IInv, TurnInv

\* A step to the next stage keeps the turn.
LEMMA GotoKeepsTurn ==
  ASSUME IInv, NEW c \in Calls, queue # <<>>, Head(queue) = c,
         NEW step \in EditSteps \cup SharedSteps \cup {"listing"},
         Goto(c, step)
  PROVE  /\ TurnInv'
         /\ pc' = [pc EXCEPT ![c] = step]
         /\ pc' \in [Calls -> CallStates]
         /\ queue' \in Seq(Calls)
         /\ outcome' \in [Calls -> Outcomes]
  BY DEF IInv, TypeOK, TurnInv, Running, Goto, CallStates

\* The end of a call leaves nobody running.
LEMMA FinishKeepsTurn ==
  ASSUME IInv, NEW c \in Calls, queue # <<>>, Head(queue) = c,
         NEW result \in Outcomes, Finish(c, result)
  PROVE  /\ TurnInv'
         /\ pc' = [pc EXCEPT ![c] = "done"]
         /\ pc' \in [Calls -> CallStates]
         /\ queue' \in Seq(Calls)
         /\ outcome' \in [Calls -> Outcomes]
<1>1. Tail(queue) \in Seq(Calls)
  BY HeadTailProperties DEF IInv, TypeOK
<1>2. pc' = [pc EXCEPT ![c] = "done"] /\ pc \in [Calls -> CallStates]
  BY DEF Finish, IInv, TypeOK, CallStates
<1>3. \A d \in Calls : ~Running(d)'
  BY <1>2, OthersIdle DEF Running, EditSteps, SharedSteps
<1> QED
  BY <1>1, <1>2, <1>3 DEF IInv, TypeOK, TurnInv, Finish, CallStates

\* Every step of a call is taken in its turn and is a Goto or a Finish.
LEMMA CallStepShape ==
  ASSUME IInv, NEW c \in Calls, CallStep(c)
  PROVE  /\ queue # <<>> /\ Head(queue) = c
         /\ TurnInv'
         /\ \E p \in EditSteps \cup SharedSteps \cup {"listing", "done"} :
                pc' = [pc EXCEPT ![c] = p]
         /\ pc' \in [Calls -> CallStates]
         /\ queue' \in Seq(Calls)
         /\ outcome' \in [Calls -> Outcomes]
<1>1. queue # <<>> /\ Head(queue) = c
  BY DEF CallStep, IInv, TurnInv, Running, EditSteps, SharedSteps, MyTurn,
     BeginEdit, ReadBefore, TakeSnapshot, ApplyRetention, SendEdit, HostAnswers,
     HostTimesOut, Verify, Recover, BeginRevert, CheckRevert, Restore, RemoveRestored, ReadBack
<1>2. \/ \E step \in EditSteps \cup SharedSteps \cup {"listing"} : Goto(c, step)
      \/ \E result \in Outcomes : Finish(c, result)
  BY DEF CallStep, EditSteps, SharedSteps, Outcomes, RestoreFailed,
     BeginEdit, ReadBefore, TakeSnapshot, ApplyRetention, SendEdit, HostAnswers,
     HostTimesOut, Verify, Recover, BeginRevert, CheckRevert, Restore, RemoveRestored, ReadBack
<1> QED
  BY <1>1, <1>2, GotoKeepsTurn, FinishKeepsTurn

\* So OwnInv has to be shown again only of the call that moved.
LEMMA OwnInvOfMover ==
  ASSUME IInv, NEW c \in Calls, queue # <<>>, Head(queue) = c,
         NEW p, pc' = [pc EXCEPT ![c] = p],
         p = "removing" => victim'[c] \in Nat,
         p = "listing" => op'[c] = "revert",
         misnamed \subseteq misnamed',
         NeedsOwn(c)' => HasOwn(c)'
  PROVE  OwnInv'
<1>1. ASSUME NEW d \in Calls, d # c
      PROVE  pc'[d] \notin EditSteps \cup SharedSteps \cup {"listing"}
  BY <1>1, OthersIdle DEF Running, IInv, TypeOK
<1> QED
  BY <1>1 DEF OwnInv, NeedsOwn, EditSteps, SharedSteps, IInv, TypeOK

-----------------------------------------------------------------------------
(* One lemma for the steps of a call that leave the snapshots alone, and   *)
(* one for each that does not.                                             *)

\* Steps of a call that only move it on leave the directory to its owner.
LEMMA PlainStep ==
  ASSUME IInv, NEW c \in Calls,
         \/ BeginEdit(c) \/ ReadBefore(c) \/ SendEdit(c) \/ HostTimesOut(c)
         \/ BeginRevert(c) \/ CheckRevert(c) \/ ReadBack(c)
  PROVE  IInv'
<1> USE DEF fileVars, snapVars, callVars, hostVars
<1>1. CallStep(c)
  BY DEF CallStep
<1>2. TypeOK'
  <2>1. CASE BeginEdit(c) \/ BeginRevert(c)
    <3>1. \/ file \in Nat /\ current' = [current EXCEPT ![c] = file]
          \/ UNCHANGED current
      BY <2>1 DEF BeginEdit, BeginRevert, Readable, IInv, TypeOK
    <3>2. current' \in [Calls -> Nat]
      BY <3>1 DEF IInv, TypeOK
    <3> QED
      BY <1>1, <2>1, <3>2, CallStepShape DEF BeginEdit, BeginRevert, IInv, TypeOK, CallStates
  <2>2. CASE ReadBefore(c) \/ CheckRevert(c) \/ ReadBack(c)
    BY <1>1, <2>2, CallStepShape
    DEF ReadBefore, CheckRevert, ReadBack, IInv, TypeOK, CallStates
  <2>3. CASE SendEdit(c) \/ HostTimesOut(c)
    BY <1>1, <2>3, CallStepShape DEF SendEdit, HostTimesOut, IInv, TypeOK, CallStates
  <2> QED
    BY <2>1, <2>2, <2>3
<1>3. SnapsInv'
  BY SnapsInvMonotonic
  DEF IInv, BeginEdit, ReadBefore, SendEdit, HostTimesOut, BeginRevert, CheckRevert,
      ReadBack
<1>4. OwnInv'
  <2>1. PICK p \in EditSteps \cup SharedSteps \cup {"listing", "done"} :
           pc' = [pc EXCEPT ![c] = p]
    BY <1>1, CallStepShape
  <2>2. pc \in [Calls -> CallStates] /\ pc'[c] = p
    BY <2>1 DEF IInv, TypeOK, CallStates
  <2>3. UNCHANGED <<snaps, mine, op, misnamed>>
    BY DEF BeginEdit, ReadBefore, SendEdit, HostTimesOut, BeginRevert, CheckRevert,
       ReadBack
  <2>4. CASE BeginEdit(c) \/ ReadBefore(c) \/ ReadBack(c)
    <3>1. p \in {"reading", "snapshotting", "done"}
      BY <2>2, <2>4 DEF BeginEdit, ReadBefore, ReadBack, Goto, Finish, IInv, TypeOK
    <3> QED
      BY <3>1, <2>1, <2>2, <2>3, <1>1, CallStepShape, OwnInvOfMover DEF NeedsOwn
  <2>5. CASE SendEdit(c) \/ HostTimesOut(c)
    <3>1. p \in {"waiting", "recovering"} /\ NeedsOwn(c)
      BY <2>2, <2>5 DEF SendEdit, HostTimesOut, Goto, IInv, TypeOK, NeedsOwn
    <3> QED
      <4>1. HasOwn(c)'
        BY <2>3, <3>1 DEF IInv, OwnInv, HasOwn, IsNewest
      <4> QED
        BY <3>1, <2>1, <2>3, <4>1, <1>1, CallStepShape, OwnInvOfMover
  <2>6. CASE BeginRevert(c) \/ CheckRevert(c)
    <3>1. p \in {"listing", "restoring", "done"} /\ op[c] = "revert"
      BY <2>2, <2>6 DEF BeginRevert, CheckRevert, Goto, Finish, IInv, TypeOK, OwnInv
    <3> QED
      BY <3>1, <2>1, <2>2, <2>3, <1>1, CallStepShape, OwnInvOfMover DEF NeedsOwn
  <2> QED
    BY <2>4, <2>5, <2>6
<1> QED
  BY <1>1, <1>2, <1>3, <1>4, CallStepShape DEF IInv

\* The copy gets a name above all others and is the call's own newest.
LEMMA TakeSnapshotStep ==
  ASSUME IInv, NEW c \in Calls, TakeSnapshot(c)
  PROVE  IInv'
<1> USE DEF fileVars, snapVars, hostVars
<1>0. CallStep(c) /\ pc \in [Calls -> CallStates] /\ pc[c] = "snapshotting"
  BY DEF CallStep, TakeSnapshot, IInv, TypeOK, CallStates
<1>1. CASE UNCHANGED <<snaps, nameVars, mine>> /\ Finish(c, "refused")
  <2>1. UNCHANGED <<victim, op>> /\ pc' = [pc EXCEPT ![c] = "done"]
    BY <1>1 DEF TakeSnapshot, Finish
  <2>2. SnapsInv'
    BY <1>1, SnapsInvMonotonic DEF IInv
  <2>3. OwnInv'
    BY <1>0, <1>1, <2>1, CallStepShape, OwnInvOfMover DEF NeedsOwn
  <2>4. TypeOK'
    BY <1>0, <1>1, CallStepShape DEF TakeSnapshot, IInv, TypeOK, CallStates
  <2> QED
    BY <1>0, <2>2, <2>3, <2>4, CallStepShape DEF IInv
<1>2. ASSUME NEW n \in NewNames,
           Readable,
           snaps' = snaps \cup {[name |-> n, bytes |-> file, by |-> c]},
           named' = named \cup {n},
           misnamed' = IF \A s \in snaps : s.name < n THEN misnamed
                                                     ELSE misnamed \cup {c},
           mine' = [mine EXCEPT ![c] = n],
           Goto(c, "retaining")
    PROVE  IInv'
  <2> DEFINE s == [name |-> n, bytes |-> file, by |-> c]
  <2>0. n \in Nat /\ n \notin named
    BY EditorAssumption DEF NewNames
  <2>1. snaps' = snaps \cup {s} /\ pc' = [pc EXCEPT ![c] = "retaining"]
    BY <1>2 DEF Goto
  <2>2. s \in Snapshot /\ snaps' \in SUBSET Snapshot
    BY <1>2, <2>0 DEF Readable, IInv, TypeOK, Snapshot
  <2>3. c \notin misnamed' => IsNewest(s, snaps')
    BY <1>2, <2>1, <2>2 DEF IsNewest, Snapshot, IInv, TypeOK
  <2>4. SnapsInv'
    <3>1. \A t \in snaps' : t.name \in named'
      BY <1>2, <2>2 DEF IInv, SnapsInv, TypeOK, Snapshot
    <3>2. \A t, u \in snaps' : t.name = u.name => t = u
      BY <2>0, <2>1, <2>2 DEF IInv, SnapsInv, TypeOK, Snapshot
    <3>3. ASSUME NEW T \in SUBSET snaps', T # {} PROVE \E t \in T : IsNewest(t, T)
      <4>1. T \ {s} \in SUBSET snaps
        BY <2>1
      <4>2. CASE T \ {s} = {}
        <5>1. T = {s} /\ s.name \in Nat
          BY <2>0, <3>3, <4>2
        <5> QED
          BY <5>1 DEF IsNewest
      <4>3. CASE T \ {s} # {}
        <5>1. PICK t \in T \ {s} : IsNewest(t, T \ {s})
          BY <4>1, <4>3 DEF IInv, SnapsInv
        <5>2. \A u \in T : u.name \in Nat
          BY <2>2 DEF Snapshot
        <5>3. s \notin T \/ s.name <= t.name \/ t.name <= s.name
          BY <5>1, <5>2
        <5>4. CASE s \notin T \/ s.name <= t.name
          BY <5>1, <5>4 DEF IsNewest
        <5>5. CASE s \in T /\ t.name <= s.name
          <6>1. \A u \in T : u.name <= s.name
            BY <5>1, <5>2, <5>5 DEF IsNewest
          <6> QED
            BY <5>5, <6>1 DEF IsNewest
        <5> QED
          BY <5>3, <5>4, <5>5
      <4> QED
        BY <4>2, <4>3
    <3>4. ~ClockGoesBack => misnamed' = {}
      BY <1>2 DEF NewNames, IInv, SnapsInv
    <3> QED
      BY <3>1, <3>2, <3>3, <3>4 DEF SnapsInv
  <2>5. OwnInv'
    <3>1. s.name = mine'[c] /\ s.by = c /\ s \in snaps'
      BY <1>2, <2>1 DEF IInv, TypeOK
    <3>2. mine'[c] \in Nat /\ misnamed \subseteq misnamed'
      BY <1>2, <2>0 DEF IInv, TypeOK
    <3>3. HasOwn(c)'
      BY <2>3, <3>1, <3>2 DEF HasOwn
    <3> HIDE DEF s
    <3> QED
      BY <1>0, <2>1, <3>2, <3>3, CallStepShape, OwnInvOfMover
  <2>6. TypeOK'
    <3>1. /\ named' \in SUBSET Nat /\ misnamed' \in SUBSET Calls
          /\ mine' \in [Calls -> Nat \cup {None}]
      BY <1>2, <2>0 DEF IInv, TypeOK
    <3>2. UNCHANGED <<file, fresh, since, holder, spent, crashes, op, token, current,
                      victim, hop, killed, savedAs>>
      BY DEF TakeSnapshot
    <3> QED
      BY <1>0, <2>2, <3>1, <3>2, CallStepShape DEF IInv, TypeOK, CallStates
  <2> QED
    BY <1>0, <2>4, <2>5, <2>6, CallStepShape DEF IInv
<1> QED
  BY <1>1, <1>2 DEF TakeSnapshot

\* Pruning keeps the newest snapshot, which is the call's own.
LEMMA ApplyRetentionStep ==
  ASSUME IInv, NEW c \in Calls, ApplyRetention(c)
  PROVE  IInv'
<1> USE DEF fileVars, callVars, hostVars
<1>0. CallStep(c) /\ pc \in [Calls -> CallStates] /\ NeedsOwn(c)
  BY DEF CallStep, ApplyRetention, IInv, TypeOK, CallStates, NeedsOwn
<1>1. HasOwn(c)
  BY <1>0 DEF IInv, OwnInv
<1>2. snaps' \subseteq snaps /\ \A s \in snaps : IsNewest(s, snaps) => IsNewest(s, snaps')
  <2>1. CASE snaps' \in Pruned(snaps)
    <3>1. snaps' \subseteq snaps
      BY <2>1 DEF Pruned, Retained
    <3> QED
      BY <2>1, <3>1, PrunedKeepsNewest DEF IInv, TypeOK
  <2>2. CASE UNCHANGED snaps
    BY <2>2
  <2> QED
    BY <2>1, <2>2 DEF ApplyRetention
<1>3. UNCHANGED <<file, fresh, since, holder, named, misnamed, crashes, op, token, current,
                  mine, victim, hop, killed, savedAs>>
  BY DEF ApplyRetention
<1>4. spent' \in SUBSET Nat
  <2>1. Names(snaps \ snaps') \in SUBSET Nat
    BY DEF Names, Snapshot, IInv, TypeOK
  <2> QED
    BY <2>1 DEF ApplyRetention, IInv, TypeOK
<1>5. SnapsInv'
  BY <1>2, <1>3, SnapsInvMonotonic DEF IInv
<1>6. PICK p \in {"sending", "done"} : pc' = [pc EXCEPT ![c] = p]
  BY DEF ApplyRetention, Goto, Finish
<1>7. HasOwn(c)'
  BY <1>1, <1>2, <1>3 DEF HasOwn, IsNewest
<1>8. OwnInv'
  BY <1>0, <1>3, <1>6, <1>7, CallStepShape, OwnInvOfMover
<1>9. TypeOK'
  BY <1>0, <1>2, <1>3, <1>4, CallStepShape DEF IInv, TypeOK, CallStates
<1> QED
  BY <1>0, <1>5, <1>8, <1>9, CallStepShape DEF IInv

\* What follows an answer discards at most the own snapshot.
LEMMA DiscardStep ==
  ASSUME IInv, NEW c \in Calls, HostAnswers(c) \/ Verify(c) \/ Recover(c)
  PROVE  IInv'
<1> USE DEF fileVars, snapVars, callVars, hostVars
<1>0. CallStep(c) /\ pc \in [Calls -> CallStates] /\ NeedsOwn(c)
  BY DEF CallStep, HostAnswers, Verify, Recover, IInv, TypeOK, CallStates, NeedsOwn
<1>1. /\ UNCHANGED <<file, fresh, since, holder, named, misnamed, spent, crashes, op, token,
                     current, mine, victim, killed, savedAs>>
      /\ hop' \in [Calls -> {"none", "sent", "open", "saving", "saved", "edited",
                             "refused", "error"}]
      /\ snaps' \subseteq snaps
  BY DEF HostAnswers, Verify, Recover, DiscardSnapshot, Without, IInv, TypeOK
<1>2. \/ pc' = [pc EXCEPT ![c] = "done"]
      \/ /\ \E p \in {"verifying", "recovering", "readback", "restoring"} :
              pc' = [pc EXCEPT ![c] = p]
         /\ snaps' = snaps
  BY DEF HostAnswers, Verify, Recover, Goto, Finish
<1>3. SnapsInv'
  BY <1>1, SnapsInvMonotonic DEF IInv
<1>4. OwnInv'
  <2>1. CASE pc' = [pc EXCEPT ![c] = "done"]
    BY <1>0, <1>1, <2>1, CallStepShape, OwnInvOfMover DEF NeedsOwn
  <2>2. CASE snaps' = snaps
    <3>1. HasOwn(c)'
      BY <1>0, <1>1, <2>2 DEF IInv, OwnInv, HasOwn, IsNewest
    <3>2. PICK p \in {"verifying", "recovering", "readback", "restoring", "done"} :
             pc' = [pc EXCEPT ![c] = p]
      BY <1>2
    <3> QED
      BY <1>0, <1>1, <3>1, <3>2, CallStepShape, OwnInvOfMover
  <2> QED
    BY <1>2, <2>1, <2>2
<1>5. TypeOK'
  BY <1>0, <1>1, CallStepShape DEF IInv, TypeOK, CallStates
<1> QED
  BY <1>0, <1>3, <1>4, <1>5, CallStepShape DEF IInv

\* The restore picks the newest snapshot and makes it the call's victim.
LEMMA RestoreStep ==
  ASSUME IInv, NEW c \in Calls, Restore(c)
  PROVE  IInv'
<1> USE DEF snapVars, hostVars
<1>0. CallStep(c) /\ pc \in [Calls -> CallStates]
  BY DEF CallStep, Restore, IInv, TypeOK, CallStates
<1>1. UNCHANGED <<fresh, holder, snaps, named, misnamed, spent, crashes, op, token, current,
                  mine, hop, killed, savedAs>>
  BY DEF Restore
<1>2. SnapsInv'
  BY <1>1, SnapsInvMonotonic DEF IInv
<1>3. CASE /\ snaps # {}
           /\ IF op[c] = "edit" /\ savedAs[c] = None
                THEN Overwrite(Newest(snaps).bytes)
                ELSE Write(Newest(snaps).bytes)
           /\ victim' = [victim EXCEPT ![c] = Newest(snaps).name]
           /\ Goto(c, "removing")
  <2>1. Newest(snaps) \in Snapshot
    BY <1>3, NewestIsNewest DEF IInv, SnapsInv, IsNewest, TypeOK
  <2>2. /\ file' \in Nat
        /\ since' \in SUBSET (Nat \cup {None})
        /\ victim' \in [Calls -> Nat \cup {None}]
        /\ victim'[c] \in Nat
    BY <1>3, <2>1 DEF Overwrite, Write, Snapshot, IInv, TypeOK
  <2>3. TypeOK'
    BY <1>0, <1>1, <2>2, CallStepShape DEF IInv, TypeOK, CallStates
  <2>4. pc' = [pc EXCEPT ![c] = "removing"] /\ ~NeedsOwn(c)'
    BY <1>0, <1>3 DEF Goto, NeedsOwn
  <2>5. OwnInv'
    BY <1>0, <1>1, <2>2, <2>4, CallStepShape, OwnInvOfMover
  <2> QED
    BY <1>0, <1>2, <2>3, <2>5, CallStepShape DEF IInv
<1>4. CASE UNCHANGED <<file, since, victim>> /\ RestoreFailed(c)
  <2>1. pc' = [pc EXCEPT ![c] = "done"]
    BY <1>4 DEF RestoreFailed, Finish
  <2>2. OwnInv'
    BY <1>0, <1>1, <2>1, CallStepShape, OwnInvOfMover DEF NeedsOwn
  <2>3. TypeOK'
    BY <1>0, <1>1, <1>4, CallStepShape DEF IInv, TypeOK, CallStates
  <2> QED
    BY <1>0, <1>2, <2>2, <2>3, CallStepShape DEF IInv
<1> QED
  BY <1>3, <1>4 DEF Restore

\* Removing what was restored, or failing to, ends the need for it.
LEMMA RemoveRestoredStep ==
  ASSUME IInv, NEW c \in Calls, RemoveRestored(c)
  PROVE  IInv'
<1> USE DEF fileVars, callVars, hostVars
<1>0. CallStep(c) /\ pc \in [Calls -> CallStates] /\ victim[c] \in Nat
  BY DEF CallStep, RemoveRestored, IInv, TypeOK, CallStates, OwnInv
<1>1. /\ UNCHANGED <<file, fresh, since, holder, named, misnamed, crashes, op, token, current,
                     mine, victim, hop, killed, savedAs>>
      /\ snaps' \subseteq snaps
      /\ spent' \in SUBSET Nat
  BY <1>0 DEF RemoveRestored, Without, IInv, TypeOK
<1>2. SnapsInv'
  BY <1>1, SnapsInvMonotonic DEF IInv
<1>3. PICK p \in {"done", "readback"} : pc' = [pc EXCEPT ![c] = p]
  BY DEF RemoveRestored, Goto, Finish
<1>4. OwnInv'
  BY <1>0, <1>1, <1>3, CallStepShape, OwnInvOfMover DEF NeedsOwn
<1>5. TypeOK'
  BY <1>0, <1>1, CallStepShape DEF IInv, TypeOK, CallStates
<1> QED
  BY <1>0, <1>2, <1>4, <1>5, CallStepShape DEF IInv

-----------------------------------------------------------------------------
(* The steps of the host, of other programs, and the crash.                *)

\* Whatever leaves the calls and the snapshots alone keeps all but the types.
LEMMA CallsUntouched ==
  ASSUME IInv,
         UNCHANGED <<snaps, named, misnamed, queue, pc, op, mine, victim>>
  PROVE  TurnInv' /\ SnapsInv' /\ OwnInv'
  BY DEF IInv, TurnInv, SnapsInv, OwnInv, NeedsOwn, HasOwn, IsNewest, Running

\* The host touches the document only.
LEMMA HostStepKeeps ==
  ASSUME IInv, NEW c \in Calls, HostStep(c)
  PROVE  IInv'
<1> USE DEF fileVars, snapVars, callVars, hostVars
<1>1. CASE HostDies(c)
  <2>1. TypeOK'
    BY <1>1 DEF HostDies, Goto, IInv, TypeOK, EditSteps
  <2>2. SnapsInv'
    BY <1>1, SnapsInvMonotonic DEF HostDies, IInv
  <2>3. TurnInv' /\ OwnInv'
    <3>1. CASE pc[c] = "waiting"
      <4>1. /\ pc' = [pc EXCEPT ![c] = "recovering"]
            /\ pc \in [Calls -> CallStates]
            /\ UNCHANGED <<queue, snaps, named, misnamed, op, mine, victim>>
        BY <1>1, <3>1 DEF HostDies, Goto, IInv, TypeOK, CallStates
      <4>2. TurnInv'
        BY <3>1, <4>1 DEF IInv, TurnInv, Running, EditSteps
      <4>3. queue # <<>> /\ Head(queue) = c /\ NeedsOwn(c)
        BY <3>1 DEF IInv, TurnInv, Running, EditSteps, NeedsOwn
      <4>4. HasOwn(c)'
        BY <4>1, <4>3 DEF IInv, OwnInv, HasOwn, IsNewest
      <4> QED
        BY <4>1, <4>2, <4>3, <4>4, OwnInvOfMover
    <3>2. CASE pc[c] # "waiting"
      BY <1>1, <3>2, CallsUntouched DEF HostDies
    <3> QED
      BY <3>1, <3>2
  <2> QED
    BY <2>1, <2>2, <2>3 DEF IInv
<1>2. CASE HostOpen(c) \/ HostGivesUp(c) \/ HostStartsSave(c) \/ HostClose(c)
  <2>1. hop' \in [Calls -> HopStates]
    BY <1>2 DEF HostOpen, HostGivesUp, HostStartsSave, HostClose, HostMoves, HopStates,
       IInv, TypeOK
  <2>2. TypeOK'
    BY <1>2, <2>1 DEF HostOpen, HostGivesUp, HostStartsSave, HostClose, HostMoves,
       HopStates, IInv, TypeOK
  <2> QED
    BY <1>2, <2>2, CallsUntouched
    DEF HostOpen, HostGivesUp, HostStartsSave, HostClose, HostMoves, IInv
<1>3. CASE HostSave(c)
  <2>1. hop' \in [Calls -> HopStates]
    BY <1>3 DEF HostSave, HostMoves, HopStates, IInv, TypeOK
  <2>2. /\ file' \in Nat \cup {None}
        /\ fresh' \in Nat
        /\ since' \in SUBSET (Nat \cup {None})
        /\ savedAs' \in [Calls -> Nat \cup {None}]
    <3>1. CASE UNCHANGED <<file, fresh, since, savedAs>>
      BY <3>1 DEF IInv, TypeOK
    <3>2. CASE /\ Write(fresh) \/ Overwrite(fresh)
               /\ fresh' = fresh + 1
               /\ savedAs' = [savedAs EXCEPT ![c] = fresh]
      <4>1. fresh \in Nat /\ file' = fresh /\ fresh' \in Nat
        BY <3>2 DEF Write, Overwrite, IInv, TypeOK
      <4>2. since' \in SUBSET (Nat \cup {None})
        BY <3>2, <4>1 DEF Write, Overwrite, IInv, TypeOK
      <4>3. savedAs' \in [Calls -> Nat \cup {None}]
        BY <3>2, <4>1 DEF IInv, TypeOK
      <4> QED
        BY <4>1, <4>2, <4>3
    <3> QED
      BY <1>3, <3>1, <3>2 DEF HostSave
  <2>3. TypeOK'
    BY <1>3, <2>1, <2>2 DEF HostSave, HostMoves, HopStates, IInv, TypeOK
  <2> QED
    BY <1>3, <2>3, CallsUntouched DEF HostSave, HostMoves, IInv
<1> QED
  BY <1>1, <1>2, <1>3 DEF HostStep

\* Other programs touch the document only.
LEMMA UserStepKeeps == IInv /\ UserStep => IInv'
<1> SUFFICES ASSUME IInv, UserStep PROVE IInv'
  OBVIOUS
<1> USE DEF fileVars, snapVars, callVars, hostVars
<1>1. UserSaves => TypeOK'
  BY DEF UserSaves, Overwrite, IInv, TypeOK
<1>2. UserRemoves => TypeOK'
  BY DEF UserRemoves, Overwrite, IInv, TypeOK
<1>3. UserHolds => TypeOK'
  BY DEF UserHolds, IInv, TypeOK
<1>4. TypeOK'
  BY <1>1, <1>2, <1>3 DEF UserStep
<1> QED
  BY <1>4, CallsUntouched DEF UserStep, UserSaves, UserRemoves, UserHolds, IInv

\* A crash ends every call under way and leaves the disk as it is.
LEMMA CrashKeeps == IInv /\ Crash => IInv'
<1> SUFFICES ASSUME IInv, Crash PROVE IInv'
  OBVIOUS
<1> USE DEF fileVars, snapVars, callVars, hostVars
<1>1. TypeOK'
  BY DEF Crash, IInv, TypeOK
<1>2. \A c \in Calls : pc'[c] \in {"idle", "done", "aborted"}
  BY DEF Crash
<1>3. TurnInv' /\ OwnInv'
  BY <1>2 DEF TurnInv, OwnInv, NeedsOwn, Running, EditSteps, SharedSteps
<1>4. SnapsInv'
  BY SnapsInvMonotonic DEF Crash, IInv
<1> QED
  BY <1>1, <1>3, <1>4 DEF IInv

\* A call that joins the queue joins it at its end.
LEMMA CallKeeps ==
  ASSUME IInv, NEW c \in Calls, Call(c)
  PROVE  IInv'
<1> USE DEF fileVars, snapVars, hostVars
<1>1. TypeOK'
  BY DEF Call, IInv, TypeOK
<1>2. SnapsInv'
  BY SnapsInvMonotonic DEF Call, IInv
<1>3. TurnInv'
  <2>1. /\ pc' = [pc EXCEPT ![c] = "queued"] /\ pc \in [Calls -> CallStates]
        /\ queue' = Append(queue, c) /\ queue \in Seq(Calls)
    BY DEF Call, IInv, TypeOK, CallStates
  <2>2. queue # <<>> => queue' # <<>> /\ Head(queue') = Head(queue)
    BY <2>1
  <2>3. \A d \in Calls : Running(d)' => Running(d)
    BY <2>1 DEF Running, EditSteps, SharedSteps
  <2> QED
    BY <2>2, <2>3, <2>1 DEF IInv, TurnInv
<1>4. OwnInv'
  <2>1. /\ pc[c] = "idle" /\ pc' = [pc EXCEPT ![c] = "queued"]
        /\ UNCHANGED <<snaps, mine, misnamed, victim>> /\ pc \in [Calls -> CallStates]
        /\ \A d \in Calls \ {c} : op'[d] = op[d]
    BY DEF Call, IInv, TypeOK, CallStates
  <2>2. \A d \in Calls : HasOwn(d) => HasOwn(d)'
    BY <2>1 DEF HasOwn, IsNewest
  <2> QED
    BY <2>1, <2>2 DEF IInv, OwnInv, NeedsOwn
<1> QED
  BY <1>1, <1>2, <1>3, <1>4 DEF IInv

-----------------------------------------------------------------------------
(* The theorems.                                                           *)

\* Every step preserves the invariant.
LEMMA InvStep == IInv /\ [Next]_vars => IInv'
<1> SUFFICES ASSUME IInv, [Next]_vars PROVE IInv'
  OBVIOUS
<1>1. ASSUME NEW c \in Calls, Call(c) PROVE IInv'
  BY <1>1, CallKeeps
<1>2. ASSUME NEW c \in Calls, CallStep(c) PROVE IInv'
  BY <1>2, PlainStep, TakeSnapshotStep, ApplyRetentionStep, DiscardStep, RestoreStep,
     RemoveRestoredStep
  DEF CallStep
<1>3. ASSUME NEW c \in Calls, HostStep(c) PROVE IInv'
  BY <1>3, HostStepKeeps
<1>4. CASE UserStep
  BY <1>4, UserStepKeeps
<1>5. CASE Crash
  BY <1>5, CrashKeeps
<1>6. CASE UNCHANGED vars
  BY <1>6, CallsUntouched DEF vars, fileVars, snapVars, callVars, hostVars, IInv, TypeOK
<1> QED
  BY <1>1, <1>2, <1>3, <1>4, <1>5, <1>6 DEF Next

\* The inductive invariant holds in every reachable state.
THEOREM Invariant == Spec => []IInv
  BY InvInit, InvStep, PTL DEF Spec

\* Every variable keeps its type, whatever the calls, the host, other programs
\* and a crash do.
THEOREM TypeCorrect == Spec => []TypeOK
<1>1. IInv => TypeOK
  BY DEF IInv
<1> QED
  BY <1>1, Invariant, PTL

\* #withLock: two calls are never at work on the document together.
THEOREM MutualExclusion == Spec => []OneAtATime
<1>1. IInv => OneAtATime
  BY DEF IInv, TurnInv, OneAtATime
<1> QED
  BY <1>1, Invariant, PTL

\* #recoverFromUnknownOutcome restores the snapshot of the edit it rolls back,
\* though it asks for the newest, unless that was named before one on disk.
THEOREM RollbackRestoresOwn == Spec => []RollbackIsOwn
<1>1. ASSUME IInv, NEW c \in Calls \ misnamed, pc[c] = "restoring", op[c] = "edit"
      PROVE  snaps # {} /\ Newest(snaps).name = mine[c] /\ Newest(snaps).by = c
  <2>1. PICK s \in snaps : s.name = mine[c] /\ s.by = c /\ IsNewest(s, snaps)
    BY <1>1 DEF IInv, OwnInv, NeedsOwn, HasOwn
  <2>2. IsNewest(Newest(snaps), snaps)
    BY <2>1, NewestIsNewest
  <2>3. Newest(snaps) = s
    <3>1. \A t \in snaps : t.name \in Nat
      BY <1>1 DEF IInv, TypeOK, Snapshot
    <3> QED
      BY <2>1, <2>2, <3>1, <1>1 DEF IsNewest, IInv, SnapsInv
  <2> QED
    BY <2>1, <2>3
<1>2. IInv => RollbackIsOwn
  BY <1>1 DEF RollbackIsOwn
<1> QED
  BY <1>2, Invariant, PTL

-----------------------------------------------------------------------------
(* What the calls report.                                                  *)

\* The invariant of the reports.  Whatever was written is below the next version.
VersionsInv ==
    /\ file # None => file < fresh
    /\ \A s \in snaps : s.bytes < fresh
    /\ \A c \in Calls : /\ current[c] < fresh
                        /\ savedAs[c] # None => savedAs[c] < fresh

\* A snapshot is the own one of one call.
NamesInv ==
    /\ \A c \in Calls : /\ mine[c] # None => mine[c] \in named
                        /\ victim[c] # None => victim[c] \in named
    /\ \A c, d \in Calls : mine[c] # None /\ mine[c] = mine[d] => c = d

NothingTaken == {"idle", "queued", "listing", "reading", "snapshotting"}

NothingSent == NothingTaken \cup {"retaining", "sending"}

\* A host that nobody waits for was given up or outlived its process; one that was
\* asked to edit has a snapshot to go back to.
HostOf(c) ==
    /\ hop[c] # "none" => pc[c] \in {"waiting", "aborted"} \/ c \in killed
    /\ c \in killed => pc[c] \in {"recovering", "restoring", "removing", "done", "aborted"}
    /\ hop[c] # "none" \/ savedAs[c] # None \/ c \in killed =>
           pc[c] \notin NothingSent /\ mine[c] # None
    /\ op[c] = "revert" \/ pc[c] \in NothingTaken => mine[c] = None
    /\ hop[c] \in {"sent", "open", "saving", "refused"} => savedAs[c] = None
    /\ pc[c] \in EditSteps => op[c] = "edit"
    /\ pc[c] = "removing" /\ op[c] = "edit" /\ c \notin misnamed => victim[c] = mine[c]
    /\ pc[c] \in {"removing", "readback"} /\ op[c] = "edit" => mine[c] # None

\* What a host saved for a call that has not decided yet is newer than the document
\* the call began with, and so is all the document has held since.
Ahead(c) ==
    pc[c] \in {"waiting", "verifying", "recovering"} /\ savedAs[c] # None =>
        savedAs[c] > current[c] /\ (file # None => file >= savedAs[c])

Consumed(c) == victim[c] \in spent /\ (~RemovalFails => victim[c] \notin Names(snaps))

\* A call's snapshot is discarded with three reports only, none of which a call makes
\* whose host has saved or, unless it was killed, still can.
Told(c) ==
    /\ mine[c] # None /\ outcome[c] \notin {"refused", "notPersisted", "unchanged"} =>
           mine[c] \in Names(snaps) \cup spent
    /\ outcome[c] # "none" => pc[c] = "done"
    /\ outcome[c] \in {"refused", "notPersisted"} => savedAs[c] = None /\ hop[c] = "none"
    /\ outcome[c] = "unchanged" /\ c \notin killed => savedAs[c] = None /\ hop[c] = "none"
    /\ outcome[c] \in {"applied", "unreadable", "kept"} => mine[c] # None
    /\ outcome[c] \in {"rolledBack", "reverted"} => Consumed(c)
    /\ pc[c] = "readback" /\ op[c] = "revert" => Consumed(c)

ReportInv ==
    VersionsInv /\ NamesInv /\ \A c \in Calls : HostOf(c) /\ Ahead(c) /\ Told(c)

\* A version, and a name, is a number, which None is not.
LEMMA Numbers ==
  ASSUME IInv
  PROVE  /\ None \notin Nat /\ fresh \in Nat
         /\ file \in Nat \cup {None}
         /\ \A s \in snaps : s.name \in Nat /\ s.bytes \in Nat /\ s.by \in Calls
         /\ \A c \in Calls : /\ current[c] \in Nat /\ savedAs[c] \in Nat \cup {None}
                             /\ mine[c] \in Nat \cup {None} /\ victim[c] \in Nat \cup {None}
  BY EditorAssumption DEF IInv, TypeOK, Snapshot

\* No call has a snapshot, a victim or a host before it begins.
LEMMA ReportsInit == Init => ReportInv
  BY EditorAssumption
  DEF Init, ReportInv, VersionsInv, NamesInv, HostOf, NothingSent, NothingTaken, Ahead, Told,
      Consumed,
      EditSteps, Names

\* A call at work discards its own snapshot at most, and nobody else is at work: what
\* is known of the others stays so.
LEMMA MoverReports ==
  ASSUME IInv, IInv', ReportInv, NEW c \in Calls, queue # <<>>, Head(queue) = c,
         NEW p, pc' = [pc EXCEPT ![c] = p],
         \A d \in Calls \ {c} :
            /\ op'[d] = op[d] /\ outcome'[d] = outcome[d] /\ hop'[d] = hop[d]
            /\ savedAs'[d] = savedAs[d] /\ mine'[d] = mine[d] /\ victim'[d] = victim[d]
            /\ d \in killed' <=> d \in killed,
         \A n \in Names(snaps) \cup spent : n = mine[c] \/ n \in Names(snaps') \cup spent',
         spent \subseteq spent', misnamed \subseteq misnamed',
         Names(snaps') \cap named \subseteq Names(snaps),
         VersionsInv', NamesInv', HostOf(c)', Ahead(c)', Told(c)'
  PROVE  ReportInv'
<1>1. ASSUME NEW d \in Calls, d # c
      PROVE  HostOf(d)' /\ Ahead(d)' /\ Told(d)'
  <2>1. pc'[d] = pc[d] /\ HostOf(d) /\ Told(d)
    BY <1>1 DEF ReportInv, IInv, TypeOK
  <2>2. ~Running(d)
    BY <1>1, OthersIdle
  <2>3. HostOf(d)'
    BY <1>1, <2>1 DEF HostOf, NothingSent, NothingTaken
  <2>4. Ahead(d)'
    BY <2>1, <2>2 DEF Ahead, Running, EditSteps
  <2>5. mine[d] # None => mine[d] # mine[c]
    BY <1>1 DEF ReportInv, NamesInv
  <2>6. Consumed(d) => Consumed(d)'
    <3>1. victim[d] # None => victim[d] \in named
      BY DEF ReportInv, NamesInv
    <3> QED
      <4>1. spent \in SUBSET Nat /\ None \notin Nat
        BY EditorAssumption DEF IInv, TypeOK
      <4> QED
        BY <1>1, <3>1, <4>1 DEF Consumed
  <2>7. Told(d)'
    BY <1>1, <2>1, <2>5, <2>6 DEF Told
  <2> QED
    BY <2>3, <2>4, <2>7
<1> QED
  BY <1>1 DEF ReportInv

\* A step that only moves a call on.
LEMMA PlainReports ==
  ASSUME IInv, IInv', ReportInv, NEW c \in Calls,
         \/ BeginEdit(c) \/ ReadBefore(c) \/ SendEdit(c) \/ HostTimesOut(c)
         \/ BeginRevert(c) \/ CheckRevert(c) \/ ReadBack(c)
  PROVE  ReportInv'
<1> USE DEF fileVars, snapVars, callVars, hostVars
<1>1. /\ UNCHANGED <<file, fresh, snaps, named, misnamed, spent, op, mine, victim, savedAs>>
      /\ current' \in {current, [current EXCEPT ![c] = file]}
      /\ file \in Nat \/ current' = current
  BY DEF BeginEdit, ReadBefore, SendEdit, HostTimesOut, BeginRevert, CheckRevert, ReadBack,
     Readable, IInv, TypeOK
<1>2. HostOf(c) /\ Ahead(c) /\ Told(c) /\ pc \in [Calls -> CallStates]
      /\ outcome \in [Calls -> Outcomes]
  BY DEF ReportInv, IInv, TypeOK, CallStates
<1>3. queue # <<>> /\ Head(queue) = c
  BY CallStepShape DEF CallStep
<1>4. VersionsInv'
  <2>1. \A d \in Calls : current'[d] < fresh
    BY <1>1, Numbers DEF ReportInv, VersionsInv, IInv, TypeOK
  <2> QED
    BY <1>1, <2>1 DEF ReportInv, VersionsInv
<1>5. NamesInv'
  BY <1>1 DEF ReportInv, NamesInv
<1>6. ASSUME NEW p, pc' = [pc EXCEPT ![c] = p],
             \A d \in Calls \ {c} : /\ outcome'[d] = outcome[d] /\ hop'[d] = hop[d]
                                    /\ d \in killed' <=> d \in killed,
             HostOf(c)', Ahead(c)', Told(c)'
      PROVE  ReportInv'
  BY <1>1, <1>3, <1>4, <1>5, <1>6, MoverReports
<1>7. CASE BeginEdit(c) \/ ReadBefore(c) \/ BeginRevert(c) \/ CheckRevert(c)
  <2>1. PICK p \in {"reading", "snapshotting", "listing", "restoring", "done"} :
            pc' = [pc EXCEPT ![c] = p]
    BY <1>7 DEF BeginEdit, ReadBefore, BeginRevert, CheckRevert, Goto, Finish
  <2>2. /\ hop' = hop /\ killed' = killed /\ pc[c] \in {"queued", "reading", "listing"}
        /\ \A d \in Calls \ {c} : outcome'[d] = outcome[d]
        /\ outcome'[c] = IF p = "done" THEN "refused" ELSE outcome[c]
        /\ p \in {"reading", "snapshotting"} => op[c] = "edit"
        /\ p \in {"listing", "restoring"} => op[c] = "revert"
    BY <1>2, <1>7, <2>1
    DEF BeginEdit, ReadBefore, BeginRevert, CheckRevert, Goto, Finish, MyTurn, IInv, OwnInv,
        HostOf, NothingSent, NothingTaken, EditSteps
  <2>3. hop[c] = "none" /\ savedAs[c] = None /\ c \notin killed
    BY <1>2, <2>2 DEF HostOf, NothingSent, NothingTaken
  <2>4. HostOf(c)'
    BY <1>1, <1>2, <2>1, <2>2, <2>3 DEF HostOf, NothingSent, NothingTaken, EditSteps
  <2>5. Ahead(c)' /\ Told(c)'
    BY <1>1, <1>2, <2>1, <2>2, <2>3 DEF Ahead, Told, Consumed
  <2> QED
    BY <1>6, <2>1, <2>2, <2>4, <2>5
<1>8. CASE SendEdit(c) \/ HostTimesOut(c)
  <2>1. PICK p \in {"waiting", "recovering"} : pc' = [pc EXCEPT ![c] = p]
    BY <1>8 DEF SendEdit, HostTimesOut, Goto
  <2>2. pc[c] \in {"sending", "waiting"} /\ outcome' = outcome /\ current' = current
        /\ \A d \in Calls \ {c} : hop'[d] = hop[d] /\ (d \in killed' <=> d \in killed)
    BY <1>8 DEF SendEdit, HostTimesOut, Goto, IInv, TypeOK
  <2>3. op[c] = "edit" /\ mine[c] # None
    BY <1>2, <2>2, Numbers
    DEF HostOf, NothingSent, NothingTaken, EditSteps, IInv, OwnInv, NeedsOwn, HasOwn
  <2>4. HostOf(c)'
    BY <1>1, <1>2, <1>8, <2>1, <2>2, <2>3
    DEF SendEdit, HostTimesOut, Goto, HostOf, NothingSent, NothingTaken, EditSteps, IInv,
        TypeOK
  <2>5. Ahead(c)'
    BY <1>1, <1>2, <2>1, <2>2, <2>3 DEF Ahead, HostOf, NothingSent, NothingTaken
  <2>6. Told(c)'
    BY <1>1, <1>2, <2>1, <2>2, <2>3 DEF Told, Consumed
  <2> QED
    BY <1>6, <2>1, <2>2, <2>4, <2>5, <2>6
<1>9. CASE ReadBack(c)
  <2>1. /\ pc[c] = "readback" /\ pc' = [pc EXCEPT ![c] = "done"] /\ hop' = hop
        /\ killed' = killed /\ \A d \in Calls \ {c} : outcome'[d] = outcome[d]
        /\ outcome'[c] \in IF op[c] = "edit" THEN {"applied", "unreadable"}
                           ELSE {"reverted", "failed"}
        /\ op[c] \in {"edit", "revert"}
    BY <1>2, <1>9 DEF ReadBack, Finish, IInv, TypeOK
  <2>2. HostOf(c)' /\ Ahead(c)'
    BY <1>1, <1>2, <2>1 DEF HostOf, NothingSent, NothingTaken, Ahead, EditSteps
  <2>3. outcome[c] = "none" /\ (op[c] = "edit" => mine[c] # None)
    BY <1>2, <2>1 DEF HostOf, NothingSent, NothingTaken, Told
  <2>4. Told(c)'
    BY <1>1, <1>2, <2>1, <2>3 DEF Told, Consumed
  <2> QED
    BY <1>6, <2>1, <2>2, <2>4
<1> QED
  BY <1>7, <1>8, <1>9

\* The copy has the next name and the bytes there are.
LEMMA TakeSnapshotReports ==
  ASSUME IInv, IInv', ReportInv, NEW c \in Calls, TakeSnapshot(c)
  PROVE  ReportInv'
<1> USE DEF fileVars, hostVars
<1>1. /\ UNCHANGED <<file, fresh, spent, op, current, victim, savedAs, hop, killed>>
      /\ pc[c] = "snapshotting" /\ queue # <<>> /\ Head(queue) = c
  BY CallStepShape DEF TakeSnapshot, CallStep
<1>2. /\ HostOf(c) /\ Ahead(c) /\ Told(c) /\ pc \in [Calls -> CallStates]
      /\ outcome \in [Calls -> Outcomes] /\ mine \in [Calls -> Nat \cup {None}]
  BY DEF ReportInv, IInv, TypeOK, CallStates
<1>3. /\ hop[c] = "none" /\ savedAs[c] = None /\ c \notin killed /\ outcome[c] = "none"
      /\ op[c] = "edit"
  BY <1>1, <1>2 DEF HostOf, NothingSent, NothingTaken, Told, EditSteps
<1>4. CASE UNCHANGED <<snaps, nameVars, mine>> /\ Finish(c, "refused")
  <2>1. /\ pc' = [pc EXCEPT ![c] = "done"] /\ outcome' = [outcome EXCEPT ![c] = "refused"]
        /\ UNCHANGED <<snaps, named, misnamed, mine>>
    BY <1>4 DEF Finish
  <2>2. VersionsInv' /\ NamesInv'
    BY <1>1, <2>1 DEF ReportInv, VersionsInv, NamesInv
  <2>3. HostOf(c)' /\ Ahead(c)' /\ Told(c)'
    BY <1>1, <1>2, <1>3, <2>1 DEF HostOf, NothingSent, NothingTaken, Ahead, Told, EditSteps
  <2> QED
    BY <1>1, <1>2, <2>1, <2>2, <2>3, MoverReports
<1>5. ASSUME NEW n \in NewNames,
           Readable,
           snaps' = snaps \cup {[name |-> n, bytes |-> file, by |-> c]},
           named' = named \cup {n},
           misnamed' = IF \A s \in snaps : s.name < n THEN misnamed
                                                     ELSE misnamed \cup {c},
           mine' = [mine EXCEPT ![c] = n],
           Goto(c, "retaining")
    PROVE  ReportInv'
  <2>1. pc' = [pc EXCEPT ![c] = "retaining"] /\ outcome' = outcome
    BY <1>5 DEF Goto
  <2>0. n \in Nat /\ n \notin named
    BY EditorAssumption DEF NewNames
  <2>2. /\ Names(snaps') = Names(snaps) \cup {n} /\ file # None
        /\ mine'[c] = n /\ named' = named \cup {n} /\ misnamed \subseteq misnamed'
    <3>1. ASSUME NEW S, NEW s
          PROVE  Names(S \cup {s}) = Names(S) \cup {s.name}
      BY DEF Names
    <3>2. Names(snaps') = Names(snaps) \cup {n}
      BY <1>5, <3>1
    <3> QED
      BY <1>2, <1>5, <3>2 DEF Readable
  <2>3. VersionsInv'
    BY <1>1, <1>5, <2>2 DEF ReportInv, VersionsInv
  <2>4. NamesInv'
    <3>1. \A d \in Calls : /\ d # c => mine'[d] = mine[d]
                           /\ mine[d] # None => mine[d] \in Nat /\ mine[d] \in named
                           /\ victim[d] # None => victim[d] \in Nat /\ victim[d] \in named
      BY <1>2, <1>5, Numbers DEF ReportInv, NamesInv
    <3>2. \A d, e \in Calls : mine[d] # None /\ mine[d] = mine[e] => d = e
      BY DEF ReportInv, NamesInv
    <3>3. \A d \in Calls : mine'[d] # None => mine'[d] \in named'
      BY <2>2, <3>1, Numbers
    <3>4. \A d \in Calls : victim'[d] # None => victim'[d] \in named'
      BY <1>1, <2>2, <3>1, Numbers
    <3>5. \A d, e \in Calls : mine'[d] # None /\ mine'[d] = mine'[e] => d = e
      BY <2>0, <2>2, <3>1, <3>2, Numbers
    <3> QED
      BY <3>3, <3>4, <3>5 DEF NamesInv
  <2>5. mine'[c] # None
    BY <2>0, <2>2, Numbers
  <2>6. HostOf(c)' /\ Ahead(c)' /\ Told(c)'
    BY <1>1, <1>2, <1>3, <2>1, <2>2, <2>5
    DEF HostOf, NothingSent, NothingTaken, Ahead, Told, EditSteps
  <2>7. \A d \in Calls \ {c} : mine'[d] = mine[d]
    BY <1>2, <1>5
  <2>8. Names(snaps') \cap named \subseteq Names(snaps)
    BY <2>0, <2>2
  <2>9. /\ \A m \in Names(snaps) \cup spent : m \in Names(snaps') \cup spent'
        /\ spent \subseteq spent'
    BY <1>1, <2>2
  <2> QED
    BY <1>1, <2>1, <2>2, <2>3, <2>4, <2>6, <2>7, <2>8, <2>9, MoverReports
<1> QED
  BY <1>4, <1>5 DEF TakeSnapshot

\* What retention removes is spent.
LEMMA ApplyRetentionReports ==
  ASSUME IInv, IInv', ReportInv, NEW c \in Calls, ApplyRetention(c)
  PROVE  ReportInv'
<1> USE DEF fileVars, hostVars, callVars
<1>1. /\ UNCHANGED <<file, fresh, named, misnamed, op, current, mine, victim, savedAs, hop, killed>>
      /\ pc[c] = "retaining" /\ queue # <<>> /\ Head(queue) = c
  BY CallStepShape DEF ApplyRetention, CallStep
<1>2. /\ HostOf(c) /\ Ahead(c) /\ Told(c) /\ pc \in [Calls -> CallStates]
      /\ outcome \in [Calls -> Outcomes]
  BY DEF ReportInv, IInv, TypeOK, CallStates
<1>3. /\ hop[c] = "none" /\ savedAs[c] = None /\ c \notin killed /\ outcome[c] = "none"
      /\ op[c] = "edit"
  BY <1>1, <1>2 DEF HostOf, NothingSent, NothingTaken, Told, EditSteps
<1>4. snaps' \subseteq snaps /\ spent' = spent \cup Names(snaps \ snaps')
  BY DEF ApplyRetention, Pruned, Retained, Names
<1>5. PICK p \in {"sending", "done"} :
         pc' = [pc EXCEPT ![c] = p]
         /\ outcome' = IF p = "sending" THEN outcome ELSE [outcome EXCEPT ![c] = "refused"]
  BY DEF ApplyRetention, Goto, Finish
<1>6. VersionsInv' /\ NamesInv'
  BY <1>1, <1>4 DEF ReportInv, VersionsInv, NamesInv
<1>7. /\ \A n \in Names(snaps) \cup spent : n \in Names(snaps') \cup spent'
      /\ spent \subseteq spent' /\ Names(snaps') \subseteq Names(snaps)
  BY <1>4 DEF Names
<1>8. HostOf(c)' /\ Ahead(c)'
  BY <1>1, <1>2, <1>3, <1>5 DEF HostOf, NothingSent, NothingTaken, Ahead, EditSteps
<1>9. Told(c)'
  BY <1>1, <1>2, <1>3, <1>5, <1>7 DEF Told
<1>10. \A d \in Calls \ {c} : outcome'[d] = outcome[d]
  BY <1>2, <1>5
<1> QED
  BY <1>1, <1>5, <1>6, <1>7, <1>8, <1>9, <1>10, MoverReports

\* A document that is as it was when the call began has no save in it.
LEMMA UnwrittenAsBegun ==
  ASSUME IInv, ReportInv, NEW c \in Calls, pc[c] \in {"verifying", "recovering"},
         Readable, file = current[c]
  PROVE  savedAs[c] = None
  BY Numbers DEF ReportInv, Ahead, Readable

\* The answer of the host, the second hash and the recovery up to its decision.
LEMMA DiscardReports ==
  ASSUME IInv, IInv', ReportInv, NEW c \in Calls, HostAnswers(c) \/ Verify(c) \/ Recover(c)
  PROVE  ReportInv'
<1> USE DEF fileVars, hostVars, callVars, snapVars
<1>1. /\ UNCHANGED <<file, fresh, named, misnamed, spent, op, current, mine, victim, savedAs, killed>>
      /\ pc[c] \in {"waiting", "verifying", "recovering"} /\ queue # <<>> /\ Head(queue) = c
      /\ \A d \in Calls \ {c} : hop'[d] = hop[d]
      /\ hop'[c] = IF pc[c] = "waiting" THEN "none" ELSE hop[c]
  <2>1. queue # <<>> /\ Head(queue) = c
    BY CallStepShape DEF CallStep
  <2>2. \/ pc[c] = "waiting" /\ hop' = [hop EXCEPT ![c] = "none"]
        \/ pc[c] \in {"verifying", "recovering"} /\ hop' = hop
    BY DEF HostAnswers, Verify, Recover
  <2>3. UNCHANGED <<file, fresh, named, misnamed, spent, op, current, mine, victim, savedAs, killed>>
    BY DEF HostAnswers, Verify, Recover, DiscardSnapshot
  <2> QED
    BY <2>1, <2>2, <2>3 DEF IInv, TypeOK
<1>2. /\ HostOf(c) /\ Ahead(c) /\ Told(c) /\ pc \in [Calls -> CallStates]
      /\ outcome \in [Calls -> Outcomes] /\ op[c] = "edit" /\ outcome[c] = "none"
  BY <1>1
  DEF ReportInv, IInv, TypeOK, CallStates, HostOf, NothingSent, NothingTaken, EditSteps, Told
<1>3. mine[c] # None
  BY <1>1, Numbers DEF IInv, OwnInv, NeedsOwn, HasOwn
<1>4. /\ snaps' \subseteq snaps
      /\ \A n \in Names(snaps) : n = mine[c] \/ n \in Names(snaps')
  BY DEF HostAnswers, Verify, Recover, DiscardSnapshot, Without, Names
<1>5. Names(snaps') \subseteq Names(snaps)
  BY <1>4 DEF Names
<1>6. VersionsInv' /\ NamesInv'
  BY <1>1, <1>4 DEF ReportInv, VersionsInv, NamesInv
<1>7. ASSUME NEW p, pc' = [pc EXCEPT ![c] = p],
             \A d \in Calls \ {c} : outcome'[d] = outcome[d],
             HostOf(c)', Ahead(c)', Told(c)'
      PROVE  ReportInv'
  BY <1>1, <1>4, <1>5, <1>6, <1>7, MoverReports
<1>8. CASE \E p \in {"verifying", "recovering", "readback", "restoring"} :
              Goto(c, p) /\ snaps' = snaps /\ (p \in {"verifying", "readback"} => c \notin killed)
  <2>1. PICK p \in {"verifying", "recovering", "readback", "restoring"} :
            /\ pc' = [pc EXCEPT ![c] = p] /\ outcome' = outcome /\ snaps' = snaps
            /\ p \in {"verifying", "readback"} => c \notin killed
    BY <1>8 DEF Goto
  <2>2. HostOf(c)'
    <3>1. pc[c] = "waiting" \/ (hop' = hop /\ hop[c] = "none") \/ c \in killed
      BY <1>1, <1>2 DEF HostOf, NothingSent, NothingTaken, HostAnswers, Verify, Recover
    <3> QED
      BY <1>1, <1>2, <1>3, <2>1, <3>1 DEF HostOf, NothingSent, NothingTaken, EditSteps
  <2>3. Ahead(c)' /\ Told(c)'
    BY <1>1, <1>2, <2>1 DEF Ahead, Told, Consumed
  <2> QED
    BY <1>7, <2>1, <2>2, <2>3
<1>9. CASE \E r \in {"refused", "notPersisted", "unchanged"} :
              /\ Finish(c, r) /\ savedAs[c] = None
              /\ hop'[c] = "none" \/ (r = "unchanged" /\ c \in killed)
  <2>1. PICK r \in {"refused", "notPersisted", "unchanged"} :
            /\ pc' = [pc EXCEPT ![c] = "done"] /\ outcome' = [outcome EXCEPT ![c] = r]
            /\ savedAs[c] = None
            /\ hop'[c] = "none" \/ (r = "unchanged" /\ c \in killed)
    BY <1>9 DEF Finish
  <2>2. HostOf(c)' /\ Ahead(c)' /\ Told(c)'
    BY <1>1, <1>2, <1>3, <2>1 DEF HostOf, NothingSent, NothingTaken, Ahead, Told, EditSteps
  <2> QED
    BY <1>2, <1>7, <2>1, <2>2
<1>10. CASE \E r \in {"failed", "kept"} :
              /\ Finish(c, r) /\ snaps' = snaps
              /\ hop'[c] = "none" \/ c \in killed
  <2>1. PICK r \in {"failed", "kept"} :
            /\ pc' = [pc EXCEPT ![c] = "done"] /\ outcome' = [outcome EXCEPT ![c] = r]
            /\ snaps' = snaps
            /\ hop'[c] = "none" \/ c \in killed
    BY <1>10 DEF Finish
  <2>2. HostOf(c)' /\ Ahead(c)' /\ Told(c)'
    BY <1>1, <1>2, <1>3, <2>1 DEF HostOf, NothingSent, NothingTaken, Ahead, Told, EditSteps
  <2> QED
    BY <1>2, <1>7, <2>1, <2>2
<1>11. CASE HostAnswers(c)
  <2>1. c \notin killed /\ (hop[c] = "refused" => savedAs[c] = None)
    BY <1>2, <1>11 DEF HostOf, NothingSent, NothingTaken, HostAnswers
  <2> QED
    BY <1>1, <1>8, <1>9, <1>11, <2>1 DEF HostAnswers
<1>12. CASE Verify(c)
  <2>1. c \notin killed /\ hop[c] = "none" /\ pc[c] = "verifying"
    BY <1>2, <1>12 DEF HostOf, NothingSent, NothingTaken, Verify
  <2> QED
    BY <1>1, <1>8, <1>9, <1>10, <1>12, <2>1, UnwrittenAsBegun DEF Verify
<1>13. CASE Recover(c)
  <2>1. (c \in killed \/ hop[c] = "none") /\ pc[c] = "recovering"
    BY <1>2, <1>13 DEF HostOf, NothingSent, NothingTaken, Recover
  <2> QED
    BY <1>1, <1>8, <1>9, <1>10, <1>13, <2>1, UnwrittenAsBegun DEF Recover
<1> QED
  BY <1>11, <1>12, <1>13

\* What is put back is the newest snapshot, which for an edit is its own.
LEMMA RestoreReports ==
  ASSUME IInv, IInv', ReportInv, NEW c \in Calls, Restore(c)
  PROVE  ReportInv'
<1> USE DEF hostVars, snapVars
<1>1. /\ UNCHANGED <<fresh, snaps, named, misnamed, spent, op, current, mine, hop, killed, savedAs>>
      /\ pc[c] = "restoring" /\ queue # <<>> /\ Head(queue) = c
  BY CallStepShape DEF Restore, CallStep
<1>2. /\ HostOf(c) /\ Ahead(c) /\ Told(c) /\ pc \in [Calls -> CallStates]
      /\ outcome \in [Calls -> Outcomes] /\ op[c] \in {"edit", "revert"}
      /\ victim \in [Calls -> Nat \cup {None}] /\ outcome[c] = "none"
  BY <1>1 DEF ReportInv, IInv, TypeOK, CallStates, Told
<1>3. op[c] = "edit" => /\ mine[c] # None
                        /\ c \notin misnamed => Newest(snaps).name = mine[c]
  <2>1. ASSUME op[c] = "edit", c \notin misnamed
        PROVE  \E s \in snaps : s.name = mine[c] /\ s.by = c /\ IsNewest(s, snaps)
    BY <1>1, <2>1 DEF IInv, OwnInv, NeedsOwn, HasOwn
  <2>2. ASSUME NEW s \in snaps, IsNewest(s, snaps)
        PROVE  Newest(snaps).name = s.name
    BY <2>2, NewestIsNewest, Numbers DEF IsNewest
  <2>3. op[c] = "edit" => mine[c] \in Nat
    BY <1>1 DEF IInv, OwnInv, NeedsOwn, HasOwn
  <2> QED
    BY <2>1, <2>2, <2>3, Numbers
<1>4. CASE /\ snaps # {}
           /\ IF op[c] = "edit" /\ savedAs[c] = None
                THEN Overwrite(Newest(snaps).bytes)
                ELSE Write(Newest(snaps).bytes)
           /\ victim' = [victim EXCEPT ![c] = Newest(snaps).name]
           /\ Goto(c, "removing")
  <2>1. /\ pc' = [pc EXCEPT ![c] = "removing"] /\ outcome' = outcome
        /\ file' = Newest(snaps).bytes
    BY <1>4 DEF Goto, Write, Overwrite
  <2>2. Newest(snaps) \in snaps
    BY <1>4, NewestIsNewest DEF IInv, SnapsInv, IsNewest
  <2>3. VersionsInv'
    BY <1>1, <2>1, <2>2 DEF ReportInv, VersionsInv
  <2>4. NamesInv'
    <3>1. Newest(snaps).name \in named
      BY <2>2 DEF IInv, SnapsInv
    <3>2. \A d \in Calls : victim'[d] = IF d = c THEN Newest(snaps).name ELSE victim[d]
      BY <1>2, <1>4
    <3> QED
      BY <1>1, <3>1, <3>2 DEF ReportInv, NamesInv
  <2>5. HostOf(c)'
    BY <1>1, <1>2, <1>3, <1>4, <2>1 DEF HostOf, NothingSent, NothingTaken, EditSteps
  <2>6. Ahead(c)' /\ Told(c)'
    BY <1>1, <1>2, <2>1 DEF Ahead, Told
  <2>7. \A d \in Calls \ {c} : victim'[d] = victim[d]
    BY <1>2, <1>4
  <2> QED
    BY <1>1, <2>1, <2>3, <2>4, <2>5, <2>6, <2>7, MoverReports
<1>5. CASE UNCHANGED <<file, since, victim>> /\ RestoreFailed(c)
  <2>1. /\ pc' = [pc EXCEPT ![c] = "done"] /\ UNCHANGED <<file, victim>>
        /\ outcome' = [outcome EXCEPT ![c] = IF op[c] = "edit" THEN "kept" ELSE "revertFailed"]
    BY <1>5 DEF RestoreFailed, Finish
  <2>2. VersionsInv' /\ NamesInv'
    BY <1>1, <2>1 DEF ReportInv, VersionsInv, NamesInv
  <2>3. HostOf(c)' /\ Ahead(c)'
    BY <1>1, <1>2, <2>1 DEF HostOf, NothingSent, NothingTaken, Ahead, EditSteps
  <2>4. Told(c)'
    BY <1>1, <1>2, <1>3, <2>1 DEF Told
  <2> QED
    BY <1>1, <1>2, <2>1, <2>2, <2>3, <2>4, MoverReports
<1> QED
  BY <1>4, <1>5 DEF Restore

\* And is gone, or its deletion has failed.
LEMMA RemoveRestoredReports ==
  ASSUME IInv, IInv', ReportInv, NEW c \in Calls, RemoveRestored(c)
  PROVE  ReportInv'
<1> USE DEF fileVars, hostVars, callVars
<1>1. /\ UNCHANGED <<file, fresh, named, misnamed, op, current, mine, victim, hop, killed, savedAs>>
      /\ pc[c] = "removing" /\ queue # <<>> /\ Head(queue) = c
      /\ spent' = spent \cup {victim[c]}
  BY CallStepShape DEF RemoveRestored, CallStep
<1>2. /\ HostOf(c) /\ Ahead(c) /\ Told(c) /\ pc \in [Calls -> CallStates]
      /\ outcome \in [Calls -> Outcomes] /\ op[c] \in {"edit", "revert"}
      /\ outcome[c] = "none"
  BY <1>1 DEF ReportInv, IInv, TypeOK, CallStates, Told
<1>3. /\ snaps' \subseteq snaps
      /\ \A s \in snaps : s.name = victim[c] \/ s \in snaps'
      /\ ~RemovalFails => \A s \in snaps' : s.name # victim[c]
  BY DEF RemoveRestored, Without
<1>4. /\ \A n \in Names(snaps) \cup spent : n \in Names(snaps') \cup spent'
      /\ Names(snaps') \subseteq Names(snaps) /\ Consumed(c)'
  BY <1>1, <1>3 DEF Names, Consumed
<1>5. \/ /\ op[c] = "edit" /\ pc' = [pc EXCEPT ![c] = "done"]
         /\ outcome' = [outcome EXCEPT ![c] = "rolledBack"]
      \/ /\ op[c] # "edit" /\ pc' = [pc EXCEPT ![c] = "readback"] /\ outcome' = outcome
  BY DEF RemoveRestored, Goto, Finish
<1>6. VersionsInv' /\ NamesInv'
  BY <1>1, <1>3 DEF ReportInv, VersionsInv, NamesInv
<1>7. hop[c] # "none" => c \in killed
  BY <1>1, <1>2 DEF HostOf, NothingSent, NothingTaken
<1>8. op[c] # "edit" => hop[c] = "none" /\ savedAs[c] = None /\ c \notin killed
  BY <1>1, <1>2 DEF HostOf, NothingSent, NothingTaken
<1>9. HostOf(c)' /\ Ahead(c)'
  BY <1>1, <1>2, <1>5, <1>7, <1>8 DEF HostOf, NothingSent, NothingTaken, Ahead, EditSteps
<1>10. Told(c)'
  BY <1>1, <1>2, <1>4, <1>5 DEF Told
<1>11. \A d \in Calls \ {c} : outcome'[d] = outcome[d]
  BY <1>2, <1>5
<1>12. PICK p : pc' = [pc EXCEPT ![c] = p]
  BY <1>5
<1> QED
  BY <1>1, <1>4, <1>6, <1>9, <1>10, <1>11, <1>12, MoverReports

\* A save of the host is the next version: it is ahead of all there was.
LEMMA HostReports ==
  ASSUME IInv, IInv', ReportInv, NEW c \in Calls, HostStep(c)
  PROVE  ReportInv'
<1> USE DEF fileVars, hostVars, callVars, snapVars
<1>1. /\ UNCHANGED <<snaps, named, misnamed, spent, op, current, mine, victim, outcome, killed>>
      /\ hop[c] # "none"
  BY DEF HostStep, HostOpen, HostGivesUp, HostStartsSave, HostSave, HostClose, HostDies,
     HostMoves, Goto
<1>2. /\ \A d \in Calls : HostOf(d) /\ Ahead(d) /\ Told(d)
      /\ pc \in [Calls -> CallStates] /\ hop \in [Calls -> HopStates]
      /\ savedAs \in [Calls -> Nat \cup {None}]
  BY DEF ReportInv, IInv, TypeOK, CallStates, HopStates
<1>3. NamesInv'
  BY <1>1 DEF ReportInv, NamesInv
<1>4. \A d \in Calls : Consumed(d)' <=> Consumed(d)
  BY <1>1 DEF Consumed
<1>5. ASSUME UNCHANGED <<file, fresh, savedAs, pc>>, NEW to, hop' = [hop EXCEPT ![c] = to],
             pc[c] \in {"waiting", "aborted"} \/ c \in killed \/ to = "none",
             to \in {"sent", "open", "saving", "refused"} => savedAs[c] = None
      PROVE  ReportInv'
  <2>1. VersionsInv'
    BY <1>1, <1>5 DEF ReportInv, VersionsInv
  <2>2. ASSUME NEW d \in Calls
        PROVE  HostOf(d)' /\ Ahead(d)' /\ Told(d)'
    <3>1. d # c => hop'[d] = hop[d]
      BY <1>2, <1>5
    <3>2. d = c => hop'[d] = to
      BY <1>2, <1>5
    <3>3. HostOf(d)'
      BY <1>1, <1>2, <1>5, <3>1, <3>2 DEF HostOf
    <3>4. Ahead(d)'
      BY <1>1, <1>2, <1>5 DEF Ahead
    <3>5. Told(d)'
      BY <1>1, <1>2, <1>4, <1>5, <3>1, <3>2 DEF Told
    <3> QED
      BY <3>3, <3>4, <3>5
  <2> QED
    BY <1>3, <2>1, <2>2 DEF ReportInv
<1>6. pc[c] \in {"waiting", "aborted"} \/ c \in killed
  BY <1>1, <1>2 DEF HostOf
<1>7. CASE HostOpen(c) \/ HostGivesUp(c) \/ HostStartsSave(c) \/ HostClose(c)
  <2>1. UNCHANGED <<file, fresh, savedAs, pc>>
    BY <1>7 DEF HostOpen, HostGivesUp, HostStartsSave, HostClose, HostMoves
  <2>2. PICK to : /\ hop' = [hop EXCEPT ![c] = to]
                  /\ hop[c] \in {"sent", "open"} \/ to = "edited"
    BY <1>7 DEF HostOpen, HostGivesUp, HostStartsSave, HostClose, HostMoves
  <2>3. hop[c] \in {"sent", "open"} => savedAs[c] = None
    BY <1>2 DEF HostOf
  <2> QED
    BY <1>5, <1>6, <2>1, <2>2, <2>3
<1>8. CASE HostSave(c) /\ UNCHANGED <<file, fresh, savedAs>>
  <2>1. UNCHANGED pc /\ \E to \in {"saved", "error"} : hop' = [hop EXCEPT ![c] = to]
    BY <1>8 DEF HostSave, HostMoves
  <2> QED
    BY <1>5, <1>6, <1>8, <2>1
<1>9. CASE /\ \E after \in {"saved", "error"} : HostMoves(c, "saving", after)
           /\ Write(fresh) \/ Overwrite(fresh)
           /\ fresh' = fresh + 1
           /\ savedAs' = [savedAs EXCEPT ![c] = fresh]
  <2>1. PICK to \in {"saved", "error"} : hop' = [hop EXCEPT ![c] = to] /\ pc' = pc
    BY <1>9 DEF HostMoves
  <2>2. file' = fresh /\ fresh' = fresh + 1 /\ savedAs' = [savedAs EXCEPT ![c] = fresh]
    BY <1>9 DEF Write, Overwrite
  <2>3. \A d \in Calls : savedAs'[d] = IF d = c THEN fresh ELSE savedAs[d]
    BY <1>2, <2>2
  <2>4. VersionsInv'
    <3>1. \A s \in snaps' : s.bytes < fresh'
      BY <1>1, <2>2, Numbers DEF ReportInv, VersionsInv
    <3>2. \A d \in Calls : /\ current'[d] < fresh'
                           /\ savedAs'[d] # None => savedAs'[d] < fresh'
      BY <1>1, <2>2, <2>3, Numbers DEF ReportInv, VersionsInv
    <3> QED
      BY <2>2, <3>1, <3>2, Numbers DEF VersionsInv
  <2>5. ASSUME NEW d \in Calls
        PROVE  HostOf(d)' /\ Ahead(d)' /\ Told(d)'
    <3>1. d # c => hop'[d] = hop[d]
      BY <1>2, <2>1
    <3>2. d = c => hop'[d] = to
      BY <1>2, <2>1
    <3>3. HostOf(d)'
      BY <1>1, <1>2, <1>6, <2>1, <2>3, <3>1, <3>2 DEF HostOf
    <3>4. Ahead(d)'
      <4>1. current[d] < fresh /\ (savedAs[d] # None => savedAs[d] < fresh)
        BY DEF ReportInv, VersionsInv
      <4> QED
        BY <1>1, <1>2, <2>1, <2>2, <2>3, <4>1, Numbers DEF Ahead
    <3>5. d = c => outcome[d] \notin {"refused", "notPersisted"}
                   /\ ~(outcome[d] = "unchanged" /\ d \notin killed)
      BY <1>1, <1>2 DEF Told
    <3>6. Told(d)'
      BY <1>1, <1>2, <1>4, <2>1, <2>3, <3>1, <3>5 DEF Told
    <3> QED
      BY <3>3, <3>4, <3>6
  <2> QED
    BY <1>3, <2>4, <2>5 DEF ReportInv
<1>10. CASE HostDies(c)
  <2>1. hop' = [hop EXCEPT ![c] = "none"] /\ UNCHANGED <<file, fresh, savedAs>>
    BY <1>10 DEF HostDies
  <2>2. CASE pc[c] # "waiting"
    BY <1>5, <1>10, <2>1, <2>2 DEF HostDies
  <2>3. CASE pc[c] = "waiting"
    <3>1. pc' = [pc EXCEPT ![c] = "recovering"]
      BY <1>10, <2>3 DEF HostDies, Goto
    <3>2. VersionsInv'
      BY <1>1, <2>1 DEF ReportInv, VersionsInv
    <3>3. ASSUME NEW d \in Calls
          PROVE  HostOf(d)' /\ Ahead(d)' /\ Told(d)'
      <4>1. d # c => hop'[d] = hop[d] /\ pc'[d] = pc[d]
        BY <1>2, <2>1, <3>1
      <4>2. d = c => hop'[d] = "none" /\ pc'[d] = "recovering"
        BY <1>2, <2>1, <3>1
      <4>3. HostOf(d)'
        BY <1>1, <1>2, <2>1, <2>3, <4>1, <4>2
        DEF HostOf, NothingSent, NothingTaken, EditSteps
      <4>4. Ahead(d)'
        BY <1>1, <1>2, <2>1, <2>3, <4>1, <4>2 DEF Ahead
      <4>5. Told(d)'
        BY <1>1, <1>2, <1>4, <2>1, <2>3, <4>1, <4>2 DEF Told
      <4> QED
        BY <4>3, <4>4, <4>5
    <3> QED
      BY <1>3, <3>2, <3>3 DEF ReportInv
  <2> QED
    BY <2>2, <2>3
<1> QED
  BY <1>7, <1>8, <1>9, <1>10 DEF HostStep, HostSave

\* So is a save of another program; a document that is gone is nobody's.
LEMMA UserReports ==
  ASSUME IInv, IInv', ReportInv, UserStep
  PROVE  ReportInv'
<1>1. /\ UNCHANGED <<snaps, named, misnamed, spent, op, current, mine, victim, outcome, killed, pc,
                     hop, savedAs>>
      /\ \/ file' = fresh /\ fresh' = fresh + 1
         \/ file' \in {file, None} /\ fresh' = fresh
  BY DEF UserStep, UserSaves, UserRemoves, UserHolds, Overwrite, fileVars, hostVars, callVars,
     snapVars
<1>2. VersionsInv'
  BY <1>1, Numbers DEF ReportInv, VersionsInv
<1>3. NamesInv'
  BY <1>1 DEF ReportInv, NamesInv
<1>4. ASSUME NEW d \in Calls
      PROVE  HostOf(d)' /\ Ahead(d)' /\ Told(d)'
  <2>1. HostOf(d)' /\ Told(d)'
    BY <1>1 DEF ReportInv, HostOf, Told, Consumed
  <2>2. Ahead(d)'
    BY <1>1, Numbers DEF ReportInv, VersionsInv, Ahead
  <2> QED
    BY <2>1, <2>2
<1> QED
  BY <1>2, <1>3, <1>4 DEF ReportInv

\* A crash reports nothing, and the hosts it leaves may still save.
LEMMA CrashReports ==
  ASSUME IInv, IInv', ReportInv, Crash
  PROVE  ReportInv'
<1>1. /\ UNCHANGED <<file, fresh, snaps, named, misnamed, spent, op, current, mine, victim, outcome,
                     killed, hop, savedAs>>
      /\ \A d \in Calls : /\ pc'[d] \in {pc[d], "aborted"}
                          /\ pc[d] # "idle" => pc'[d] \in {"done", "aborted"}
                          /\ pc[d] = "done" => pc'[d] = "done"
  BY DEF Crash, fileVars, hostVars, callVars, snapVars
<1>2. VersionsInv' /\ NamesInv'
  BY <1>1 DEF ReportInv, VersionsInv, NamesInv
<1>3. ASSUME NEW d \in Calls
      PROVE  HostOf(d)' /\ Ahead(d)' /\ Told(d)'
  <2>1. HostOf(d) /\ Ahead(d) /\ Told(d)
    BY DEF ReportInv
  <2>2. HostOf(d)'
    BY <1>1, <2>1 DEF HostOf, NothingSent, NothingTaken, EditSteps
  <2>3. Ahead(d)' /\ Told(d)'
    BY <1>1, <2>1 DEF Ahead, Told, Consumed
  <2> QED
    BY <2>2, <2>3
<1> QED
  BY <1>2, <1>3 DEF ReportInv

\* A call that joins the queue has done nothing yet.
LEMMA CallReports ==
  ASSUME IInv, IInv', ReportInv, NEW c \in Calls, Call(c)
  PROVE  ReportInv'
<1>1. /\ UNCHANGED <<file, fresh, snaps, named, misnamed, spent, current, mine, victim, outcome,
                     killed, hop, savedAs>>
      /\ pc[c] = "idle" /\ pc' = [pc EXCEPT ![c] = "queued"]
      /\ \E o \in {"edit", "revert"} : op' = [op EXCEPT ![c] = o]
  BY DEF Call, fileVars, hostVars, snapVars
<1>2. VersionsInv' /\ NamesInv'
  BY <1>1 DEF ReportInv, VersionsInv, NamesInv
<1>3. ASSUME NEW d \in Calls
      PROVE  HostOf(d)' /\ Ahead(d)' /\ Told(d)'
  <2>1. HostOf(d) /\ Ahead(d) /\ Told(d)
    BY DEF ReportInv
  <2>2. /\ d # c => pc'[d] = pc[d] /\ op'[d] = op[d]
        /\ d = c => pc'[d] = "queued"
    BY <1>1 DEF IInv, TypeOK
  <2>3. HostOf(d)'
    BY <1>1, <2>1, <2>2 DEF HostOf, NothingSent, NothingTaken, EditSteps
  <2>4. Ahead(d)' /\ Told(d)'
    BY <1>1, <2>1, <2>2 DEF Ahead, Told, Consumed
  <2> QED
    BY <2>3, <2>4
<1> QED
  BY <1>2, <1>3 DEF ReportInv

\* Every step preserves the invariant of the reports.
LEMMA ReportStep ==
  ASSUME IInv, IInv', ReportInv, [Next]_vars
  PROVE  ReportInv'
<1>1. ASSUME NEW c \in Calls, Call(c) PROVE ReportInv'
  BY <1>1, CallReports
<1>2. ASSUME NEW c \in Calls, CallStep(c) PROVE ReportInv'
  BY <1>2, PlainReports, TakeSnapshotReports, ApplyRetentionReports, DiscardReports,
     RestoreReports, RemoveRestoredReports
  DEF CallStep
<1>3. ASSUME NEW c \in Calls, HostStep(c) PROVE ReportInv'
  BY <1>3, HostReports
<1>4. CASE UserStep
  BY <1>4, UserReports
<1>5. CASE Crash
  BY <1>5, CrashReports
<1>6. CASE UNCHANGED vars
  <2>1. UNCHANGED <<file, fresh, snaps, named, misnamed, spent, op, current, mine, victim, outcome,
                    killed, hop, savedAs, pc>>
    BY <1>6 DEF vars, fileVars, snapVars, callVars, hostVars
  <2> QED
    BY <2>1 DEF ReportInv, VersionsInv, NamesInv, HostOf, Ahead, Told, Consumed
<1> QED
  BY <1>1, <1>2, <1>3, <1>4, <1>5, <1>6 DEF Next

\* Both invariants hold in every reachable state.
LEMMA ReportInvariant == Spec => [](IInv /\ ReportInv)
<1>1. Init => IInv /\ ReportInv
  BY InvInit, ReportsInit
<1>2. IInv /\ ReportInv /\ [Next]_vars => (IInv /\ ReportInv)'
  BY InvStep, ReportStep
<1> QED
  BY <1>1, <1>2, PTL DEF Spec

\* An edit that reached the file keeps its snapshot until it is put back or falls to
\* retention, unless its host was killed and saved behind the recovery's back.
THEOREM UndoIsKept == Spec => []UndoNeverDiscarded
<1>1. ASSUME IInv, ReportInv, NEW c \in Calls, savedAs[c] # None
      PROVE  \/ mine[c] \in Names(snaps) \cup spent
             \/ c \in killed /\ outcome[c] = "unchanged"
  BY <1>1 DEF ReportInv, HostOf, Told
<1>2. IInv /\ ReportInv => UndoNeverDiscarded
  BY <1>1 DEF UndoNeverDiscarded
<1> QED
  BY <1>2, ReportInvariant, PTL

\* What edit_document and revert_document tell their callers about the document and
\* its history is so, whatever failed on the way.
THEOREM ReportsTellTheTruth == Spec => []ReportsAreTrue
<1>1. IInv /\ ReportInv => ReportsAreTrue
  BY DEF ReportInv, Told, Consumed, ReportsAreTrue
<1> QED
  BY <1>1, ReportInvariant, PTL

-----------------------------------------------------------------------------
(* The steps of the undo history.                                          *)

\* The snapshots that stand for a step of the history.
Kept == {s \in snaps : Settled(s)}

Older(S, name) == {t \in S : t.name < name}

Newer(S, name) == {t \in S : t.name > name}

\* What Steps makes of a set of snapshots.
StepAt(S, i) == CHOOSE s \in S : Cardinality(Older(S, s.name)) = i - 1

StepsOf(S) == [i \in 1..Cardinality(S) |-> StepAt(S, i).bytes]

\* q lists the n members of S by name.
Enumerates(q, n, S) ==
    /\ n \in Nat /\ q \in [1..n -> S]
    /\ \A s \in S : \E i \in 1..n : q[i] = s
    /\ \A i, j \in 1..n : i < j => q[i].name < q[j].name

Extended(q, n, u) == [i \in 1..(n + 1) |-> IF i = n + 1 THEN u ELSE q[i]]

Members(q, a, b) == {q[i] : i \in a..b}

\* A stretch of the list has as many members as places.
LEMMA StretchCount ==
  ASSUME NEW S \in SUBSET Snapshot, NEW n, NEW q, Enumerates(q, n, S),
         NEW a \in 1..(n + 1), NEW b \in 0..n, a <= b + 1
  PROVE  Cardinality(Members(q, a, b)) = b - a + 1
<1> DEFINE T == Members(q, a, b)
           f == [i \in a..b |-> q[i]]
<1>1. n \in Nat /\ a \in Int /\ b \in Int
  BY DEF Enumerates
<1>2. ASSUME NEW i \in a..b, NEW j \in a..b, f[i] = f[j] PROVE i = j
  <2>1. i \in 1..n /\ j \in 1..n /\ q[i] = q[j]
    BY <1>1, <1>2
  <2>2. q[i].name \in Nat
    BY <2>1 DEF Enumerates, Snapshot
  <2> QED
    BY <2>1, <2>2 DEF Enumerates
<1>3. f \in [a..b -> T] /\ \A t \in T : \E i \in a..b : f[i] = t
  BY DEF Members
<1>4. f \in Bijection(a..b, T)
  <2> HIDE DEF f, T
  <2>0. \A i, j \in a..b : f[i] = f[j] => i = j
    BY <1>2
  <2>1. f \in Injection(a..b, T)
    BY <1>3, <2>0 DEF Injection, IsInjective
  <2>2. f \in Surjection(a..b, T)
    BY <1>3 DEF Surjection
  <2> QED
    BY <2>1, <2>2 DEF Bijection
<1>5. ExistsBijection(a..b, T)
  BY <1>4 DEF ExistsBijection
<1>6. IsFiniteSet(a..b) /\ Cardinality(a..b) = b - a + 1
  <2>1. IsFiniteSet(a..b) /\ Cardinality(a..b) = IF a > b THEN 0 ELSE b - a + 1
    BY <1>1, FS_Interval
  <2> QED
    BY <1>1, <2>1
<1> QED
  BY <1>5, <1>6, FS_Bijection

\* Steps is that of the snapshots that are kept, and so it is after a step.
LEMMA StepsOfKept == Steps = StepsOf(Kept) /\ Steps' = StepsOf(Kept')
  BY DEF Steps, StepsOf, StepAt, Older, Kept

\* So the place of a member is one more than the number of the members before it.
LEMMA PlaceCount ==
  ASSUME NEW S \in SUBSET Snapshot, NEW n, NEW q, Enumerates(q, n, S), NEW j \in 1..n
  PROVE  /\ Cardinality(Older(S, q[j].name)) = j - 1
         /\ Cardinality(Newer(S, q[j].name)) = n - j
<1>1. n \in Nat /\ \A i \in 1..n : q[i] \in S /\ q[i].name \in Nat
  BY DEF Enumerates, Snapshot
<1>2. \A i \in 1..n : /\ i < j <=> q[i].name < q[j].name
                      /\ i > j <=> q[i].name > q[j].name
  <2>1. ASSUME NEW i \in 1..n
        PROVE  /\ i < j => q[i].name < q[j].name
               /\ i > j => q[i].name > q[j].name
               /\ i = j => q[i].name = q[j].name
    BY <1>1 DEF Enumerates
  <2> QED
    BY <1>1, <2>1
<1>3. Older(S, q[j].name) = Members(q, 1, j - 1)
  BY <1>1, <1>2 DEF Enumerates, Older, Members
<1>4. Newer(S, q[j].name) = Members(q, j + 1, n)
  BY <1>1, <1>2 DEF Enumerates, Newer, Members
<1>5. Cardinality(Members(q, 1, j - 1)) = j - 1
  <2>1. 1 \in 1..(n + 1) /\ j - 1 \in 0..n /\ 1 <= (j - 1) + 1 /\ (j - 1) - 1 + 1 = j - 1
    BY <1>1
  <2> QED
    BY <2>1, StretchCount
<1>6. Cardinality(Members(q, j + 1, n)) = n - j
  <2>1. j + 1 \in 1..(n + 1) /\ n \in 0..n /\ j + 1 <= n + 1 /\ n - (j + 1) + 1 = n - j
    BY <1>1
  <2> QED
    BY <2>1, StretchCount
<1> QED
  BY <1>3, <1>4, <1>5, <1>6

\* Steps lists the bytes of the snapshots by name.
LEMMA StepsAreListed ==
  ASSUME NEW S \in SUBSET Snapshot, NEW n, NEW q, Enumerates(q, n, S)
  PROVE  /\ StepsOf(S) = [i \in 1..n |-> q[i].bytes]
         /\ StepsOf(S) \in Seq(Nat) /\ Len(StepsOf(S)) = n
<1>1. n \in Nat /\ \A i \in 1..n : q[i] \in S /\ q[i].bytes \in Nat
  BY DEF Enumerates, Snapshot
<1>2. S = Members(q, 1, n)
  BY <1>1 DEF Enumerates, Members
<1>3. Cardinality(S) = n
  <2>1. 1 \in 1..(n + 1) /\ n \in 0..n /\ 1 <= n + 1 /\ n - 1 + 1 = n
    BY <1>1
  <2> QED
    BY <1>2, <2>1, StretchCount
<1>4. ASSUME NEW i \in 1..n
      PROVE  StepAt(S, i) = q[i]
  <2> DEFINE P(s) == Cardinality(Older(S, s.name)) = i - 1
  <2>1. q[i] \in S /\ P(q[i])
    <3>1. Cardinality(Older(S, q[i].name)) = i - 1
      BY PlaceCount
    <3> QED
      BY <1>1, <3>1
  <2>2. ASSUME NEW s \in S, P(s) PROVE s = q[i]
    <3>1. PICK j \in 1..n : q[j] = s
      BY DEF Enumerates
    <3>2. Cardinality(Older(S, s.name)) = j - 1
      BY <3>1, PlaceCount
    <3> QED
      BY <1>1, <2>2, <3>1, <3>2
  <2> HIDE DEF P
  <2>3. (CHOOSE s \in S : P(s)) \in S /\ P(CHOOSE s \in S : P(s))
    BY <2>1
  <2>4. (CHOOSE s \in S : P(s)) = q[i]
    BY <2>2, <2>3
  <2> QED
    BY <2>4 DEF P, StepAt
<1>5. StepsOf(S) = [i \in 1..n |-> q[i].bytes]
  BY <1>3, <1>4 DEF StepsOf
<1> QED
  BY <1>1, <1>5

\* A newer snapshot is one step more.
LEMMA OneMore ==
  ASSUME NEW S \in SUBSET Snapshot, NEW n, NEW q, Enumerates(q, n, S),
         NEW u \in Snapshot, \A s \in S : s.name < u.name
  PROVE  /\ Enumerates(Extended(q, n, u), n + 1, S \cup {u})
         /\ StepsOf(S \cup {u}) = Append(StepsOf(S), u.bytes)
         /\ StepsOf(S) \in Seq(Nat) /\ Len(StepsOf(S)) = n
<1> DEFINE r == Extended(q, n, u)
<1>1. n \in Nat /\ \A i \in 1..n : q[i] \in S
  BY DEF Enumerates
<1>2. Enumerates(r, n + 1, S \cup {u})
  <2>0. r = [i \in 1..(n + 1) |-> IF i = n + 1 THEN u ELSE q[i]]
    BY DEF Extended
  <2>1. r \in [1..(n + 1) -> S \cup {u}]
    BY <1>1, <2>0
  <2>2. \A s \in S \cup {u} : \E i \in 1..(n + 1) : r[i] = s
    <3>1. r[n + 1] = u /\ \A i \in 1..n : r[i] = q[i]
      BY <1>1, <2>0
    <3> QED
      BY <1>1, <3>1 DEF Enumerates
  <2>3. \A i, j \in 1..(n + 1) : i < j => r[i].name < r[j].name
    BY <1>1, <2>0 DEF Enumerates
  <2> QED
    BY <1>1, <2>1, <2>2, <2>3 DEF Enumerates
<1>3. /\ StepsOf(S) = [i \in 1..n |-> q[i].bytes]
      /\ StepsOf(S) \in Seq(Nat) /\ Len(StepsOf(S)) = n
  BY StepsAreListed
<1>4. S \cup {u} \in SUBSET Snapshot
  OBVIOUS
<1>5. /\ StepsOf(S \cup {u}) = [i \in 1..(n + 1) |-> r[i].bytes]
      /\ StepsOf(S \cup {u}) \in Seq(Nat)
      /\ Len(StepsOf(S \cup {u})) = n + 1
  <2> HIDE DEF r
  <2> QED
    BY <1>2, <1>4, StepsAreListed
<1>6. u.bytes \in Nat
  BY DEF Snapshot
<1> DEFINE x == StepsOf(S)
           y == StepsOf(S \cup {u})
           z == Append(x, u.bytes)
<1>7. z \in Seq(Nat) /\ Len(z) = n + 1 /\ z[n + 1] = u.bytes /\ \A i \in 1..n : z[i] = x[i]
  <2>1. x \in Seq(Nat) /\ Len(x) = n
    BY <1>3
  <2> HIDE DEF x
  <2>2. /\ z \in Seq(Nat) /\ Len(z) = Len(x) + 1
        /\ \A i \in 1..(Len(x) + 1) : z[i] = IF i <= Len(x) THEN x[i] ELSE u.bytes
    BY <1>6, <2>1, AppendProperties
  <2> QED
    BY <1>1, <2>1, <2>2
<1>8. \A i \in 1..(n + 1) : y[i] = z[i]
  BY <1>1, <1>3, <1>5, <1>7 DEF Extended
<1>9. y = z
  <2> HIDE DEF x, y, z
  <2> QED
    BY <1>5, <1>7, <1>8, SeqEqual DEF y
<1> QED
  BY <1>2, <1>3, <1>9

\* A stretch of the list lists its members, and their bytes are that stretch of the steps.
LEMMA Stretch ==
  ASSUME NEW S \in SUBSET Snapshot, NEW n, NEW q, Enumerates(q, n, S),
         NEW a \in 1..(n + 1), NEW b \in 0..n, a <= b + 1,
         NEW T, T = Members(q, a, b)
  PROVE  /\ \E r : Enumerates(r, b - a + 1, T)
         /\ StepsOf(T) = SubSeq(StepsOf(S), a, b)
<1> DEFINE m == b - a + 1
           r == [i \in 1..m |-> q[a + i - 1]]
<1>1. n \in Nat /\ m \in Nat /\ \A i \in 1..n : q[i] \in S
  BY DEF Enumerates
<1>2. T \in SUBSET Snapshot
  BY <1>1 DEF Members
<1>3. Enumerates(r, m, T)
  <2>1. \A i \in 1..m : a + i - 1 \in a..b
    BY <1>1
  <2>2. r \in [1..m -> T]
    BY <2>1 DEF Members
  <2>3. ASSUME NEW t \in T PROVE \E i \in 1..m : r[i] = t
    <3>1. PICK k \in a..b : q[k] = t
      BY DEF Members
    <3>2. k - a + 1 \in 1..m /\ r[k - a + 1] = t
      BY <1>1, <3>1
    <3> QED
      BY <3>2
  <2>4. \A i, j \in 1..m : i < j => r[i].name < r[j].name
    BY <1>1, <2>1 DEF Enumerates
  <2> QED
    BY <1>1, <2>2, <2>3, <2>4 DEF Enumerates
<1>4. /\ StepsOf(S) = [i \in 1..n |-> q[i].bytes]
      /\ StepsOf(S) \in Seq(Nat) /\ Len(StepsOf(S)) = n
  BY StepsAreListed
<1>5. /\ StepsOf(T) = [i \in 1..m |-> r[i].bytes]
      /\ StepsOf(T) \in Seq(Nat) /\ Len(StepsOf(T)) = m
  <2> HIDE DEF r, m
  <2> QED
    BY <1>2, <1>3, StepsAreListed
<1> DEFINE x == StepsOf(S)
           z == SubSeq(x, a, b)
<1>6. z \in Seq(Nat) /\ Len(z) = m /\ \A i \in 1..m : z[i] = x[a + i - 1]
  <2>1. \A i \in a..b : x[i] \in Nat
    BY <1>1, <1>4, ElementOfSeq
  <2>2. a \in Int /\ b \in Int
    BY <1>1
  <2>3. /\ z \in Seq(Nat) /\ Len(z) = IF a <= b THEN b - a + 1 ELSE 0
        /\ \A i \in 1..(b - a + 1) : z[i] = x[a + i - 1]
    BY <2>1, <2>2, SubSeqProperties
  <2> QED
    BY <1>1, <2>3
<1>7. \A i \in 1..m : StepsOf(T)[i] = z[i]
  BY <1>1, <1>4, <1>5, <1>6
<1>8. StepsOf(T) = z
  <2> HIDE DEF z, m
  <2> QED
    BY <1>5, <1>6, <1>7, SeqEqual
<1> QED
  BY <1>3, <1>8

\* Retention keeps the last of the list.
LEMMA RetainedAreLast ==
  ASSUME NEW S \in SUBSET Snapshot, NEW n, NEW q, Enumerates(q, n, S)
  PROVE  \A i \in 1..n : q[i] \in Retained(S) <=> i > n - MaxSnapshots
<1>1. ASSUME NEW i \in 1..n
      PROVE  q[i] \in S /\ Cardinality(Newer(S, q[i].name)) = n - i
  <2>1. Cardinality(Newer(S, q[i].name)) = n - i
    BY PlaceCount
  <2> QED
    BY <2>1 DEF Enumerates
<1>2. n \in Nat /\ MaxSnapshots \in Nat
  BY EditorAssumption DEF Enumerates
<1>3. Retained(S) = {s \in S : Cardinality(Newer(S, s.name)) < MaxSnapshots}
  BY DEF Retained, Newer
<1> QED
  BY <1>1, <1>2, <1>3

-----------------------------------------------------------------------------
(* The invariant of the refinement.                                        *)

\* A snapshot is the own one of the call that took it.
OwnerInv == \A s \in snaps : mine[s.by] = s.name

\* What is put back, and what a successful edit leaves, is the newest snapshot.
LastInv ==
    \A c \in Calls :
        /\ pc[c] = "readback" /\ op[c] = "edit" =>
               \E s \in snaps : s.name = mine[c] /\ IsNewest(s, snaps)
        /\ pc[c] = "removing" => \E s \in snaps : s.name = victim[c] /\ IsNewest(s, snaps)

\* A snapshot that stands for no step holds what the document has held since the last.
SinceInv ==
    /\ file \in since /\ fresh <= MaxVersions + 1
    /\ \A s \in snaps \ Kept : s.bytes \in since

\* From retention to the save there is room for one more step.
RoomInv ==
    \A c \in Calls : NeedsOwn(c) /\ pc[c] # "retaining" /\ savedAs[c] = None =>
        Len(StepsOf(Kept)) < MaxSnapshots

ListInv == \E n, q : Enumerates(q, n, Kept)

HistoryInv == OwnerInv /\ LastInv /\ SinceInv /\ RoomInv /\ ListInv /\ ~ClockGoesBack

\* The snapshot that stands for no step is the newest: it is that of the running edit,
\* which has not reached the file, or the one that was put back.
LEMMA Unsettled ==
  ASSUME IInv, ReportInv, HistoryInv, NEW u \in snaps, u \notin Kept
  PROVE  /\ IsNewest(u, snaps)
         /\ u.bytes \in since /\ u.bytes \in Nat
         /\ \E c \in Calls :
              /\ Running(c)
              /\ \/ pc[c] = "removing" /\ victim[c] = u.name
                 \/ u.by = c /\ op[c] = "edit" /\ savedAs[c] = None
<1>1. /\ u.by \in Calls /\ u.name \in Nat /\ u.bytes \in Nat /\ mine[u.by] = u.name
      /\ HostOf(u.by) /\ pc[u.by] \in CallStates /\ op[u.by] \in {"edit", "revert"}
  BY DEF IInv, TypeOK, Snapshot, HistoryInv, OwnerInv, ReportInv, CallStates
<1>2. u.bytes \in since
  BY DEF HistoryInv, SinceInv
<1>3. ASSUME NEW s \in snaps, s.name = u.name, IsNewest(s, snaps) PROVE IsNewest(u, snaps)
  BY <1>3 DEF IsNewest
<1>4. CASE \E c \in Calls : pc[c] = "removing" /\ victim[c] = u.name
  <2>1. PICK c \in Calls : pc[c] = "removing" /\ victim[c] = u.name
    BY <1>4
  <2>2. Running(c) /\ IsNewest(u, snaps)
    BY <1>3, <2>1 DEF HistoryInv, LastInv, Running, SharedSteps
  <2> QED
    BY <1>1, <1>2, <2>1, <2>2
<1>5. CASE savedAs[u.by] = None /\ ~Over(u.by)
  <2>1. mine[u.by] # None
    BY <1>1, EditorAssumption
  <2>2. op[u.by] = "edit" /\ pc[u.by] \notin NothingTaken
    BY <1>1, <2>1 DEF HostOf
  <2>3. \/ NeedsOwn(u.by)
        \/ pc[u.by] = "removing" /\ victim[u.by] = u.name
        \/ pc[u.by] = "readback"
    BY <1>1, <1>5, <2>1, <2>2
    DEF HostOf, NeedsOwn, NothingTaken, CallStates, EditSteps, SharedSteps, Over, HistoryInv,
        IInv, SnapsInv
  <2>4. Running(u.by)
    BY <2>2, <2>3 DEF NeedsOwn, Running, EditSteps, SharedSteps
  <2>5. \E s \in snaps : s.name = u.name /\ IsNewest(s, snaps)
    BY <1>1, <2>2, <2>3 DEF IInv, OwnInv, HasOwn, HistoryInv, LastInv, SnapsInv
  <2> QED
    BY <1>1, <1>2, <1>3, <1>5, <2>2, <2>4, <2>5
<1> QED
  BY <1>4, <1>5 DEF Kept, Settled

\* So there is one such snapshot at most, and all steps are older.
LEMMA OneUnsettled ==
  ASSUME IInv, ReportInv, HistoryInv, NEW u \in snaps, u \notin Kept
  PROVE  snaps = Kept \cup {u} /\ \A s \in Kept : s.name < u.name
<1>1. \A s \in snaps : s.name \in Nat
  BY DEF IInv, TypeOK, Snapshot
<1>2. ASSUME NEW w \in snaps, w \notin Kept PROVE w = u
  <2>1. IsNewest(u, snaps) /\ IsNewest(w, snaps)
    BY <1>2, Unsettled
  <2> QED
    BY <1>1, <2>1 DEF IsNewest, IInv, SnapsInv
<1>3. ASSUME NEW s \in Kept PROVE s.name < u.name
  <2>1. s \in snaps /\ s # u
    BY DEF Kept
  <2>2. s.name <= u.name /\ s.name # u.name
    BY <2>1, Unsettled DEF IsNewest, IInv, SnapsInv
  <2> QED
    BY <1>1, <2>1, <2>2
<1> QED
  BY <1>2, <1>3 DEF Kept

\* After an edit, or at a revert, every snapshot on disk is a step, but for the one
\* being put back.
LEMMA RestIsSettled ==
  ASSUME IInv', ReportInv', OwnerInv',
         \A c \in Calls : Running(c)' => op'[c] = "revert" /\ pc'[c] # "removing"
  PROVE  Kept' = snaps'
<1>1. ASSUME NEW s \in snaps' PROVE Settled(s)'
  <2>1. /\ s.by \in Calls /\ s.name \in Nat /\ mine'[s.by] = s.name
        /\ HostOf(s.by)' /\ pc'[s.by] \in CallStates
    BY DEF IInv, TypeOK, Snapshot, OwnerInv, ReportInv, CallStates
  <2>2. op'[s.by] # "revert" /\ pc'[s.by] \notin NothingTaken
    BY <2>1, EditorAssumption DEF HostOf
  <2>3. Over(s.by)'
    BY <2>1, <2>2 DEF Running, NothingTaken, CallStates, EditSteps, SharedSteps, Over
  <2>4. \A c \in Calls : pc'[c] # "removing"
    BY DEF Running, SharedSteps
  <2> QED
    BY <2>3, <2>4 DEF Settled
<1> QED
  BY <1>1 DEF Kept

\* The steps are a sequence of versions, as many as there are snapshots.
LEMMA StepsTyped ==
  ASSUME IInv, NEW n, NEW q, Enumerates(q, n, Kept)
  PROVE  Kept \in SUBSET Snapshot /\ Steps = StepsOf(Kept) /\ Len(Steps) = n
<1>1. Kept \in SUBSET Snapshot
  BY DEF Kept, IInv, TypeOK
<1> QED
  BY <1>1, StepsAreListed, StepsOfKept

-----------------------------------------------------------------------------
(* Every step is one of the history, or changes nothing of it.             *)

HistoryStep == [History!Next]_(History!vars)

\* As long as the same snapshots are steps and the document is left alone, nothing of
\* the history changes.
LEMMA Stutters ==
  ASSUME Kept' = Kept, UNCHANGED <<file, since>>
  PROVE  HistoryStep
<1>1. Steps' = Steps
  BY StepsOfKept
<1> QED
  BY <1>1 DEF HistoryStep, History!vars

\* A list of the steps is one as long as they stay the same.
LEMMA ListStays ==
  ASSUME HistoryInv, Kept' = Kept
  PROVE  ListInv'
<1>1. PICK n, q : Enumerates(q, n, Kept)
  BY DEF HistoryInv, ListInv
<1>2. Enumerates(q, n, Kept')
  BY <1>1
<1> QED
  BY <1>2 DEF ListInv, Enumerates

\* A call that only moves on, or joins the queue, does not touch the history.
LEMMA QuietStep ==
  ASSUME IInv, IInv', ReportInv, HistoryInv, NEW c \in Calls, NEW p,
         UNCHANGED <<snaps, file, since, fresh, mine, victim, savedAs>>,
         pc' = [pc EXCEPT ![c] = p], \A d \in Calls \ {c} : op'[d] = op[d],
         ~Over(c), p \notin {"done", "aborted", "removing"}, pc[c] # "removing",
         p = "readback" /\ op'[c] = "edit" => NeedsOwn(c),
         NeedsOwn(c)' => NeedsOwn(c) /\ pc[c] # "retaining"
  PROVE  HistoryInv' /\ HistoryStep
<1>1. \A d \in Calls : pc'[d] = IF d = c THEN p ELSE pc[d]
  BY DEF IInv, TypeOK
<1>2. \A s \in snaps : s.by \in Calls
  BY DEF IInv, TypeOK, Snapshot
<1>3. \A s \in snaps : Settled(s)' <=> Settled(s)
  BY <1>1, <1>2 DEF Settled, Over
<1>4. Kept' = Kept
  BY <1>3 DEF Kept
<1>5. OwnerInv' /\ SinceInv'
  BY <1>4 DEF HistoryInv, OwnerInv, SinceInv
<1>6. LastInv'
  <2>1. ASSUME NEW d \in Calls, pc'[d] = "readback", op'[d] = "edit"
        PROVE  \E s \in snaps : s.name = mine[d] /\ IsNewest(s, snaps)
    <3>1. CASE d = c
      BY <1>1, <2>1, <3>1 DEF IInv, OwnInv, HasOwn, HistoryInv, SnapsInv
    <3>2. CASE d # c
      BY <1>1, <2>1, <3>2 DEF HistoryInv, LastInv
    <3> QED
      BY <3>1, <3>2
  <2>2. ASSUME NEW d \in Calls, pc'[d] = "removing"
        PROVE  \E s \in snaps : s.name = victim[d] /\ IsNewest(s, snaps)
    BY <1>1, <2>2 DEF HistoryInv, LastInv
  <2> QED
    BY <2>1, <2>2 DEF LastInv, IsNewest
<1>7. RoomInv'
  <2>1. ASSUME NEW d \in Calls, NeedsOwn(d)', pc'[d] # "retaining"
        PROVE  NeedsOwn(d) /\ pc[d] # "retaining"
    BY <1>1, <2>1 DEF NeedsOwn
  <2> QED
    BY <1>4, <2>1 DEF RoomInv, HistoryInv
<1> QED
  BY <1>4, <1>5, <1>6, <1>7, ListStays, Stutters DEF HistoryInv

\* The end of the running calls that leaves the directory alone may add one step, which
\* is of no consequence.
LEMMA CallsEnd ==
  ASSUME IInv, IInv', ReportInv, ReportInv', HistoryInv,
         UNCHANGED <<snaps, file, since, fresh, mine>>,
         \A c \in Calls : ~Running(c)'
  PROVE  HistoryInv' /\ HistoryStep
<1>1. OwnerInv'
  BY DEF HistoryInv, OwnerInv
<1>2. Kept' = snaps
  BY <1>1, RestIsSettled
<1>3. SinceInv'
  BY <1>2 DEF HistoryInv, SinceInv
<1>4. LastInv' /\ RoomInv'
  BY DEF LastInv, RoomInv, NeedsOwn, Running, EditSteps, SharedSteps
<1>5. CASE Kept = snaps
  BY <1>1, <1>2, <1>3, <1>4, <1>5, ListStays, Stutters DEF HistoryInv
<1>6. CASE Kept # snaps
  <2>1. PICK u \in snaps : u \notin Kept
    BY <1>6 DEF Kept
  <2>2. snaps = Kept \cup {u} /\ \A s \in Kept : s.name < u.name
    BY <2>1, OneUnsettled
  <2>3. u \in Snapshot /\ u.bytes \in since /\ u.bytes # None
    <3>1. u \in Snapshot
      BY DEF IInv, TypeOK
    <3>2. u.bytes \in since
      BY <2>1, Unsettled
    <3> QED
      BY <3>1, <3>2, EditorAssumption DEF Snapshot
  <2>4. PICK n, q : Enumerates(q, n, Kept)
    BY DEF HistoryInv, ListInv
  <2>5. /\ Enumerates(Extended(q, n, u), n + 1, snaps)
        /\ StepsOf(snaps) = Append(StepsOf(Kept), u.bytes)
    BY <2>2, <2>3, <2>4, OneMore, StepsTyped
  <2>6. Steps' = Append(Steps, u.bytes)
    BY <1>2, <2>5, StepsOfKept
  <2>7. ListInv'
    BY <1>2, <2>5 DEF ListInv
  <2>8. History!EmptyStep
    BY <2>3, <2>6 DEF History!EmptyStep
  <2> QED
    BY <1>1, <1>3, <1>4, <2>7, <2>8 DEF HistoryInv, HistoryStep, History!Next
<1> QED
  BY <1>5, <1>6

\* What the host and other programs do to the document, unless a call waits for it, is
\* done from outside.
LEMMA OutsideStep ==
  ASSUME IInv, IInv', HistoryInv, Kept' = Kept, UNCHANGED <<snaps, mine, pc, op, victim>>,
         fresh' <= MaxVersions + 1,
         \A c \in Calls : savedAs'[c] = None => savedAs[c] = None,
         \/ UNCHANGED <<file, since>>
         \/ file' \in 0..MaxVersions \cup {None} /\ since' = since \cup {file'}
  PROVE  HistoryInv' /\ HistoryStep
<1>1. OwnerInv' /\ SinceInv'
  BY DEF HistoryInv, OwnerInv, SinceInv
<1>2. LastInv'
  BY DEF HistoryInv, LastInv, IsNewest
<1>3. RoomInv'
  BY DEF HistoryInv, RoomInv, NeedsOwn
<1>4. ListInv'
  BY ListStays
<1>5. CASE UNCHANGED <<file, since>>
  BY <1>1, <1>2, <1>3, <1>4, <1>5, Stutters DEF HistoryInv
<1>6. CASE file' \in 0..MaxVersions \cup {None} /\ since' = since \cup {file'}
  <2>1. Steps' = Steps
    BY StepsOfKept
  <2>2. History!Outside
    BY <1>6, <2>1 DEF History!Outside
  <2> QED
    BY <1>1, <1>2, <1>3, <1>4, <2>2 DEF HistoryInv, HistoryStep, History!Next
<1> QED
  BY <1>5, <1>6

\* When the call at the head of the queue is done, no call is running.
LEMMA NobodyRuns ==
  ASSUME IInv, NEW c \in Calls, queue # <<>>, Head(queue) = c,
         pc' = [pc EXCEPT ![c] = "done"]
  PROVE  \A d \in Calls : ~Running(d)'
<1>1. pc \in [Calls -> CallStates]
  BY DEF IInv, TypeOK, CallStates
<1> QED
  BY <1>1, OthersIdle DEF Running, EditSteps, SharedSteps

\* The steps of a call that leave the document and the snapshots alone.
LEMMA PlainHistory ==
  ASSUME IInv, IInv', ReportInv, ReportInv', HistoryInv, NEW c \in Calls,
         \/ BeginEdit(c) \/ ReadBefore(c) \/ SendEdit(c) \/ HostTimesOut(c)
         \/ BeginRevert(c) \/ CheckRevert(c) \/ ReadBack(c)
  PROVE  HistoryInv' /\ HistoryStep
<1>1. /\ queue # <<>> /\ Head(queue) = c
      /\ UNCHANGED <<snaps, file, since, fresh, mine, victim, savedAs, op>>
      /\ pc[c] \in CallStates
  BY CallStepShape
  DEF CallStep, BeginEdit, ReadBefore, SendEdit, HostTimesOut, BeginRevert, CheckRevert,
      ReadBack, fileVars, snapVars, callVars, hostVars, IInv, TypeOK, CallStates
<1>2. \/ pc' = [pc EXCEPT ![c] = "done"]
      \/ pc[c] = "queued" /\ \E p \in {"reading", "listing"} : pc' = [pc EXCEPT ![c] = p]
      \/ pc[c] = "reading" /\ pc' = [pc EXCEPT ![c] = "snapshotting"]
      \/ pc[c] \in {"sending", "waiting"}
            /\ \E p \in {"waiting", "recovering"} : pc' = [pc EXCEPT ![c] = p]
      \/ pc[c] = "listing" /\ pc' = [pc EXCEPT ![c] = "restoring"]
  BY DEF BeginEdit, ReadBefore, SendEdit, HostTimesOut, BeginRevert, CheckRevert, ReadBack,
     MyTurn, Goto, Finish
<1>3. CASE pc' = [pc EXCEPT ![c] = "done"]
  BY <1>1, <1>3, NobodyRuns, CallsEnd
<1>4. CASE ~(pc' = [pc EXCEPT ![c] = "done"])
  <2>1. PICK p \in {"reading", "listing", "snapshotting", "waiting", "recovering", "restoring"} :
           pc' = [pc EXCEPT ![c] = p]
    BY <1>2, <1>4
  <2>2. pc'[c] = p
    BY <1>1, <2>1 DEF IInv, TypeOK
  <2>3. /\ ~Over(c) /\ pc[c] # "removing"
        /\ p \in {"waiting", "recovering"} => pc[c] \in {"sending", "waiting"}
        /\ p = "restoring" => pc[c] = "listing"
    BY <1>2, <1>4, <2>1, <2>2 DEF Over
  <2>4. NeedsOwn(c)' => NeedsOwn(c) /\ pc[c] # "retaining"
    BY <1>1, <2>2, <2>3 DEF NeedsOwn, IInv, OwnInv
  <2> QED
    BY <1>1, <2>1, <2>3, <2>4, QuietStep
<1> QED
  BY <1>3, <1>4

\* The copy is not yet a step.
LEMMA TakeSnapshotHistory ==
  ASSUME IInv, IInv', ReportInv, ReportInv', HistoryInv, NEW c \in Calls, TakeSnapshot(c)
  PROVE  HistoryInv' /\ HistoryStep
<1> USE DEF fileVars, hostVars
<1>1. /\ queue # <<>> /\ Head(queue) = c /\ pc[c] = "snapshotting"
      /\ UNCHANGED <<file, since, fresh, victim, savedAs, op>>
      /\ pc \in [Calls -> CallStates] /\ mine[c] = None /\ savedAs[c] = None
      /\ op[c] = "edit"
  BY CallStepShape
  DEF CallStep, TakeSnapshot, IInv, TypeOK, CallStates, ReportInv, HostOf, NothingTaken,
      NothingSent, EditSteps
<1>2. CASE UNCHANGED <<snaps, nameVars, mine>> /\ Finish(c, "refused")
  <2>1. pc' = [pc EXCEPT ![c] = "done"]
    BY <1>2 DEF Finish
  <2> QED
    BY <1>1, <1>2, <2>1, NobodyRuns, CallsEnd
<1>3. ASSUME NEW n \in NewNames,
           Readable,
           snaps' = snaps \cup {[name |-> n, bytes |-> file, by |-> c]},
           named' = named \cup {n},
           misnamed' = IF \A s \in snaps : s.name < n THEN misnamed
                                                     ELSE misnamed \cup {c},
           mine' = [mine EXCEPT ![c] = n],
           Goto(c, "retaining")
    PROVE  HistoryInv' /\ HistoryStep
  <2>1. PICK u : /\ u.name = n /\ u.bytes = file /\ u.by = c
                 /\ snaps' = snaps \cup {u}
    BY <1>3
  <2>2. \A d \in Calls : /\ pc'[d] = IF d = c THEN "retaining" ELSE pc[d]
                         /\ mine'[d] = IF d = c THEN n ELSE mine[d]
    BY <1>1, <1>3 DEF Goto, IInv, TypeOK
  <2>3. \A s \in snaps : s.by \in Calls /\ s.by # c /\ mine[s.by] = s.name
    BY <1>1, Numbers DEF HistoryInv, OwnerInv
  <2>4. \A s \in snaps : Settled(s)' <=> Settled(s)
    BY <1>1, <2>2, <2>3 DEF Settled, Over
  <2>5. ~Settled(u)'
    BY <1>1, <2>1, <2>2 DEF Settled, Over
  <2>6. Kept' = Kept
    BY <2>1, <2>4, <2>5 DEF Kept
  <2>7. OwnerInv'
    BY <2>1, <2>2, <2>3 DEF OwnerInv
  <2>8. SinceInv'
    BY <1>1, <2>1, <2>6 DEF HistoryInv, SinceInv
  <2>9. \A d \in Calls : pc'[d] \notin {"readback", "removing"} /\ (NeedsOwn(d)' => d = c)
    BY <1>1, <2>2, OthersIdle DEF NeedsOwn, Running, EditSteps, SharedSteps
  <2>10. LastInv' /\ RoomInv'
    BY <2>2, <2>9 DEF LastInv, RoomInv
  <2> QED
    BY <1>1, <2>6, <2>7, <2>8, <2>10, ListStays, Stutters DEF HistoryInv
<1> QED
  BY <1>2, <1>3 DEF TakeSnapshot

\* The call's own snapshot, while nothing was saved for it, is the one that is not a step.
LEMMA OwnIsUnsettled ==
  ASSUME IInv, HistoryInv, NEW c \in Calls, NeedsOwn(c), savedAs[c] = None
  PROVE  \E u \in snaps : u.name = mine[c] /\ u \notin Kept /\ IsNewest(u, snaps)
<1>1. PICK u \in snaps : u.name = mine[c] /\ u.by = c /\ IsNewest(u, snaps)
  BY DEF IInv, OwnInv, HasOwn, HistoryInv, SnapsInv
<1>2. ~Settled(u)
  BY <1>1 DEF Settled, NeedsOwn, Over
<1> QED
  BY <1>1, <1>2 DEF Kept

\* Retention forgets the oldest steps, to make room for the one to come.
LEMMA ApplyRetentionHistory ==
  ASSUME IInv, IInv', ReportInv, ReportInv', HistoryInv, ~RemovalFails,
         NEW c \in Calls, ApplyRetention(c)
  PROVE  HistoryInv' /\ HistoryStep
<1> USE DEF fileVars, hostVars, callVars
<1>1. /\ queue # <<>> /\ Head(queue) = c /\ pc[c] = "retaining"
      /\ UNCHANGED <<file, since, fresh, mine, victim, savedAs, op>>
      /\ pc \in [Calls -> CallStates] /\ savedAs[c] = None
      /\ NeedsOwn(c)
  BY CallStepShape
  DEF CallStep, ApplyRetention, IInv, TypeOK, CallStates, ReportInv, HostOf, NothingSent,
      NeedsOwn
<1>2. CASE UNCHANGED <<snaps, spent>> /\ Finish(c, "refused")
  <2>1. pc' = [pc EXCEPT ![c] = "done"]
    BY <1>2 DEF Finish
  <2> QED
    BY <1>1, <1>2, <2>1, NobodyRuns, CallsEnd
<1>3. CASE snaps' \in Pruned(snaps) /\ Goto(c, "sending")
  <2>1. snaps' = Retained(snaps) /\ snaps \in SUBSET Snapshot /\ snaps' \subseteq snaps
    BY <1>3 DEF Pruned, Retained, IInv, TypeOK
  <2>2. \A d \in Calls : pc'[d] = IF d = c THEN "sending" ELSE pc[d]
    BY <1>1, <1>3 DEF Goto
  <2>3. PICK u \in snaps : u \notin Kept /\ IsNewest(u, snaps)
    BY <1>1, OwnIsUnsettled
  <2>4. snaps = Kept \cup {u} /\ \A s \in Kept : s.name < u.name
    BY <2>3, OneUnsettled
  <2>5. PICK n, q : Enumerates(q, n, Kept)
    BY DEF HistoryInv, ListInv
  <2>6. n \in Nat /\ Kept \in SUBSET Snapshot /\ Steps = StepsOf(Kept) /\ Len(Steps) = n
    BY <2>5, StepsTyped DEF Enumerates
  <2> DEFINE e == Extended(q, n, u)
             a == IF n >= MaxSnapshots THEN n - MaxSnapshots + 2 ELSE 1
  <2>7. /\ Enumerates(e, n + 1, snaps)
        /\ e[n + 1] = u /\ \A i \in 1..n : e[i] = q[i] /\ e[i] \in Kept
    BY <2>1, <2>3, <2>4, <2>5, <2>6, OneMore DEF Extended, Enumerates
  <2> HIDE DEF e
  <2>8. a \in 1..(n + 1) /\ \A i \in 1..n : i > n + 1 - MaxSnapshots <=> i \in a..n
    BY <2>6, EditorAssumption
  <2> HIDE DEF a
  <2>9. \A s \in snaps : Settled(s)' <=> Settled(s)
    BY <1>1, <2>1, <2>2 DEF Settled, Over, Snapshot
  <2>10. Kept' = Kept \cap Retained(snaps)
    BY <2>1, <2>9 DEF Kept
  <2>11. \A i \in 1..(n + 1) : e[i] \in Retained(snaps) <=> i > (n + 1) - MaxSnapshots
    BY <2>1, <2>7, RetainedAreLast
  <2>12. Kept' = Members(q, a, n)
    <3>1. ASSUME NEW s \in Kept', TRUE PROVE s \in Members(q, a, n)
      <4>1. PICK i \in 1..(n + 1) : s = e[i] /\ i > n + 1 - MaxSnapshots
        <5>1. s \in snaps /\ s \in Retained(snaps)
          BY <2>4, <2>10
        <5>2. PICK i \in 1..(n + 1) : s = e[i]
          BY <2>7, <5>1 DEF Enumerates
        <5> QED
          BY <2>6, <2>11, <5>1, <5>2, EditorAssumption
      <4>2. i # n + 1
        BY <2>3, <2>7, <2>10, <4>1
      <4>3. i \in 1..n /\ i \in a..n
        BY <2>6, <2>8, <4>1, <4>2
      <4> QED
        BY <2>7, <4>1, <4>3 DEF Members
    <3>2. ASSUME NEW s \in Members(q, a, n) PROVE s \in Kept'
      <4>1. PICK i \in a..n : s = q[i]
        BY DEF Members
      <4>2. i \in 1..n /\ i \in 1..(n + 1) /\ i > (n + 1) - MaxSnapshots
        BY <2>6, <2>8, <4>1, EditorAssumption
      <4> QED
        BY <2>7, <2>10, <2>11, <4>1, <4>2
    <3> QED
      BY <3>1, <3>2
  <2>13. PICK k : k = Kept'
    OBVIOUS
  <2>14. /\ \E r : Enumerates(r, n - a + 1, k)
         /\ StepsOf(k) = SubSeq(Steps, a, n) /\ Len(StepsOf(k)) = n - a + 1
    <3>1. n \in 0..n /\ a <= n + 1 /\ k = Members(q, a, n) /\ k \in SUBSET Snapshot
      BY <2>6, <2>8, <2>10, <2>12, <2>13
    <3>2. PICK r : Enumerates(r, n - a + 1, k)
      BY <2>5, <2>6, <2>8, <3>1, Stretch
    <3>3. StepsOf(k) = SubSeq(Steps, a, n)
      BY <2>5, <2>6, <2>8, <3>1, Stretch
    <3> QED
      BY <3>1, <3>2, <3>3, StepsAreListed
  <2>15. n - a + 1 < MaxSnapshots
    BY <2>6, EditorAssumption DEF a
  <2>16. OwnerInv'
    BY <1>1, <2>1 DEF HistoryInv, OwnerInv
  <2>17. SinceInv'
    BY <1>1, <2>1, <2>10 DEF HistoryInv, SinceInv
  <2>18. LastInv'
    BY <1>1, <2>2, OthersIdle DEF LastInv, Running, SharedSteps
  <2>19. RoomInv' /\ ListInv'
    BY <2>13, <2>14, <2>15 DEF RoomInv, ListInv
  <2>20. HistoryStep
    <3>1. CASE n >= MaxSnapshots
      <4>1. Steps' = SubSeq(Steps, Len(Steps) - MaxSnapshots + 2, Len(Steps))
        BY <2>6, <2>13, <2>14, <3>1, StepsOfKept DEF a
      <4>2. History!Forget
        BY <1>1, <2>6, <3>1, <4>1 DEF History!Forget
      <4> QED
        BY <4>2 DEF HistoryStep, History!Next
    <3>2. CASE ~(n >= MaxSnapshots)
      <4>1. a = 1
        BY <3>2 DEF a
      <4>2. Kept' = Kept
        BY <2>5, <2>12, <4>1 DEF Members, Enumerates
      <4> QED
        BY <1>1, <4>2, Stutters
    <3> QED
      BY <3>1, <3>2
  <2> QED
    BY <2>16, <2>17, <2>18, <2>19, <2>20 DEF HistoryInv
<1> QED
  BY <1>2, <1>3 DEF ApplyRetention

\* A snapshot is discarded only if its edit is not in the file: it was not a step.
LEMMA DiscardHistory ==
  ASSUME IInv, IInv', ReportInv, ReportInv', HistoryInv, ~RemovalFails,
         NEW c \in Calls, HostAnswers(c) \/ Verify(c) \/ Recover(c)
  PROVE  HistoryInv' /\ HistoryStep
<1> USE DEF fileVars, snapVars, hostVars, callVars
<1>1. /\ queue # <<>> /\ Head(queue) = c
      /\ UNCHANGED <<file, since, fresh, mine, victim, savedAs, op>>
      /\ pc[c] \in {"waiting", "verifying", "recovering"} /\ NeedsOwn(c)
      /\ pc \in [Calls -> CallStates] /\ op[c] = "edit"
      /\ HostOf(c) /\ Ahead(c)
      /\ current[c] \in Nat /\ savedAs[c] \in Nat \cup {None} /\ file \in Nat \cup {None}
  BY CallStepShape
  DEF CallStep, HostAnswers, Verify, Recover, IInv, TypeOK, CallStates, ReportInv, HostOf,
      NeedsOwn, EditSteps
<1>2. \/ snaps' = snaps /\ pc' = [pc EXCEPT ![c] = "done"]
      \/ snaps' = snaps /\ \E p \in {"verifying", "recovering", "readback", "restoring"} :
                               pc' = [pc EXCEPT ![c] = p]
      \/ /\ DiscardSnapshot(c) /\ pc' = [pc EXCEPT ![c] = "done"]
         /\ hop[c] = "refused" \/ (pc[c] # "waiting" /\ Readable /\ file = current[c])
  <2>1. CASE HostAnswers(c)
    BY <2>1 DEF HostAnswers, Goto, Finish
  <2>2. CASE Verify(c)
    BY <2>2 DEF Verify, Goto, Finish
  <2>3. CASE Recover(c)
    BY <2>3 DEF Recover, Goto, Finish
  <2> QED
    BY <2>1, <2>2, <2>3
<1>3. CASE snaps' = snaps /\ pc' = [pc EXCEPT ![c] = "done"]
  BY <1>1, <1>3, NobodyRuns, CallsEnd
<1>4. CASE snaps' = snaps /\ \E p \in {"verifying", "recovering", "readback", "restoring"} :
                                 pc' = [pc EXCEPT ![c] = p]
  <2>1. PICK p \in {"verifying", "recovering", "readback", "restoring"} :
           pc' = [pc EXCEPT ![c] = p]
    BY <1>4
  <2>2. ~Over(c) /\ pc[c] # "removing" /\ pc[c] # "retaining"
    BY <1>1 DEF Over
  <2> QED
    BY <1>1, <1>4, <2>1, <2>2, QuietStep
<1>5. CASE /\ DiscardSnapshot(c) /\ pc' = [pc EXCEPT ![c] = "done"]
           /\ hop[c] = "refused" \/ (pc[c] # "waiting" /\ Readable /\ file = current[c])
  <2>1. savedAs[c] = None
    BY <1>1, <1>5, EditorAssumption DEF HostOf, Ahead, Readable
  <2>2. PICK u \in snaps : u.name = mine[c] /\ u \notin Kept
    BY <1>1, <2>1, OwnIsUnsettled
  <2>3. snaps = Kept \cup {u} /\ \A s \in Kept : s.name < u.name
    BY <2>2, OneUnsettled
  <2>4. snaps' = {s \in snaps : s.name # mine[c]}
    BY <1>5 DEF DiscardSnapshot, Without
  <2>5. snaps' = Kept
    BY <2>2, <2>3, <2>4, Numbers
  <2>6. OwnerInv'
    BY <1>1, <2>4 DEF HistoryInv, OwnerInv
  <2>7. \A d \in Calls : ~Running(d)'
    BY <1>1, <1>5, NobodyRuns
  <2>8. Kept' = Kept
    BY <2>5, <2>6, <2>7, RestIsSettled
  <2>9. SinceInv'
    BY <1>1, <2>5, <2>8 DEF HistoryInv, SinceInv
  <2>10. LastInv' /\ RoomInv'
    BY <2>7 DEF LastInv, RoomInv, NeedsOwn, Running, EditSteps, SharedSteps
  <2> QED
    BY <1>1, <2>6, <2>8, <2>9, <2>10, ListStays, Stutters DEF HistoryInv
<1> QED
  BY <1>2, <1>3, <1>4, <1>5

\* A revert, and a rollback of what was saved, takes the last step back.  A rollback of
\* what was not only puts back what others have overwritten.
LEMMA RestoreHistory ==
  ASSUME IInv, IInv', ReportInv, ReportInv', HistoryInv, NEW c \in Calls, Restore(c)
  PROVE  HistoryInv' /\ HistoryStep
<1> USE DEF snapVars, hostVars
<1>1. /\ queue # <<>> /\ Head(queue) = c /\ pc[c] = "restoring"
      /\ UNCHANGED <<fresh, snaps, mine, savedAs, op>>
      /\ pc \in [Calls -> CallStates]
      /\ victim \in [Calls -> Nat \cup {None}] /\ snaps \in SUBSET Snapshot
  BY CallStepShape DEF CallStep, Restore, IInv, TypeOK, CallStates
<1>2. OwnerInv'
  BY <1>1 DEF HistoryInv, OwnerInv
<1>3. CASE UNCHANGED <<file, since, victim>> /\ RestoreFailed(c)
  <2>1. pc' = [pc EXCEPT ![c] = "done"]
    BY <1>3 DEF RestoreFailed, Finish
  <2> QED
    BY <1>1, <1>3, <2>1, NobodyRuns, CallsEnd
<1>4. CASE /\ snaps # {}
           /\ IF op[c] = "edit" /\ savedAs[c] = None
                THEN Overwrite(Newest(snaps).bytes)
                ELSE Write(Newest(snaps).bytes)
           /\ victim' = [victim EXCEPT ![c] = Newest(snaps).name]
           /\ Goto(c, "removing")
  <2>1. IsNewest(Newest(snaps), snaps)
    BY <1>4, NewestIsNewest DEF IInv, SnapsInv
  <2>2. PICK u : u = Newest(snaps)
    OBVIOUS
  <2>3. /\ u \in snaps /\ u \in Snapshot /\ IsNewest(u, snaps)
        /\ u.bytes \in 0..MaxVersions /\ u.bytes # None
    <3>1. u \in snaps /\ IsNewest(u, snaps)
      BY <2>1, <2>2 DEF IsNewest
    <3>2. u.bytes < fresh /\ fresh <= MaxVersions + 1
      BY <3>1 DEF ReportInv, VersionsInv, HistoryInv, SinceInv
    <3> QED
      BY <1>1, <3>1, <3>2, Numbers, EditorAssumption
  <2>4. \A d \in Calls : /\ pc'[d] = IF d = c THEN "removing" ELSE pc[d]
                         /\ victim'[d] = IF d = c THEN u.name ELSE victim[d]
    BY <1>1, <1>4, <2>2 DEF Goto
  <2>5. \A d \in Calls : d # c => ~Running(d)
    BY <1>1, OthersIdle
  <2>6. \A d \in Calls : pc'[d] = "removing" => d = c
    BY <2>4, <2>5 DEF Running, SharedSteps
  <2>7. \A d \in Calls : pc[d] # "removing"
    BY <1>1, <2>5 DEF Running, SharedSteps
  <2>8. \A s \in snaps : /\ Settled(s)' <=> Settled(s) /\ s # u
                         /\ s # u => s.name # u.name
    <3>1. \A s \in snaps : s # u => s.name # u.name
      BY <2>3 DEF IInv, SnapsInv
    <3>2. \A s \in snaps : (savedAs[s.by] # None \/ Over(s.by)) <=>
                           (savedAs'[s.by] # None \/ Over(s.by)')
      BY <1>1, <2>4 DEF Over, Snapshot
    <3> QED
      BY <2>4, <2>6, <2>7, <3>1, <3>2 DEF Settled
  <2>9. Kept' = Kept \ {u}
    BY <1>1, <2>8 DEF Kept
  <2>10. LastInv'
    <3>1. \A d \in Calls : pc'[d] # "readback"
      BY <2>4, <2>5 DEF Running, SharedSteps
    <3>2. IsNewest(u, snaps)'
      BY <1>1, <2>3 DEF IsNewest
    <3> QED
      BY <1>1, <2>3, <2>4, <2>6, <3>1, <3>2 DEF LastInv
  <2>11. RoomInv'
    <3>1. \A d \in Calls : ~NeedsOwn(d)'
      BY <2>4, <2>5 DEF NeedsOwn, Running, EditSteps, SharedSteps
    <3> QED
      BY <3>1 DEF RoomInv
  <2>12. CASE op[c] = "edit" /\ savedAs[c] = None
    <3>1. file' = u.bytes /\ since' = since \cup {u.bytes}
      BY <1>4, <2>2, <2>12 DEF Overwrite
    <3>2. u \notin Kept
      <4>1. PICK w \in snaps : w \notin Kept /\ IsNewest(w, snaps)
        BY <1>1, <2>12, OwnIsUnsettled DEF NeedsOwn
      <4>2. \A s \in snaps : s.name \in Nat
        BY Numbers
      <4>3. w = u
        BY <2>3, <4>1, <4>2 DEF IsNewest, IInv, SnapsInv
      <4> QED
        BY <4>1, <4>3
    <3>3. Kept' = Kept
      BY <2>9, <3>2
    <3>4. SinceInv'
      BY <1>1, <3>1, <3>3 DEF HistoryInv, SinceInv
    <3>5. Steps' = Steps
      BY <3>3, StepsOfKept
    <3>6. History!Outside
      BY <2>3, <3>1, <3>5 DEF History!Outside
    <3> QED
      BY <1>2, <2>10, <2>11, <3>3, <3>4, <3>6, ListStays
      DEF HistoryInv, HistoryStep, History!Next
  <2>13. CASE ~(op[c] = "edit" /\ savedAs[c] = None)
    <3>1. file' = u.bytes /\ since' = {u.bytes}
      BY <1>4, <2>2, <2>13 DEF Write
    <3>2. Kept = snaps
      <4>1. ASSUME NEW w \in snaps, w \notin Kept PROVE FALSE
        BY <1>1, <2>5, <2>7, <2>13, <4>1, Unsettled
      <4> QED
        BY <4>1 DEF Kept
    <3>3. PICK n, q : Enumerates(q, n, snaps)
      BY <3>2 DEF HistoryInv, ListInv
    <3>4. n \in Nat \ {0} /\ u = q[n]
      <4>1. PICK i \in 1..n : q[i] = u
        BY <2>3, <3>3 DEF Enumerates
      <4>2. n \in Nat /\ q[n] \in snaps
        BY <3>3, <4>1 DEF Enumerates
      <4>3. ~(q[i].name < q[n].name)
        BY <2>3, <4>1, <4>2, Numbers DEF IsNewest
      <4>4. i = n
        BY <3>3, <4>1, <4>2, <4>3 DEF Enumerates
      <4> QED
        BY <4>1, <4>2, <4>4
    <3>5. /\ Steps = [i \in 1..n |-> q[i].bytes] /\ Steps \in Seq(Nat) /\ Len(Steps) = n
      BY <1>1, <3>2, <3>3, StepsAreListed, StepsOfKept
    <3>6. Kept' = Members(q, 1, n - 1)
      <4>1. snaps = {q[i] : i \in 1..n}
        BY <3>3 DEF Enumerates
      <4>2. \A i \in 1..n : q[i] = q[n] <=> i = n
        <5>1. \A i \in 1..n : q[i].name \in Nat
          BY <3>3, Numbers DEF Enumerates
        <5> QED
          BY <3>3, <3>4, <5>1 DEF Enumerates
      <4> QED
        BY <2>9, <3>2, <3>4, <4>1, <4>2 DEF Members
    <3>7. PICK k : k = Kept'
      OBVIOUS
    <3>8. (\E r : Enumerates(r, n - 1, k)) /\ StepsOf(k) = SubSeq(StepsOf(snaps), 1, n - 1)
      <4>1. /\ 1 \in 1..(n + 1) /\ n - 1 \in 0..n /\ 1 <= (n - 1) + 1
            /\ (n - 1) - 1 + 1 = n - 1
        BY <3>4
      <4> QED
        <5>1. k = Members(q, 1, n - 1)
          BY <3>6, <3>7
        <5>2. /\ \E r : Enumerates(r, (n - 1) - 1 + 1, k)
              /\ StepsOf(k) = SubSeq(StepsOf(snaps), 1, n - 1)
          BY <1>1, <3>3, <4>1, <5>1, Stretch
        <5> QED
          BY <4>1, <5>2
    <3>9. Steps' = SubSeq(Steps, 1, Len(Steps) - 1)
      BY <3>2, <3>5, <3>7, <3>8, StepsOfKept
    <3>10. ListInv'
      BY <3>7, <3>8 DEF ListInv
    <3>11. SinceInv'
      BY <1>1, <2>9, <3>1, <3>2 DEF HistoryInv, SinceInv
    <3>12. History!Undo
      <4>1. Steps # <<>> /\ Steps[Len(Steps)] = u.bytes
        BY <3>4, <3>5
      <4> QED
        BY <3>1, <3>9, <4>1 DEF History!Undo
    <3> QED
      BY <1>2, <2>10, <2>11, <3>10, <3>11, <3>12 DEF HistoryInv, HistoryStep, History!Next
  <2> QED
    BY <2>12, <2>13
<1> QED
  BY <1>3, <1>4 DEF Restore

\* What was put back is no step any more when it is deleted.
LEMMA RemoveRestoredHistory ==
  ASSUME IInv, IInv', ReportInv, ReportInv', HistoryInv, ~RemovalFails,
         NEW c \in Calls, RemoveRestored(c)
  PROVE  HistoryInv' /\ HistoryStep
<1> USE DEF fileVars, hostVars, callVars
<1>1. /\ queue # <<>> /\ Head(queue) = c /\ pc[c] = "removing"
      /\ UNCHANGED <<file, since, fresh, mine, victim, savedAs, op>>
      /\ pc \in [Calls -> CallStates] /\ op[c] \in {"edit", "revert"}
  BY CallStepShape DEF CallStep, RemoveRestored, IInv, TypeOK, CallStates
<1>2. snaps' = {s \in snaps : s.name # victim[c]}
  BY DEF RemoveRestored, Without
<1>3. PICK u \in snaps : u.name = victim[c]
  BY <1>1 DEF HistoryInv, LastInv
<1>4. u \notin Kept
  BY <1>1, <1>3 DEF Kept, Settled
<1>5. snaps = Kept \cup {u} /\ \A s \in Kept : s.name < u.name
  BY <1>3, <1>4, OneUnsettled
<1>6. snaps' = Kept
  BY <1>2, <1>3, <1>4, <1>5, Numbers
<1>7. OwnerInv'
  BY <1>1, <1>2 DEF HistoryInv, OwnerInv
<1>8. \/ op[c] = "edit" /\ pc' = [pc EXCEPT ![c] = "done"]
      \/ op[c] = "revert" /\ pc' = [pc EXCEPT ![c] = "readback"]
  BY <1>1 DEF RemoveRestored, Goto, Finish
<1>9. \A d \in Calls : Running(d)' => op'[d] = "revert" /\ pc'[d] = "readback"
  <2>1. \A d \in Calls : d # c => ~Running(d) /\ pc'[d] = pc[d]
    BY <1>1, <1>8, OthersIdle
  <2> QED
    BY <1>1, <1>8, <2>1 DEF Running, EditSteps, SharedSteps
<1>10. Kept' = Kept
  BY <1>6, <1>7, <1>9, RestIsSettled
<1>11. SinceInv'
  BY <1>1, <1>6, <1>10 DEF HistoryInv, SinceInv
<1>12. LastInv' /\ RoomInv'
  BY <1>9 DEF LastInv, RoomInv, NeedsOwn, Running, EditSteps, SharedSteps
<1> QED
  BY <1>1, <1>7, <1>10, <1>11, <1>12, ListStays, Stutters DEF HistoryInv

\* The save that a call waits for, or has given up waiting for and not yet rolled back,
\* is the edit; any other is like that of another program.
LEMMA HostHistory ==
  ASSUME IInv, IInv', ReportInv, ReportInv', HistoryInv, NEW c \in Calls, HostStep(c)
  PROVE  HistoryInv' /\ HistoryStep
<1> USE DEF fileVars, snapVars, hostVars, callVars
<1>1. UNCHANGED <<snaps, mine, op, victim>>
  BY DEF HostStep, HostOpen, HostGivesUp, HostStartsSave, HostSave, HostClose, HostDies,
     HostMoves
<1>2. /\ fresh \in Nat /\ fresh <= MaxVersions + 1 /\ MaxVersions \in Nat
      /\ pc \in [Calls -> CallStates] /\ savedAs \in [Calls -> Nat \cup {None}]
      /\ HostOf(c) /\ op[c] \in {"edit", "revert"} /\ None \notin Nat
      /\ \A s \in snaps : s.by \in Calls /\ mine[s.by] = s.name
  BY EditorAssumption, Numbers
  DEF HistoryInv, SinceInv, OwnerInv, IInv, TypeOK, CallStates, ReportInv
<1>3. ASSUME UNCHANGED <<file, since, fresh, savedAs, pc>>
      PROVE  HistoryInv' /\ HistoryStep
  <2>1. Kept' = Kept
    BY <1>1, <1>3 DEF Kept, Settled, Over
  <2> QED
    BY <1>1, <1>2, <1>3, <2>1, OutsideStep
<1>4. CASE HostOpen(c) \/ HostGivesUp(c) \/ HostStartsSave(c) \/ HostClose(c)
  BY <1>3, <1>4 DEF HostOpen, HostGivesUp, HostStartsSave, HostClose, HostMoves
<1>5. CASE HostDies(c)
  <2>1. UNCHANGED <<file, since, fresh, savedAs>>
    BY <1>5 DEF HostDies
  <2>2. CASE pc[c] # "waiting"
    BY <1>3, <1>5, <2>1, <2>2 DEF HostDies
  <2>3. CASE pc[c] = "waiting"
    <3>1. pc' = [pc EXCEPT ![c] = "recovering"]
      BY <1>5, <2>3 DEF HostDies, Goto
    <3>2. ~Over(c) /\ NeedsOwn(c)
      BY <2>3 DEF Over, NeedsOwn
    <3>3. \A d \in Calls \ {c} : op'[d] = op[d]
      BY <1>1
    <3> QED
      BY <1>1, <2>1, <2>3, <3>1, <3>2, <3>3, QuietStep
  <2> QED
    BY <2>2, <2>3
<1>6. CASE HostSave(c) /\ UNCHANGED <<file, fresh, since, savedAs>>
  BY <1>3, <1>6 DEF HostSave, HostMoves
<1>7. CASE /\ hop[c] = "saving" /\ fresh <= MaxVersions /\ UNCHANGED pc
           /\ IF Awaited(c) THEN Write(fresh) ELSE Overwrite(fresh)
           /\ fresh' = fresh + 1
           /\ savedAs' = [savedAs EXCEPT ![c] = fresh]
  <2>1. /\ fresh \in 0..MaxVersions /\ fresh # None /\ fresh' <= MaxVersions + 1
        /\ savedAs[c] = None /\ mine[c] # None /\ op[c] = "edit"
        /\ pc[c] \in {"waiting", "aborted"} \/ c \in killed
        /\ c \in killed => pc[c] \in {"recovering", "restoring", "removing", "done", "aborted"}
        /\ pc[c] = "removing" => victim[c] = mine[c]
    BY <1>2, <1>7 DEF HostOf, HistoryInv, IInv, SnapsInv
  <2>2. \A d \in Calls : savedAs'[d] = IF d = c THEN fresh ELSE savedAs[d]
    BY <1>2, <1>7
  <2>3. CASE Awaited(c)
    <3>1. NeedsOwn(c) /\ pc[c] # "retaining" /\ Running(c)
      BY <2>1, <2>3 DEF Awaited, Over, NeedsOwn, Running, EditSteps, SharedSteps
    <3>2. PICK u \in snaps : u.name = mine[c] /\ u \notin Kept
      BY <2>1, <3>1, OwnIsUnsettled
    <3>3. snaps = Kept \cup {u} /\ \A s \in Kept : s.name < u.name
      BY <3>2, OneUnsettled
    <3>4. u \in Snapshot /\ u.bytes \in since /\ u.bytes # None
      BY <1>2, <3>2, Unsettled DEF IInv, TypeOK
    <3>5. u.by = c
      <4>1. mine[u.by] = mine[c] /\ u.by \in Calls
        BY <1>2, <3>2
      <4> QED
        BY <2>1, <4>1 DEF ReportInv, NamesInv
    <3>6. \A d \in Calls : pc[d] # "removing"
      <4>1. queue # <<>> /\ Head(queue) = c
        BY <3>1 DEF IInv, TurnInv
      <4>2. pc[c] # "removing"
        BY <2>3 DEF Awaited
      <4> QED
        BY <4>1, <4>2, OthersIdle DEF Running, SharedSteps
    <3>7. Kept' = snaps
      <4>1. \A s \in snaps : savedAs[s.by] # None => savedAs'[s.by] # None
        BY <1>2, <2>1, <2>2
      <4>2. savedAs'[u.by] # None
        BY <2>1, <2>2, <3>5
      <4>3. \A s \in Kept : savedAs'[s.by] # None \/ Over(s.by)'
        BY <1>7, <4>1 DEF Kept, Settled, Over
      <4>4. \A s \in snaps : savedAs'[s.by] # None \/ Over(s.by)'
        BY <3>3, <4>2, <4>3
      <4> QED
        BY <1>1, <1>7, <3>6, <4>4 DEF Kept, Settled
    <3>8. PICK n, q : Enumerates(q, n, Kept)
      BY DEF HistoryInv, ListInv
    <3>9. /\ Enumerates(Extended(q, n, u), n + 1, snaps)
          /\ StepsOf(snaps) = Append(StepsOf(Kept), u.bytes)
      BY <3>3, <3>4, <3>8, OneMore, StepsTyped
    <3>10. Steps' = Append(Steps, u.bytes)
      BY <3>7, <3>9, StepsOfKept
    <3>11. Len(Steps) < MaxSnapshots
      BY <2>1, <3>1, StepsOfKept DEF HistoryInv, RoomInv
    <3>12. file' = fresh /\ since' = {fresh}
      BY <1>7, <2>3 DEF Write
    <3>13. History!Edit
      BY <2>1, <3>4, <3>10, <3>11, <3>12 DEF History!Edit
    <3>14. OwnerInv' /\ SinceInv' /\ ListInv'
      <4>1. OwnerInv'
        BY <1>1 DEF HistoryInv, OwnerInv
      <4>2. SinceInv'
        BY <1>1, <2>1, <3>7, <3>12 DEF SinceInv
      <4> QED
        BY <3>7, <3>9, <4>1, <4>2 DEF ListInv
    <3>15. LastInv'
      BY <1>1, <1>7 DEF HistoryInv, LastInv, IsNewest
    <3>16. RoomInv'
      <4>1. \A d \in Calls : NeedsOwn(d)' => d = c
        BY <1>1, <1>7, <3>1 DEF IInv, TurnInv, NeedsOwn, Running, EditSteps, SharedSteps
      <4> QED
        BY <1>2, <2>1, <2>2, <4>1 DEF RoomInv
    <3> QED
      BY <3>13, <3>14, <3>15, <3>16 DEF HistoryInv, HistoryStep, History!Next
  <2>4. CASE ~Awaited(c)
    <3>1. file' = fresh /\ since' = since \cup {file'}
      BY <1>7, <2>4 DEF Overwrite
    <3>2. Over(c) \/ pc[c] = "removing"
      BY <2>4 DEF Awaited
    <3>3. \A s \in snaps : s.by = c => s.name = mine[c]
      BY <1>2
    <3>4. \A s \in snaps : Settled(s)' <=> Settled(s)
      <4>1. \A s \in snaps : s.by # c => (Settled(s)' <=> Settled(s))
        BY <1>1, <1>2, <1>7, <2>2 DEF Settled, Over
      <4>2. CASE Over(c)
        BY <1>1, <1>2, <1>7, <2>2, <4>1, <4>2 DEF Settled, Over
      <4>3. CASE pc[c] = "removing"
        <5>1. \A s \in snaps : s.by = c => ~Settled(s) /\ ~Settled(s)'
          BY <1>1, <1>7, <2>1, <3>3, <4>3 DEF Settled
        <5> QED
          BY <4>1, <5>1
      <4> QED
        BY <3>2, <4>2, <4>3
    <3>5. Kept' = Kept
      BY <1>1, <3>4 DEF Kept
    <3>6. \A d \in Calls : savedAs'[d] = None => savedAs[d] = None
      BY <2>1, <2>2
    <3> QED
      BY <1>1, <1>7, <2>1, <3>1, <3>5, <3>6, OutsideStep
  <2> QED
    BY <2>3, <2>4
<1> QED
  BY <1>4, <1>5, <1>6, <1>7 DEF HostStep, HostSave, HostMoves

\* Other programs write the document from outside.
LEMMA UserHistory ==
  ASSUME IInv, IInv', HistoryInv, UserStep
  PROVE  HistoryInv' /\ HistoryStep
<1>1. UNCHANGED <<snaps, mine, pc, op, victim, savedAs>>
  BY DEF UserStep, UserSaves, UserRemoves, UserHolds, fileVars, hostVars, callVars, snapVars
<1>2. Kept' = Kept
  BY <1>1 DEF Kept, Settled, Over
<1>3. /\ fresh \in Nat /\ fresh <= MaxVersions + 1 /\ MaxVersions \in Nat
  BY EditorAssumption DEF HistoryInv, SinceInv, IInv, TypeOK
<1>4. /\ fresh' <= MaxVersions + 1
      /\ \/ UNCHANGED <<file, since>>
         \/ file' \in 0..MaxVersions \cup {None} /\ since' = since \cup {file'}
  BY <1>3 DEF UserStep, UserSaves, UserRemoves, UserHolds, Overwrite, fileVars
<1> QED
  BY <1>1, <1>2, <1>4, OutsideStep

\* Every step of the editor, the host, other programs and a crash is one of the history.
LEMMA HistoryPreserved ==
  ASSUME IInv, IInv', ReportInv, ReportInv', HistoryInv, ~RemovalFails, [Next]_vars
  PROVE  HistoryInv' /\ HistoryStep
<1>1. ASSUME NEW c \in Calls, Call(c) PROVE HistoryInv' /\ HistoryStep
  <2>1. /\ UNCHANGED <<snaps, file, since, fresh, mine, victim, savedAs>>
        /\ pc[c] = "idle" /\ pc' = [pc EXCEPT ![c] = "queued"]
        /\ \A d \in Calls \ {c} : op'[d] = op[d]
    BY <1>1 DEF Call, fileVars, snapVars, hostVars, IInv, TypeOK
  <2>2. ~Over(c) /\ ~NeedsOwn(c)'
    BY <2>1 DEF Over, NeedsOwn, IInv, TypeOK
  <2> QED
    BY <2>1, <2>2, QuietStep
<1>2. ASSUME NEW c \in Calls, CallStep(c) PROVE HistoryInv' /\ HistoryStep
  BY <1>2, PlainHistory, TakeSnapshotHistory, ApplyRetentionHistory, DiscardHistory,
     RestoreHistory, RemoveRestoredHistory
  DEF CallStep
<1>3. ASSUME NEW c \in Calls, HostStep(c) PROVE HistoryInv' /\ HistoryStep
  BY <1>3, HostHistory
<1>4. CASE UserStep
  BY <1>4, UserHistory
<1>5. CASE Crash
  <2>1. UNCHANGED <<snaps, file, since, fresh, mine>>
    BY <1>5 DEF Crash, fileVars, snapVars, callVars, hostVars
  <2>2. \A c \in Calls : ~Running(c)'
    BY <1>5 DEF Crash, Running, EditSteps, SharedSteps
  <2> QED
    BY <2>1, <2>2, CallsEnd
<1>6. CASE UNCHANGED vars
  <2>1. UNCHANGED <<snaps, mine, pc, op, victim, savedAs, file, since, fresh>>
    BY <1>6 DEF vars, fileVars, snapVars, callVars, hostVars
  <2>2. Kept' = Kept
    BY <2>1 DEF Kept, Settled, Over
  <2>3. fresh' <= MaxVersions + 1
    BY <2>1 DEF HistoryInv, SinceInv
  <2> QED
    BY <2>1, <2>2, <2>3, OutsideStep
<1> QED
  BY <1>1, <1>2, <1>3, <1>4, <1>5, <1>6 DEF Next

\* A document that was not edited has no history.
LEMMA HistoryStarts ==
  ASSUME Init, ~ClockGoesBack
  PROVE  HistoryInv /\ History!Init
<1>1. snaps = {} /\ Kept = {}
  BY DEF Init, Kept
<1>2. Enumerates(<<>>, 0, Kept)
  BY <1>1 DEF Enumerates
<1>3. Steps = <<>> /\ Len(StepsOf(Kept)) = 0
  BY <1>1, FS_EmptySet, StepsOfKept DEF StepsOf
<1>4. HistoryInv
  BY <1>1, <1>2, <1>3, EditorAssumption
  DEF Init, HistoryInv, OwnerInv, LastInv, SinceInv, RoomInv, ListInv, NeedsOwn
<1>5. History!Init
  BY <1>3, EditorAssumption DEF Init, History!Init
<1> QED
  BY <1>4, <1>5

\* The two tools together keep the undo history that EditHistory specifies, as long as
\* the file system deletes what it is told to delete, and the names of the snapshots
\* follow their age: under a clock that is set back, they need not.
THEOREM ImplementsUndoHistory ==
  ASSUME ~RemovalFails, ~ClockGoesBack
  PROVE  Spec => ImplementsHistory
<1>1. Init => IInv /\ ReportInv /\ HistoryInv /\ History!Init
  BY InvInit, ReportsInit, HistoryStarts
<1>2. IInv /\ ReportInv /\ HistoryInv /\ [Next]_vars
          => (IInv /\ ReportInv /\ HistoryInv)' /\ [History!Next]_(History!vars)
  <2>1. ASSUME IInv, ReportInv, HistoryInv, [Next]_vars
        PROVE  (IInv /\ ReportInv /\ HistoryInv)' /\ [History!Next]_(History!vars)
    <3>1. IInv'
      BY <2>1, InvStep
    <3>2. ReportInv'
      BY <2>1, <3>1, ReportStep
    <3>3. HistoryInv' /\ HistoryStep
      BY <2>1, <3>1, <3>2, HistoryPreserved
    <3> QED
      BY <3>1, <3>2, <3>3 DEF HistoryStep
  <2> QED
    BY <2>1
<1> QED
  BY <1>1, <1>2, PTL DEF Spec, ImplementsHistory, History!Spec
=============================================================================
