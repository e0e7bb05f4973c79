---------------------------- MODULE DocumentEditor ----------------------------
(***************************************************************************)
(* edit_document and revert_document over one Word document:               *)
(* src/word/document-editor.mjs with src/word/snapshots.mjs, the Cmd-Edit  *)
(* handler of src/word/word-host.ps1 it drives, and the programs outside   *)
(* the extension that share the file.                                      *)
(*                                                                         *)
(* The document is the VERSION of its bytes, a number; every write of new  *)
(* bytes mints the next one, and a revision token (the SHA-256 of the      *)
(* file) is the version itself, so two tokens match exactly when the bytes *)
(* are equal.  An agent may cite the token of any version the document has *)
(* had: it could have read the document then.  One document is enough: the *)
(* lock, the snapshot directory and the file are all per document.         *)
(*                                                                         *)
(* A call is an asynchronous function; each action below is the code       *)
(* between two of its awaits, and the host, the user and a crash of the    *)
(* extension process interleave between them.                              *)
(***************************************************************************)
EXTENDS Integers, Sequences, FiniteSets

CONSTANTS
    Calls,          \* the edit_document and revert_document calls
    Holders,        \* how programs outside the extension ever hold the file
    None,           \* no bytes, no name: a missing file, an unset field
    MaxSnapshots,   \* MAX_SNAPSHOTS_PER_DOCUMENT
    RemovalFails,   \* whether the file system may refuse to delete a snapshot
    ClockGoesBack,  \* whether a snapshot may be named before an older one: the
                    \* clock was set back, or is another process's
    Stamps,         \* bound: the names of snapshots, numbered as they sort
    MaxVersions,    \* bound: versions of the document that are ever written
    MaxCrashes      \* bound: crashes of the extension process

ASSUME EditorAssumption ==
    /\ None \notin Nat
    /\ Holders \subseteq {"word", "exclusive"}
    /\ MaxSnapshots \in Nat \ {0}
    /\ RemovalFails \in BOOLEAN
    /\ ClockGoesBack \in BOOLEAN
    /\ Stamps \subseteq Nat
    /\ MaxVersions \in Nat
    /\ MaxCrashes \in Nat

VARIABLES
    file,       \* the bytes at docPath, or None when there is no file
    holder,     \* how a program outside the extension holds the file
    snaps,      \* the snapshot files of the document, on disk
    fresh,      \* the next version that was never written
    named,      \* the names snapshots were given so far
    crashes,    \* how often the extension process has died
    queue,      \* #locks: the calls in line for the document, the holder first
    pc,         \* where each call stands
    op,         \* "edit" or "revert"
    token,      \* the revisionToken each call cites
    current,    \* the token the call computed on entry
    mine,       \* the name of the snapshot the call took
    victim,     \* the name of the snapshot the call restored and must delete
    outcome,    \* what the call reported to its caller
    hop,        \* the Cmd-Edit the call sent: where the host stands with it
    killed,     \* the calls whose host was told to die by their timeout
    savedAs,    \* history: the bytes the host saved for the call
    since,      \* history: the bytes the document has had since its last change
                \*          by an edit or a revert of the extension
    spent,      \* history: names of snapshots put back, or evicted by retention
    misnamed    \* history: the calls whose snapshot was named before one on disk

fileVars == <<file, fresh, since>>
nameVars == <<named, misnamed>>
snapVars == <<snaps, nameVars, spent>>
callVars == <<op, token, current, mine, victim>>
hostVars == <<hop, killed, savedAs>>
vars == <<fileVars, holder, snapVars, crashes, queue, pc, outcome, callVars,
          hostVars>>

-----------------------------------------------------------------------------
Snapshot == [name: Nat, bytes: Nat, by: Calls]

\* Steps of a call between the start of its turn and its end.
EditSteps == {"reading", "snapshotting", "retaining", "sending", "waiting",
              "verifying", "recovering"}
SharedSteps == {"restoring", "removing", "readback"}
Running(c) == pc[c] \in EditSteps \cup SharedSteps \cup {"listing"}
Over(c) == pc[c] \in {"done", "aborted"}

Outcomes == {"none", "refused", "applied", "unreadable", "failed",
             "notPersisted", "unchanged", "rolledBack", "kept", "reverted",
             "revertFailed"}

TypeOK ==
    /\ file \in Nat \cup {None}
    /\ holder \in {"nobody"} \cup Holders
    /\ snaps \in SUBSET Snapshot
    /\ fresh \in Nat
    /\ named \in SUBSET Nat
    /\ crashes \in Nat
    /\ queue \in Seq(Calls)
    /\ pc \in [Calls -> EditSteps \cup SharedSteps
                          \cup {"idle", "queued", "listing", "done", "aborted"}]
    /\ op \in [Calls -> {"edit", "revert"}]
    /\ token \in [Calls -> Nat]
    /\ current \in [Calls -> Nat]
    /\ mine \in [Calls -> Nat \cup {None}]
    /\ victim \in [Calls -> Nat \cup {None}]
    /\ outcome \in [Calls -> Outcomes]
    /\ hop \in [Calls -> {"none", "sent", "open", "saving", "saved", "edited",
                          "refused", "error"}]
    /\ killed \in SUBSET Calls
    /\ savedAs \in [Calls -> Nat \cup {None}]
    /\ since \in SUBSET (Nat \cup {None})
    /\ spent \in SUBSET Nat
    /\ misnamed \in SUBSET Calls

Init ==
    /\ file = 0
    /\ holder = "nobody"
    /\ snaps = {}
    /\ fresh = 1
    /\ named = {}
    /\ crashes = 0
    /\ queue = <<>>
    /\ pc = [c \in Calls |-> "idle"]
    /\ op = [c \in Calls |-> "edit"]
    /\ token = [c \in Calls |-> 0]
    /\ current = [c \in Calls |-> 0]
    /\ mine = [c \in Calls |-> None]
    /\ victim = [c \in Calls |-> None]
    /\ outcome = [c \in Calls |-> "none"]
    /\ hop = [c \in Calls |-> "none"]
    /\ killed = {}
    /\ savedAs = [c \in Calls |-> None]
    /\ since = {0}
    /\ spent = {}
    /\ misnamed = {}

-----------------------------------------------------------------------------
(* What the file system answers.                                           *)

\* Cmd-Edit holds the original from its open to its close.
HeldByHost == \E c \in Calls : hop[c] \in {"open", "saving", "saved"}

\* Word grants readers, an exclusive holder does not.
Readable == file # None /\ holder # "exclusive"

\* rename() onto the document fails for every holder alike.
Replaceable == holder = "nobody" /\ ~HeldByHost

\* The write-handle probe, isWritable and Test-FileWritable.
Writable == file # None /\ Replaceable

\* Bytes written by the extension on behalf of an edit or a revert start a new
\* stretch of `since`; bytes from anywhere else extend the current one.
Write(v) == file' = v /\ since' = {v}
Overwrite(v) == file' = v /\ since' = since \cup {v}

-----------------------------------------------------------------------------
(* The snapshot directory.                                                 *)

Names(S) == {s.name : s \in S}

\* Mutant: the listing sorted the wrong way round keeps the oldest.
RetainedOldest(S) ==
    {s \in S : Cardinality({t \in S : t.name < s.name}) < MaxSnapshots}

\* pruneSnapshots: the newest MaxSnapshots by name.
Retained(S) ==
    {s \in S : Cardinality({t \in S : t.name > s.name}) < MaxSnapshots}

\* latestSnapshot: the greatest name.
Newest(S) == CHOOSE s \in S : \A t \in S : t.name <= s.name

\* rm(...).catch(() => {}): a deletion that fails is not noticed.
Without(S, n) ==
    {{s \in S : s.name # n}} \cup (IF RemovalFails THEN {S} ELSE {})

\* What can be left of S once applyRetention has deleted the rest.
Pruned(S) ==
    IF RemovalFails THEN {S \ gone : gone \in SUBSET (S \ Retained(S))}
                    ELSE {Retained(S)}

-----------------------------------------------------------------------------
(* Calls and their turn (#withLock).                                       *)

Call(c) ==
    /\ pc[c] = "idle"
    /\ \E o \in {"edit", "revert"} : op' = [op EXCEPT ![c] = o]
    /\ \E t \in 0..(fresh - 1) : token' = [token EXCEPT ![c] = t]
    /\ pc' = [pc EXCEPT ![c] = "queued"]
    /\ queue' = Append(queue, c)
    /\ UNCHANGED <<fileVars, holder, snapVars, crashes, outcome, current, mine,
                   victim, hostVars>>

\* Mutant: no lock.
AnyTurn(c) == pc[c] = "queued"

MyTurn(c) == pc[c] = "queued" /\ queue # <<>> /\ Head(queue) = c

Goto(c, step) ==
    /\ pc' = [pc EXCEPT ![c] = step]
    /\ UNCHANGED <<queue, outcome>>

\* Mutant: a rejected call breaks the promise chain.
FinishUnlessRefused(c, result) ==
    /\ pc' = [pc EXCEPT ![c] = "done"]
    /\ outcome' = [outcome EXCEPT ![c] = result]
    /\ queue' = IF result = "refused" THEN queue ELSE Tail(queue)

\* The call settles; whatever it reports, the next one in line may start.
Finish(c, result) ==
    /\ pc' = [pc EXCEPT ![c] = "done"]
    /\ outcome' = [outcome EXCEPT ![c] = result]
    /\ queue' = Tail(queue)

-----------------------------------------------------------------------------
(* #edit                                                                   *)

\* validateIntent, #requireFile and the first token check.
BeginEdit(c) ==
    /\ MyTurn(c) /\ op[c] = "edit"
    /\ \/ /\ Readable /\ token[c] = file
          /\ current' = [current EXCEPT ![c] = file]
          /\ Goto(c, "reading")
       \/ /\ ~Readable \/ token[c] # file
          /\ UNCHANGED current
          /\ Finish(c, "refused")
    /\ UNCHANGED <<fileVars, holder, snapVars, crashes, op, token, mine, victim,
                   hostVars>>

\* The full read, the second token check, the writable flag and the address;
\* the read may fail, or find no paragraph at the address, whatever the file
\* holds.
ReadBefore(c) ==
    /\ pc[c] = "reading"
    /\ \/ Readable /\ file = current[c] /\ Writable /\ Goto(c, "snapshotting")
       \/ Finish(c, "refused")
    /\ UNCHANGED <<fileVars, holder, snapVars, crashes, callVars, hostVars>>

\* snapshotName: the UTC time in milliseconds, and a sequence number of the process,
\* which are unlike those of any other snapshot.  They also sort after all of them
\* only while the clock shows no earlier time.
NewNames ==
    {n \in Stamps \ named : ClockGoesBack \/ \A m \in named : m < n}

\* takeSnapshot: the copy of whatever the document holds now.
TakeSnapshot(c) ==
    /\ pc[c] = "snapshotting"
    /\ \/ \E n \in NewNames :
             /\ Readable
             /\ snaps' = snaps \cup {[name |-> n, bytes |-> file, by |-> c]}
             /\ named' = named \cup {n}
             /\ misnamed' = IF \A s \in snaps : s.name < n THEN misnamed
                                                        ELSE misnamed \cup {c}
             /\ mine' = [mine EXCEPT ![c] = n]
             /\ Goto(c, "retaining")
       \/ UNCHANGED <<snaps, nameVars, mine>> /\ Finish(c, "refused")
    /\ UNCHANGED <<fileVars, holder, spent, crashes, op, token, current, victim,
                   hostVars>>

\* Its manifest, which may fail and leave the copy behind, and applyRetention.
ApplyRetention(c) ==
    /\ pc[c] = "retaining"
    /\ \/ /\ snaps' \in Pruned(snaps)
          /\ spent' = spent \cup Names(snaps \ snaps')
          /\ Goto(c, "sending")
       \/ UNCHANGED <<snaps, spent>> /\ Finish(c, "refused")
    /\ UNCHANGED <<fileVars, holder, nameVars, crashes, callVars, hostVars>>

\* remaining(): an exhausted budget throws inside the try block; otherwise the
\* request goes out.
SendEdit(c) ==
    /\ pc[c] = "sending"
    /\ \/ Goto(c, "recovering") /\ UNCHANGED hop
       \/ Goto(c, "waiting") /\ hop' = [hop EXCEPT ![c] = "sent"]
    /\ UNCHANGED <<fileVars, holder, snapVars, crashes, callVars, killed, savedAs>>

DiscardSnapshot(c) ==
    /\ snaps' \in Without(snaps, mine[c])
    /\ UNCHANGED <<nameVars, spent>>

\* Mutant: an error is taken for a refusal.
HostAnswersError(c) ==
    /\ pc[c] = "waiting"
    /\ \/ hop[c] = "edited" /\ Goto(c, "verifying") /\ UNCHANGED snapVars
       \/ hop[c] \in {"refused", "error"} /\ DiscardSnapshot(c) /\ Finish(c, "refused")
    /\ hop' = [hop EXCEPT ![c] = "none"]
    /\ UNCHANGED <<fileVars, holder, crashes, callVars, killed, savedAs>>

\* The host's answer: a status other than "edited" affirms that nothing was
\* touched, an error leaves the outcome unknown.
HostAnswers(c) ==
    /\ pc[c] = "waiting"
    /\ \/ hop[c] = "edited" /\ Goto(c, "verifying") /\ UNCHANGED snapVars
       \/ hop[c] = "refused" /\ DiscardSnapshot(c) /\ Finish(c, "refused")
       \/ hop[c] = "error" /\ Goto(c, "recovering") /\ UNCHANGED snapVars
    /\ hop' = [hop EXCEPT ![c] = "none"]
    /\ UNCHANGED <<fileVars, holder, crashes, callVars, killed, savedAs>>

\* word_timeout: the call goes on at once.  The PowerShell child is terminated,
\* its Word is reaped later by the child's exit event (HostDies), and until
\* then Word may still be executing the last command it was given.
HostTimesOut(c) ==
    /\ pc[c] = "waiting"
    /\ killed' = killed \cup {c}
    /\ Goto(c, "recovering")
    /\ UNCHANGED <<fileVars, holder, snapVars, crashes, callVars, hop,
                   savedAs>>

\* The child exited: its Word is gone, and a call still waiting is rejected.
HostDies(c) ==
    /\ hop[c] # "none"
    /\ hop' = [hop EXCEPT ![c] = "none"]
    /\ IF pc[c] = "waiting" THEN Goto(c, "recovering")
                            ELSE UNCHANGED <<pc, queue, outcome>>
    /\ UNCHANGED <<fileVars, holder, snapVars, crashes, callVars, killed, savedAs>>

\* The second fileRevisionToken, outside any try block.
Verify(c) ==
    /\ pc[c] = "verifying"
    /\ \/ ~Readable /\ Finish(c, "failed") /\ UNCHANGED snapVars
       \/ Readable /\ file = current[c] /\ DiscardSnapshot(c)
            /\ Finish(c, "notPersisted")
       \/ Readable /\ file # current[c] /\ Goto(c, "readback") /\ UNCHANGED snapVars
    /\ UNCHANGED <<fileVars, holder, crashes, callVars, hostVars>>

\* Mutant: the snapshot is dropped with a document that cannot be read.
RecoverForgetful(c) ==
    /\ pc[c] = "recovering"
    /\ \/ ~Readable /\ DiscardSnapshot(c) /\ Finish(c, "kept")
       \/ Readable /\ file = current[c] /\ DiscardSnapshot(c)
            /\ Finish(c, "unchanged")
       \/ Readable /\ file # current[c] /\ Goto(c, "restoring") /\ UNCHANGED snapVars
    /\ UNCHANGED <<fileVars, holder, crashes, callVars, hostVars>>

\* #recoverFromUnknownOutcome, up to the decision to restore.
Recover(c) ==
    /\ pc[c] = "recovering"
    /\ \/ ~Readable /\ Finish(c, "kept") /\ UNCHANGED snapVars
       \/ Readable /\ file = current[c] /\ DiscardSnapshot(c)
            /\ Finish(c, "unchanged")
       \/ Readable /\ file # current[c] /\ Goto(c, "restoring") /\ UNCHANGED snapVars
    /\ UNCHANGED <<fileVars, holder, crashes, callVars, hostVars>>

-----------------------------------------------------------------------------
(* #revert, and revertToLatest, which the recovery of an edit shares.      *)

BeginRevert(c) ==
    /\ MyTurn(c) /\ op[c] = "revert"
    /\ \/ /\ Readable /\ token[c] = file
          /\ current' = [current EXCEPT ![c] = file]
          /\ Goto(c, "listing")
       \/ /\ ~Readable \/ token[c] # file
          /\ UNCHANGED current
          /\ Finish(c, "refused")
    /\ UNCHANGED <<fileVars, holder, snapVars, crashes, op, token, mine, victim,
                   hostVars>>

\* The history must not be empty and the document must open for writing.
CheckRevert(c) ==
    /\ pc[c] = "listing"
    /\ IF snaps # {} /\ Writable THEN Goto(c, "restoring") ELSE Finish(c, "refused")
    /\ UNCHANGED <<fileVars, holder, snapVars, crashes, callVars, hostVars>>

\* A restore that is not applied leaves the document and the snapshots alone.
RestoreFailed(c) == Finish(c, IF op[c] = "edit" THEN "kept" ELSE "revertFailed")

\* listSnapshots, the copy of the newest one beside the document, and the
\* rename over it.  Copy and rename can fail for reasons of their own.
Restore(c) ==
    /\ pc[c] = "restoring"
    /\ \/ /\ snaps # {} /\ Replaceable
          /\ LET newest == Newest(snaps)
             IN  /\ IF op[c] = "edit" /\ savedAs[c] = None
                      THEN Overwrite(newest.bytes)
                      ELSE Write(newest.bytes)
                 /\ victim' = [victim EXCEPT ![c] = newest.name]
          /\ Goto(c, "removing")
       \/ /\ UNCHANGED <<file, since, victim>>
          /\ RestoreFailed(c)
    /\ UNCHANGED <<fresh, holder, snapVars, crashes, op, token, current, mine,
                   hostVars>>

\* The snapshot is deleted once the rename has returned.
RemoveRestored(c) ==
    /\ pc[c] = "removing"
    /\ snaps' \in Without(snaps, victim[c])
    /\ spent' = spent \cup {victim[c]}
    /\ IF op[c] = "edit" THEN Finish(c, "rolledBack") ELSE Goto(c, "readback")
    /\ UNCHANGED <<fileVars, holder, nameVars, crashes, callVars, hostVars>>

\* The read that ends a successful edit or revert; it may fail, and only the
\* edit says in so many words that the change is in the file.
ReadBack(c) ==
    /\ pc[c] = "readback"
    /\ \/ Readable /\ Finish(c, IF op[c] = "edit" THEN "applied" ELSE "reverted")
       \/ Finish(c, IF op[c] = "edit" THEN "unreadable" ELSE "failed")
    /\ UNCHANGED <<fileVars, holder, snapVars, crashes, callVars, hostVars>>

-----------------------------------------------------------------------------
(* Cmd-Edit in the PowerShell host.  Nobody need be waiting for its answer *)
(* any more; once the host is killed only the command Word is executing,   *)
(* an open or a save, can still complete.                                  *)

HostMoves(c, from, to) ==
    /\ hop[c] = from
    /\ hop' = [hop EXCEPT ![c] = to]
    /\ UNCHANGED <<holder, snapVars, crashes, queue, pc, outcome, callVars, killed>>

\* Test-FileWritable, then Open-OriginalForEdit; either can refuse.
HostOpen(c) ==
    /\ \/ Writable /\ HostMoves(c, "sent", "open")
       \/ c \notin killed /\ HostMoves(c, "sent", "refused")
    /\ UNCHANGED <<fileVars, savedAs>>

\* The paragraph is missing or differs, or the deletion had no effect: the
\* document is closed without saving.  A COM throw does the same, with an error.
HostGivesUp(c) ==
    /\ c \notin killed
    /\ \E answer \in {"refused", "error"} : HostMoves(c, "open", answer)
    /\ UNCHANGED <<fileVars, savedAs>>

\* Invoke-EditOperation, and Save() begins.
HostStartsSave(c) ==
    /\ c \notin killed
    /\ HostMoves(c, "open", "saving")
    /\ UNCHANGED <<fileVars, savedAs>>

\* A save for a call that is over, or whose snapshot was already put back, is
\* news to the extension like a write of anybody else.
Awaited(c) == ~Over(c) /\ pc[c] # "removing"

\* Save() ends: new bytes are in the file, half-written ones when it throws; or
\* Word reports success and has written nothing.
HostSave(c) ==
    /\ \/ /\ fresh <= MaxVersions
          /\ \E after \in {"saved", "error"} : HostMoves(c, "saving", after)
          /\ IF Awaited(c) THEN Write(fresh) ELSE Overwrite(fresh)
          /\ fresh' = fresh + 1
          /\ savedAs' = [savedAs EXCEPT ![c] = fresh]
       \/ HostMoves(c, "saving", "saved") /\ UNCHANGED <<fileVars, savedAs>>

\* Close() releases the original; the answer is on its way.
HostClose(c) ==
    /\ c \notin killed
    /\ HostMoves(c, "saved", "edited")
    /\ UNCHANGED <<fileVars, savedAs>>

-----------------------------------------------------------------------------
(* The world outside: other programs on the same file, and a crash of the  *)
(* extension process, after which a new one serves the calls still idle.   *)

\* Every save gives the document bytes it never had, so that two contents are the same
\* only if nobody saved in between; a program that saves old bytes again is left out.
UserSaves ==
    /\ ~HeldByHost /\ fresh <= MaxVersions
    /\ Overwrite(fresh)
    /\ fresh' = fresh + 1
    /\ UNCHANGED <<holder, snapVars, crashes, queue, pc, outcome, callVars, hostVars>>

UserRemoves ==
    /\ Replaceable /\ file # None
    /\ Overwrite(None)
    /\ UNCHANGED <<fresh, holder, snapVars, crashes, queue, pc, outcome, callVars,
                   hostVars>>

UserHolds ==
    /\ \/ holder = "nobody" /\ file # None /\ ~HeldByHost
            /\ holder' \in Holders
       \/ holder # "nobody" /\ holder' = "nobody"
    /\ UNCHANGED <<fileVars, snapVars, crashes, queue, pc, outcome, callVars,
                   hostVars>>

Crash ==
    /\ crashes < MaxCrashes
    /\ \E c \in Calls : Running(c)
    /\ crashes' = crashes + 1
    /\ pc' = [c \in Calls |-> IF pc[c] \in {"idle", "done"} THEN pc[c]
                                                            ELSE "aborted"]
    /\ queue' = <<>>
    /\ UNCHANGED <<fileVars, holder, snapVars, outcome, callVars, hostVars>>

-----------------------------------------------------------------------------
CallStep(c) ==
    \/ BeginEdit(c) \/ ReadBefore(c) \/ TakeSnapshot(c) \/ ApplyRetention(c)
    \/ SendEdit(c) \/ HostAnswers(c) \/ HostTimesOut(c) \/ Verify(c) \/ Recover(c)
    \/ BeginRevert(c) \/ CheckRevert(c) \/ Restore(c) \/ RemoveRestored(c)
    \/ ReadBack(c)

HostStep(c) ==
    \/ HostOpen(c) \/ HostGivesUp(c) \/ HostStartsSave(c) \/ HostSave(c)
    \/ HostClose(c) \/ HostDies(c)

UserStep == UserSaves \/ UserRemoves \/ UserHolds

Next ==
    \/ \E c \in Calls : Call(c) \/ CallStep(c) \/ HostStep(c)
    \/ UserStep
    \/ Crash

Spec == Init /\ [][Next]_vars

\* Every await of a call settles: a host request by its answer, its timer or
\* the child's exit, a file operation by the operating system.
FairSpec == Spec /\ \A c \in Calls : WF_vars(CallStep(c))
-----------------------------------------------------------------------------
(* Correctness.                                                            *)

\* The lock (#withLock) serializes everything that writes the document: no two
\* calls are ever between their token check and their end at the same time.
OneAtATime ==
    \A c, d \in Calls : Running(c) /\ Running(d) => c = d

\* #recoverFromUnknownOutcome rolls a failed edit back by restoring the newest
\* snapshot.  That is right only if the newest is the one this very edit took, which
\* the lock and the retention guarantee beside crashes, and removals that fail: unless
\* a clock that was set back had it named before a snapshot on disk, and then the
\* code restores that one.
RollbackIsOwn ==
    \A c \in Calls \ misnamed :
        pc[c] = "restoring" /\ op[c] = "edit"
            => /\ snaps # {}
               /\ Newest(snaps).name = mine[c]
               /\ Newest(snaps).by = c

\* An edit that reached the file can be undone: its snapshot is on disk, was
\* restored, or fell to retention, but was never discarded as a duplicate.  The
\* one exception is a killed host whose save landed after the editor had found
\* the document unchanged.
UndoNeverDiscarded ==
    \A c \in Calls :
        savedAs[c] # None =>
            \/ mine[c] \in Names(snaps) \cup spent
            \/ c \in killed /\ outcome[c] = "unchanged"

\* What a call tells its caller about the document is so, whatever failed on
\* the way: refused and not persisted mean no byte of it was saved, a snapshot
\* said to be kept was not discarded, and one said to be restored was.
ReportsAreTrue ==
    \A c \in Calls :
        /\ outcome[c] \in {"refused", "notPersisted"} => savedAs[c] = None
        /\ outcome[c] = "unchanged" /\ c \notin killed => savedAs[c] = None
        /\ outcome[c] \in {"applied", "unreadable", "kept"} =>
               mine[c] \in Names(snaps) \cup spent
        /\ outcome[c] \in {"rolledBack", "reverted"} =>
               /\ victim[c] \in spent
               /\ ~RemovalFails => victim[c] \notin Names(snaps)

\* The promise queue passes failures on to nobody: whatever happens to the call
\* at its head, every call in line settles (or dies with the process).
EveryCallSettles == \A c \in Calls : pc[c] = "queued" ~> Over(c)

\* Stated by #recoverFromUnknownOutcome: the document it reports as byte for
\* byte unchanged was not written by the edit.
UnchangedMeansUnwritten ==
    \A c \in Calls : outcome[c] = "unchanged" => savedAs[c] = None

\* Stated by revert_document: each restored snapshot is consumed, so that repeated
\* calls step further back and none restores what an earlier one restored.
RevertsMoveBack ==
    [][\A c \in Calls : Restore(c) /\ op[c] = "revert" /\ victim' # victim
            => victim'[c] \notin spent]_vars

\* Stated by #edit: once the edit is in the file, a failure is not reported as
\* though the edit had not happened.
NoFailureHidesAnEdit ==
    \A c \in Calls : outcome[c] = "failed" /\ op[c] = "edit" => savedAs[c] = None
=============================================================================
