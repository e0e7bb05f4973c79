-------------------------------- MODULE Viewer --------------------------------
(***************************************************************************)
(* One panel (ViewerInstance in src/server.mjs): the document it shows,    *)
(* the record of the last change drawn over it, the refreshes that tools,  *)
(* its buttons and its watcher ask for, and its end.  The render cache is  *)
(* what a panel sees of it: a refresh that answers whether the key moved,  *)
(* which all panels move, and a PDF that is there or not.                  *)
(*                                                                         *)
(* Node runs every continuation of a settled promise before it handles the *)
(* next event.  Quiet says that none is left to run.                       *)
(***************************************************************************)
EXTENDS FileWatcher

CONSTANTS
    Callers,     \* those who open the panel's document, refresh it or edit
    AutoRefresh, \* the refresh the watcher asks for
    MaxRetries   \* the length of AUTO_REFRESH_DELAYS_MS

ASSUME ViewerAssumption ==
    /\ AutoRefresh \notin Callers /\ None \notin Callers \cup {AutoRefresh}
    /\ None \notin {"edit", "revert", "forced", "plain"}
    /\ MaxRetries \in Nat

VARIABLES
    doc,         \* the path and key the panel shows, a fingerprint, or None
    status,
    change,      \* the change record: the fingerprint its edit left, and the
                 \* render key it is stamped with
    epoch,       \* #changeEpoch
    refreshing,  \* whose promise #refreshing is
    closed,      \* #closed
    attempt,     \* the retries of the watcher's refresh so far
    at,          \* where each caller stands
    call         \* what each caller knows

panelVars == <<doc, status, change, epoch>>
flowVars == <<refreshing, attempt, at, call>>
vars == <<diskVars, watcherVars, panelVars, closed, flowVars>>

All == Callers \cup {AutoRefresh}
Kinds == {"edit", "revert", "forced", "plain"}
Ends == {"changed", "same", "failed", "hopeless", "closed"}

\* kind: what was asked; path: the document it is about; edit: what the file was
\* when the tool had written it; before: the key the cache had; key: the one it
\* has now; epoch: the change epoch when the render began; joins: whose refresh
\* is awaited; answer: how that, or its own, ended.  Once the watcher was asked to
\* acknowledge or to watch, key is what its file was then.
NewCall == [kind |-> None, path |-> None, edit |-> None, before |-> None,
            key |-> None, epoch |-> 0, joins |-> None, answer |-> None]

Steps == {"idle", "edited", "called", "joining", "joined", "opening", "rendering",
          "acknowledging", "returned", "sleeping", "open", "render",
          "watch", "seen", "over"}

\* Types; a render under way belongs to somebody who waits for it.
TypeOK ==
    LET Prints == Fingerprints \cup {None}
    IN  /\ WatcherTypeOK
        /\ doc \in Prints /\ status \in {"idle", "opening", "ready", "error"}
        /\ change = None \/ change \in [edit : Fingerprints, docKey : Prints]
        /\ epoch \in Nat
        /\ refreshing \in All \cup {None} /\ closed \in BOOLEAN
        /\ attempt \in 0..MaxRetries
        /\ at \in [All -> Steps]
        /\ call \in [All -> [kind : Kinds \cup {None}, path : Paths \cup {None},
                             edit : Prints, before : Versions \cup {None},
                             key : Prints, epoch : Nat,
                             joins : All \cup {None}, answer : Ends \cup {None}]]
        /\ refreshing # None => at[refreshing] \in {"opening", "rendering", "acknowledging"}

\* A new panel, or one that has opened a document before any of the calls.
Init ==
    /\ \E shown \in Paths \cup {None} :
          /\ WatcherInit(shown)
          /\ doc = lastSeen
          /\ status = IF shown = None THEN "idle" ELSE "ready"
    /\ change = None /\ epoch = 0
    /\ refreshing = None /\ closed = FALSE /\ attempt = 0
    /\ at = [c \in All |-> "idle"]
    /\ call = [c \in All |-> NewCall]
-----------------------------------------------------------------------------
\* A continuation that runs before the next event.
Runnable(c) == at[c] \in {"called", "joined", "returned"}

Quiet == \A c \in All : ~Runnable(c)

Goto(c, step) == at' = [at EXCEPT ![c] = step]

HasRecord(c) == call[c].kind \in {"edit", "revert"}
Forced(c) == call[c].kind \in {"edit", "revert", "forced"}

\* #changeIfCurrent: the record, while the panel shows the render it describes.
ChangeIfCurrent ==
    IF change # None /\ doc # None /\ change.docKey = doc THEN change ELSE None

\* The body of refresh() begins.  cache.refresh notes the key it had: the file's,
\* if this panel or another one has opened it since it changed, or another.
Begin(c, now) ==
    /\ refreshing' = c
    /\ \E before \in {None} \cup (IF Forced(c) THEN {} ELSE {file[doc[1]]}) :
          call' = [call EXCEPT ![c] = [NewCall EXCEPT !.kind = call[c].kind,
                      !.path = doc[1], !.before = before,
                      !.epoch = IF HasRecord(c) THEN now ELSE 0]]
    /\ Goto(c, "opening")

\* refresh() of c is over with answer, for itself and for those who joined it.
Joiners(c) == {d \in All : at[d] = "joining" /\ call[d].joins = c}

Ended(c) == IF c = AutoRefresh THEN "returned" ELSE "over"

\* A caller that is over has nothing left to know.
Told(c, answer) ==
    [d \in All |-> IF d = c /\ c # AutoRefresh THEN NewCall
                   ELSE IF d \in Joiners(c) \cup {c}
                   THEN [NewCall EXCEPT !.kind = call[d].kind, !.answer = answer]
                   ELSE call[d]]

Settle(c, answer) ==
    /\ at' = [d \in All |-> IF d = c THEN Ended(c)
                            ELSE IF d \in Joiners(c) THEN "joined" ELSE at[d]]
    /\ call' = Told(c, answer)
    /\ refreshing' = IF refreshing = c THEN None ELSE refreshing

\* refresh() is called: refused, or its record is taken, and it joins the render
\* under way or begins its own.
Enter(c) ==
    LET now == IF HasRecord(c) THEN epoch + 1 ELSE epoch
    IN  \/ /\ closed \/ doc = None
           /\ Settle(c, IF closed THEN "closed" ELSE "hopeless")
           /\ UNCHANGED <<change, epoch>>
        \/ /\ ~closed /\ doc # None
           /\ epoch' = now
           /\ change' = CASE call[c].kind = "edit" ->
                                 [edit |-> call[c].edit, docKey |-> None]
                          [] call[c].kind = "revert" -> None
                          [] OTHER -> change
           /\ IF refreshing = None
              THEN Begin(c, now)
              ELSE /\ call' = [call EXCEPT ![c].joins = refreshing, ![c].edit = None]
                   /\ Goto(c, "joining")
                   /\ UNCHANGED refreshing

\* The render joined is over.  A failure is the joiner's too; only a caller that
\* brings no record settles for a render it joined.
Joined(c) ==
    LET answer == call[c].answer
    IN  /\ at[c] = "joined"
        /\ IF \/ answer \in {"failed", "hopeless", "closed"}
              \/ (answer = "changed" /\ ~HasRecord(c))
              \/ ~Forced(c)
           THEN /\ Goto(c, Ended(c))
                /\ call' = IF c = AutoRefresh THEN call
                            ELSE [call EXCEPT ![c] = NewCall]
                /\ UNCHANGED refreshing
           ELSE Begin(c, epoch)
        /\ UNCHANGED <<diskVars, watcherVars, panelVars, closed, attempt>>

Fails(c) == \E answer \in {"failed", "hopeless"} : Settle(c, answer)

\* cache.refresh answers: an unforced refresh of a key that stayed is over.
Opened(c) ==
    LET p == call[c].path
        same == call[c].before = file[p] /\ ~Forced(c)
    IN  /\ at[c] = "opening"
        /\ \/ Fails(c)
           \/ /\ closed \/ same
              /\ Settle(c, IF closed THEN "closed" ELSE "same")
           \/ /\ ~closed /\ ~same
              /\ call' = [call EXCEPT ![c].key = Fingerprint(p)]
              /\ Goto(c, "rendering")
              /\ UNCHANGED refreshing
        /\ UNCHANGED <<diskVars, watcherVars, panelVars, closed, attempt>>

\* As Rendered, stamping whatever record the panel holds by now.
RenderedStampsAny(c) ==
    /\ at[c] = "rendering"
    /\ doc' = call[c].key
    /\ status' = "ready"
    /\ change' = IF HasRecord(c) /\ change # None
                 THEN [change EXCEPT !.docKey = call[c].key] ELSE change
    /\ Goto(c, "acknowledging")
    /\ call' = [call EXCEPT ![c].path = None, ![c].key = Current]
    /\ UNCHANGED <<diskVars, watcherVars, epoch, closed, refreshing, attempt>>

\* cache.pdf answers, having looked at the file once more: the panel shows the
\* render, and the record is stamped if it is the one the render began with.
Rendered(c) ==
    /\ at[c] = "rendering"
    /\ \/ /\ Fails(c)
          /\ UNCHANGED panelVars
       \/ /\ doc' = call[c].key
          /\ status' = "ready"
          /\ change' = IF HasRecord(c) /\ call[c].epoch = epoch /\ change # None
                       THEN [change EXCEPT !.docKey = call[c].key]
                       ELSE change
          /\ Goto(c, "acknowledging")
          /\ call' = [call EXCEPT ![c].path = None, ![c].key = Current]
          /\ UNCHANGED <<epoch, refreshing>>
    /\ UNCHANGED <<diskVars, watcherVars, closed, attempt>>

\* The watcher records what acknowledge() found.
Acknowledged(c) ==
    /\ at[c] = "acknowledging"
    /\ Acknowledge(call[c].key)
    /\ Settle(c, "changed")
    /\ UNCHANGED <<file, news, filePath, watching, timer, again, pass,
                   panelVars, closed, attempt>>
-----------------------------------------------------------------------------
(* The callers: a tool that edits or reverts and refreshes the panels that *)
(* show the document, a button of the panel, and openDocument().           *)

\* The tool changes the file; the cache forgets the key.
ToolWrites(c, p) ==
    /\ at[c] = "idle"
    /\ Write(p)
    /\ \E kind \in {"edit", "revert"} :
           call' = [call EXCEPT ![c] = [NewCall EXCEPT !.kind = kind,
                                                       !.edit = <<p, file[p] + 1>>]]
    /\ Goto(c, "edited")
    /\ UNCHANGED <<watcherVars, panelVars, closed, refreshing, attempt>>

\* refreshCanvasesFor: only a panel that shows the document is refreshed.
ToolRefreshes(c) ==
    /\ at[c] = "edited"
    /\ IF doc # None /\ doc[1] = call[c].edit[1]
       THEN Enter(c)
       ELSE /\ Goto(c, "over")
            /\ call' = [call EXCEPT ![c] = NewCall]
            /\ UNCHANGED <<change, epoch, refreshing>>
    /\ UNCHANGED <<diskVars, watcherVars, doc, status, closed, attempt>>

\* POST /api/refresh and the canvas's refresh action.
Button(c) ==
    /\ at[c] = "idle" /\ ~closed
    /\ \E kind \in {"forced", "plain"} :
           call' = [call EXCEPT ![c] = [NewCall EXCEPT !.kind = kind]]
    /\ Goto(c, "called")
    /\ UNCHANGED <<diskVars, watcherVars, panelVars, closed, refreshing, attempt>>

Called(c) ==
    /\ at[c] = "called"
    /\ Enter(c)
    /\ UNCHANGED <<diskVars, watcherVars, doc, status, closed, attempt>>

OpenDocument(c, p) ==
    /\ at[c] = "idle"
    /\ status' = "opening"
    /\ call' = [call EXCEPT ![c] = [NewCall EXCEPT !.path = p]]
    /\ Goto(c, "open")
    /\ UNCHANGED <<diskVars, watcherVars, doc, change, epoch, closed,
                   refreshing, attempt>>

\* cache.open or cache.pdf fails.
OpenFails(c) ==
    /\ at[c] \in {"open", "render"}
    /\ status' = "error"
    /\ Goto(c, "over")
    /\ call' = [call EXCEPT ![c] = NewCall]
    /\ UNCHANGED <<diskVars, watcherVars, doc, change, epoch, closed,
                   refreshing, attempt>>

DocumentOpens(c) ==
    /\ at[c] = "open"
    /\ call' = [call EXCEPT ![c].key = Fingerprint(call[c].path)]
    /\ Goto(c, "render")
    /\ UNCHANGED <<diskVars, watcherVars, panelVars, closed, refreshing, attempt>>

\* The panel shows the document, without a record, and is pointed at its file
\* unless it is watched already.
DocumentShows(c) ==
    LET p == call[c].path
        watched == filePath = p /\ watching
    IN  /\ at[c] = "render"
        /\ doc' = call[c].key
        /\ change' = None
        /\ status' = "ready"
        /\ Goto(c, IF watched THEN "seen" ELSE "watch")
        /\ call' = [call EXCEPT ![c].path = None, ![c].key = Fingerprint(p)]
        /\ IF watched THEN UNCHANGED <<news, watcherVars>> ELSE PointAt(p)
        /\ UNCHANGED <<file, events, epoch, closed, refreshing, attempt>>

DocumentWatched(c) ==
    /\ at[c] = "watch"
    /\ BeginWatching(call[c].key)
    /\ Goto(c, "seen")
    /\ call' = [call EXCEPT ![c].path = None, ![c].key = Current]
    /\ UNCHANGED <<file, news, panelVars, closed, refreshing, attempt>>

DocumentSeen(c) ==
    /\ at[c] = "seen"
    /\ Acknowledge(call[c].key)
    /\ Goto(c, "over")
    /\ call' = [call EXCEPT ![c] = NewCall]
    /\ UNCHANGED <<file, news, filePath, watching, timer, again, pass,
                   panelVars, closed, refreshing, attempt>>
-----------------------------------------------------------------------------
(* #autoRefresh, the consumer of the watcher's deliveries.                 *)

\* A panel in error must render to leave it.
DeliverChange ==
    /\ Deliver
    /\ Goto(AutoRefresh, "called")
    /\ attempt' = 0
    /\ call' = [call EXCEPT ![AutoRefresh] =
                   [NewCall EXCEPT !.kind = IF status = "error" THEN "forced" ELSE "plain"]]
    /\ UNCHANGED <<panelVars, closed, refreshing>>

\* The attempt is over: the change is consumed, given up, or tried again.
AutoReturns ==
    LET answer == call[AutoRefresh].answer
        gone == answer = "closed"
        lost == \/ answer = "hopeless"
                \/ (answer = "failed" /\ attempt = MaxRetries)
    IN  /\ at[AutoRefresh] = "returned"
        /\ \/ /\ answer \in {"changed", "same"}
              /\ Consumed
              /\ Goto(AutoRefresh, "idle")
              /\ call' = [call EXCEPT ![AutoRefresh] = NewCall]
              /\ attempt' = 0
              /\ UNCHANGED status
           \/ /\ gone \/ lost
              /\ Refused
              /\ status' = IF lost THEN "error" ELSE status
              /\ Goto(AutoRefresh, "idle")
              /\ call' = [call EXCEPT ![AutoRefresh] = NewCall]
              /\ attempt' = 0
           \/ /\ ~gone /\ ~lost /\ answer = "failed"
              /\ attempt' = attempt + 1
              /\ Goto(AutoRefresh, "sleeping")
              /\ call' = [call EXCEPT ![AutoRefresh].answer = None]
              /\ UNCHANGED <<watcherVars, status>>
        /\ UNCHANGED <<diskVars, doc, change, epoch, closed, refreshing>>

\* #backoff is over.
WakeUp ==
    /\ at[AutoRefresh] = "sleeping"
    /\ Goto(AutoRefresh, "called")
    /\ UNCHANGED <<diskVars, watcherVars, panelVars, closed, refreshing,
                   attempt, call>>
-----------------------------------------------------------------------------
\* close(): a sleeping retry is woken, the watcher is closed.
Close ==
    /\ ~closed
    /\ closed' = TRUE
    /\ at' = IF at[AutoRefresh] = "sleeping"
              THEN [at EXCEPT ![AutoRefresh] = "called"] ELSE at
    /\ CloseWatcher
    /\ UNCHANGED <<file, events, filePath, lastSeen, written, again, pass, handled, late,
                   panelVars, refreshing, attempt, call>>

\* Another program saves the document.
Save(p) ==
    /\ Write(p)
    /\ UNCHANGED <<watcherVars, panelVars, closed, flowVars>>

Watching ==
    /\ Fire \/ Poll \/ Drop \/ DirectoryEvent
    /\ UNCHANGED <<panelVars, closed, flowVars>>

Asked(c) == Button(c) \/ \E p \in Paths : ToolWrites(c, p) \/ OpenDocument(c, p)

Continue(c) == Called(c) \/ Joined(c)

Answered(c) == \/ ToolRefreshes(c) \/ Opened(c) \/ Rendered(c) \/ Acknowledged(c)
               \/ OpenFails(c) \/ DocumentOpens(c) \/ DocumentShows(c)
               \/ DocumentWatched(c) \/ DocumentSeen(c)

Continues == AutoReturns \/ \E c \in All : Continue(c)

Event == \/ Watching \/ DeliverChange \/ WakeUp \/ Close
         \/ \E p \in Paths : Save(p)
         \/ \E c \in All : Answered(c)
         \/ \E c \in Callers : Asked(c)

Next == Continues \/ (Quiet /\ Event)

Spec == Init /\ [][Next]_vars
-----------------------------------------------------------------------------
\* A record served with a render of the document it is about describes an edit
\* that render contains.  It may be served with a render of another document: a
\* refresh that outlives openDocument() brings back the document it began with.
OverlayOnItsEdit ==
    ChangeIfCurrent # None /\ doc[1] = change.edit[1] => doc[2] >= change.edit[2]
=============================================================================
