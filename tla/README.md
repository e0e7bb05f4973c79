# Verification of office-canvas

This directory holds TLA+ models of the `office-canvas` Copilot extension
(`.github/extensions/office-canvas`), the TLC runs that check them on small
instances, and theorems about them that TLAPS checks for every value of the
constants. Paths below are relative to the extension; line numbers are in
`PROJECT.json`, which maps every modelling definition to the code it stands for.

    tlc -workers 2 -config DocumentEditor_safety.cfg MCDocumentEditor.tla
    tlapm DocumentEditorProofs.tla

## 1. Inventory

The extension gives an agent four tools (`read_document`, `create_document`,
`edit_document`, `revert_document`) and a canvas that shows a Word document. A
hidden Word does the work. It is driven by a PowerShell host, which the Node
process talks to in lines of JSON over standard input and output.

| component | state it keeps | operations | calls |
|---|---|---|---|
| entry points (`extension.mjs`) | `instances` (canvas id to panel), `shuttingDown` | `open`, `onClose`, canvas actions, tools, `shutdown`, `reapOnExit` | panel, cache slot, idle shutdown |
| idle shutdown (`src/word-lifecycle.mjs`) | `inFlight`, `timer` | `run`, `schedule`, `cancel`, the timer | cache slot |
| cache slot (`src/render-cache-slot.mjs`) | `current`, `retiring` | `get`, `peek`, `dispose` | render cache |
| panel (`src/server.mjs`) | `doc`, `status`, `change`, epoch, `#refreshing`, `#closed`, clients | `openDocument`, `refresh`, `#autoRefresh`, HTTP and event routes, `close` | cache slot, watcher |
| watcher (`src/watcher.mjs`) | `lastSeen`, generation, timer, `#settling` | `watch`, `#settle`, `#deliver`, `acknowledge`, `close` | panel (callback) |
| render cache (`src/render-cache.mjs`) | per document: `key`, `meta`, `pdfFile`, `pending`, `documentPending`, `closing` | `open`, `pdf`, `refresh`, `editDocument`, `revertDocument`, reads, `close`, `dispose` | host bridge, editor, reader, author |
| document editor (`src/word/document-editor.mjs`, `snapshots.mjs`) | `#locks`; on disk the document and its snapshots | `edit`, `revert`, recovery | host bridge, reader |
| host bridge (`src/word/word-host.mjs`) | `#child`, `#pending`, `#starting`, `#openArgs`, `ownedPid`, `#disposed` | `#ensureStarted`, `#send`, `request`, `#onExit`, `#kill`, `dispose` | child process |
| host (`src/word/word-host.ps1`) | `App`, `Docs`, `DocArgs`, `OwnedPid`, the pid ledger on disk | one `Cmd-*` at a time, `Stop-Word`, `Clear-OrphanedWord` | Word over COM |
| reader, author (`document-reader.mjs`, `document-author.mjs`) | none but the file they read or make | `read`, `create` | host bridge |
| structure map, outline, intents, change record, overlay | none (pure) | | |
| assets (`src/vendor-assets.mjs`, `word-icon.mjs`, `tools/vendor-pdfjs.mjs`) | `workerPromises`, the icon's `pending`; on disk the vendored files | `loadWorker`, `get`, vendoring | panel |
| browser viewer (`src/ui`) | connection status, rendered pages, overlay | event handlers | panel over HTTP |

Which behaviours are hard:

- Everything asynchronous in Node interleaves at every `await`: parallel tool
  calls, a canvas closing during its own open, the idle timer under a call.
- The host is another process. A request that timed out has been given up by
  the editor while Word may still be executing it. A child's exit is an event.
- The document belongs to the user, who has other programs on it at any time.
- The process can end between any two steps; snapshots on disk outlive it.

What makes each component correct:

- editor: one edit, one undo step; a failed edit leaves the document as it was
  or its snapshot on disk; what it reports is so; queued calls settle;
- lifecycle: Word never goes under somebody who uses it, and always goes when
  nobody does; shutdown waits for it;
- host bridge: every request settles once; an event of an old child never
  touches a new one; at most one Word is owned;
- render cache: a PDF filed under a key shows the bytes of that key; operations
  on a document are serialized; close is final;
- watcher and panel: the last change is shown; an overlay is drawn only over a
  render that contains its edit; a closed panel does nothing;
- browser: a load that was overtaken leaves nothing behind; a canvas is painted by
  one paint; what is on screen when all is quiet is of one scale and one record; a
  page that reconnects comes to the render there is;
- reader, author and host: a map is of the document its token is the token of, an
  edit changes the paragraph that was read, a new document is what was asked for,
  and a report about the file is so;
- Word processes: a Word that a live host or somebody else started is not ended, and
  a Word of a dead host is found again;
- assets: a worker is whole or refused; a failure is not for ever;
- pure algorithms: byte ranges, addresses and overlay positions agree with their
  definitions.

`PROJECT.json` lists the hazards of this code one by one, with the line where
each bites and the properties that watch it.

## 2. Modules

| module | content |
|---|---|
| `DocumentEditor` | `edit_document` and `revert_document` over one document, the host's `Cmd-Edit`, other programs, crashes |
| `EditHistory` | the abstract specification: an undo history that only moves backwards |
| `DocumentEditorHistory` | the refinement mapping from the editor to `EditHistory` |
| `WordLifecycle` | who keeps the hidden Word alive and who lets it go |
| `WordHost` | the Node side of the bridge: its child processes, the pending requests, timeouts, exits, `dispose` |
| `RenderCache` | one document in the cache: its operation queue, keys, PDFs |
| `FileWatcher` | directory events, the settle pass, the delivery |
| `Viewer` | one panel over `FileWatcher`: what it shows, its overlay record, its refreshes, its end |
| `PdfView` | the rendering surface in the browser and its zoom cluster |
| `ViewerApp` | the page, its connection monitor and the events of its server |
| `WordProcess` | which Word processes a host may hide, quit or kill; the pid ledger; crashes of hosts |
| `PanelServer` | what a panel serves from files: worker, vendored files, icon, PDF with ranges |
| `Texts`, `Addresses`, `Ooxml`, `StructureMap`, `Intents`, `ChangeOverlay` | pure algorithms: text normalization, addresses, the parser, paragraphs and outline, requests, the place of an overlay |
| `WordDocument` | a Word document, what a map of it must say, and what the host's commands do to it |
| `DocumentTools` | read, edit and create on one path over those, but for the parser, beside another program |
| `DocumentReading` | the markup of a document, and the maps and the outline the parser builds of it |
| `DocumentEditorProofs`, `WordLifecycleProofs`, `WordHostProofs`, `WordProcessProofs`, `PanelServerProofs`, `RenderCacheProofs`, `ViewerProofs`, `BrowserProofs` | theorems, those of `BrowserProofs` about `PdfView` and `ViewerApp`, those of `WordHostProofs` about `WordHost` and `DocumentTools` |
| `MCDocumentEditor`, `MCViewer`, `MCWordProcess` | symmetry for the runs |
| `MCPdfView`, `MCDocumentTools`, `MCPanelServer` | the values of the runs' constants |

The three layers meet where one takes the other's promise for a step. `Viewer`
takes a refresh of the cache to end with a new key, the same key or a failure,
which is what `RenderCache` shows of `open` and `pdf`; `RenderCache` takes a
command of the host to be answered or to fail, which is what `WordHost` shows;
`ViewerApp` takes a load to end shown or failed and an overtaken one to show
nothing, which is what `PdfView` shows; `DocumentTools` leaves what an edit does
when the host fails to `DocumentEditor`.

### DocumentEditor

The document is the version of its bytes. A revision token is the SHA-256 of
the file, so in the model it is the version itself. One document is enough
because the lock, the snapshot directory and the file are per document. The lock
is a promise chain kept by the editor of one render cache; that a tool call keeps
the same cache to its end is `WordOutlivesItsUse` below, so two calls of one
process do share it.

A call is an `async` function. Each action is the code between two awaits:

| action | code |
|---|---|
| `Call`, `MyTurn`, `Finish` | `#withLock`: append to the chain, start when the predecessor settled, settle |
| `BeginEdit` | `validateIntent`, `#requireFile`, first token check |
| `ReadBefore` | the full read, its token check, `writable`, the address |
| `TakeSnapshot`, `ApplyRetention` | the copy; then the manifest, which may fail and leave the copy behind, and the pruning |
| `SendEdit`, `HostAnswers`, `HostTimesOut`, `HostDies` | the request, and the three ways it settles |
| `Verify`, `ReadBack` | the second hash, and the read that ends a success |
| `Recover` | `#recoverFromUnknownOutcome` up to its decision |
| `BeginRevert`, `CheckRevert` | `#revert` up to the restore |
| `Restore`, `RestoreFailed`, `RemoveRestored` | `revertToLatest`, shared by revert and recovery |
| `HostOpen` .. `HostClose` | `Cmd-Edit`; nobody need be waiting for it any more |
| `UserSaves`, `UserRemoves`, `UserHolds` | another program saves, deletes, opens the file |
| `Crash` | the extension process ends; calls not yet made are served by the next one |

After a timeout the child is terminated but its Word is reaped only in the exit
event, so an open or a save Word is executing can still complete
(`killed` restricts the host to that). `RemovalFails` says whether deleting a
snapshot can fail, which the code ignores everywhere (`rm(...).catch(() => {})`).

The history is ordered by the names of the snapshots, and a name is the wall clock,
then a sequence that begins anew in each process. `NewNames` are the names a copy can
get: with `ClockGoesBack` any that is not taken, since the clock may have been set back,
or the one on disk is of another process; otherwise a later one than all there were.
`misnamed` is a history variable with the calls whose snapshot was named before one that
was on disk. A save of another program is always of new bytes (`UserSaves`): one that
writes back what the file held before cannot be told from no save, by the code or here.

`EditHistory` says what the two tools promise together: `Edit` adds a step whose
content is something the document held since the step before, `Undo` takes the
newest back, others may write the document `Outside`, a full history forgets its
oldest steps, and an interrupted call may leave a step that goes back to where
the document already was. The refinement maps the snapshot directory to the
history: a snapshot counts once its edit is in the file or never will be, until
it has been put back.

### WordLifecycle

A request is one call of the extension: the open of a canvas, a refresh, an
action that reads, a tool call, a close. It takes a cache from the slot
(`AskForCache`), has its host start Word on demand (`ReachWord`) and ends. The
slot, the in-flight count, the timer, the disposals under way and `shutdown()`
are as in the code. An open awaits the path (`resolveInputPath`) before it asks
the slot; during that await its canvas can be closed. `strays` records the
caches asked for by such a panel, so that the properties can say exactly which
Word the code does look after. The HTTP routes of a panel that reach Word (`/pdf`,
`/api/open`, `/api/refresh`, `/api/outline`, `/api/search`) take the cache the way
the opens, refreshes and actions of the model do and are not separate requests.

### WordHost

A call of the bridge (`openDocument`, a replayed read through `request`, a write
that is not replayed, `closeDocument`) sends one frame or several: an open may ask
for the Word it owns (`learn`), a read that was lost replays the open (`reopen`),
asks again (`reping`) and repeats itself (`again`). `stage` says which frame a
call is about, `at` how that frame stands. The ping of a start and `dispose()` are
actors of their own: the start is shared by all who need it.

| action | code |
|---|---|
| `Begin`, `Opened`, `Recover`, `Return` | the methods of `WordHost` between their awaits |
| `Send`, `Spawn`, `Write`, `Resume`, `StartEnds` | `#send` and `#ensureStarted` |
| `Answer` | the host answers a frame, and `#onStdout` settles its entry |
| `TimesOut`, `Kill` | the timer of an entry, `#kill` |
| `ExitEvent` | `#onExit`, including the reaping of the owned Word |
| `Dispose`, `QuitSettled`, `DisposeEnds` | `dispose()` |
| `ChildDies` | a child ends by itself |

Node runs all continuations of a settled promise before the next event, so
answers, timers and exit events require `Quiet`; continuations are interleaved
with one another freely. The exit of a child is two steps, the end of the process
and its report, because everything interesting happens between them. A child is
numbered, and its number is free again when its exit has been reported, which is
also when the system may give its pid to another process. The Word a child
starts bears the child's number. A hung Word, a modal dialog or a lost answer is
a child that does not answer: nothing in the model makes it.

### RenderCache

One document of the cache. A version is one content of the user's file; the cache
key is made of path, mtime and size, so a version stands for its key too. `pdfs[k]`
is the version that the PDF filed under key `k` shows.

| action | code |
|---|---|
| `Open`, `OpenAgain`, `Fingerprint`, `Drop`, `HostOpens` | `open` and `refresh`: wait for a closing document, take the fingerprint, forget the old working copy, have Word open it |
| `Enqueue`, `Leave` | `#enqueueDocumentOperation` and the end of an operation |
| `Look`, `Sharing`, `Export`, `Prune` | `pdf`: the file on disk, the export under way, an export of its own, `#pruneOldPdfs` |
| `Edit`, `EditorRuns`, `Release` | `editDocument`, `revertDocument`, `#invalidateState` |
| `Outline`, `Search`, `Read` | `outline` (two commands of the host) and `search` |
| `Close`, `CloseAgain`, `Forget` | `close` |
| `Save` | another program writes the file |

A pdf() looks the state up again after its open has answered, so it may come to a
state that was registered since and has no key: its file is `null.pdf` then, which is
why `pdfs` has a place for `None`. `forsaken` is a history variable that remembers
whether a failed open has let go of a state with operations in its queue.

A replay of the bridge (`HostReads` while `replays` grows) is a Word that died: the
next command finds it reopened on what the file holds then.

### FileWatcher and Viewer

`FileWatcher` is the watcher of one panel and is extended by its consumer.
`Schedule`, `DirectoryEvent`, `Fire`, `Poll`, `Deliver`, `Consumed`, `Refused`,
`Acknowledge`, `PointAt`, `CloseWatcher` are `#schedule`, the handler of `fs.watch`,
the debounce timer, one round of `#settle`, the two ends of `#deliver`,
`acknowledge`, `watch` and `close`. A fingerprint is a path and a version. It is read by
a `stat` that is awaited and may fail: `Answers` is what one may answer that was asked
when the file was as given, and what `acknowledge` and `watch` record is that, whatever
was delivered, written or recorded in the meantime. `late` is a history variable with
what was recorded when the file was not so any more.

`Viewer` is `ViewerInstance` over it. A caller is a tool that has edited or reverted
(`ToolWrites`, `ToolRefreshes`), a button (`Button`), or `openDocument`
(`OpenDocument`, `DocumentOpens`, `DocumentShows`, `DocumentWatched`,
`DocumentSeen`); `AutoRefresh` is the watcher's refresh with its retries (`DeliverChange`,
`AutoReturns`, `WakeUp`). `refresh` is `Enter`, `Joined`, `Opened`, `Rendered`,
`Acknowledged`, `Settle`: it joins the refresh under way or begins one, a forced one
waits for it and begins its own, and the change epoch it began with decides whether
the record is stamped. `Close` is `close`. The panel sees of the cache what all
panels share: whether the key moved.

### PdfView and ViewerApp

`PdfView` has a load per call of `load` (tear down, fetch, fit, measure; each may be
overtaken), a paint per page and epoch (`Advance` goes from await to await:
bitmap, text, text layer), the observers, the fits, the zoom buttons and the
overlay that `planChangeMarks` makes of the record and the text extracted so far.
A scale is one of a few levels, a panel what the two fits make of it.

`ViewerApp` has the page's `applyState`, `showPdf`, `loadOutline`, the handlers of
the three events, the status line and its toasts, and `monitorConnection` with its
timers. The channel is ordered while the connection is up; an outage loses what is
in it. `ServerMoves` is every place of `server.mjs` that pushes; a change of the server's
state and its push are one step, although `openDocument` and `refresh` await the watcher
between the two. During that await a page has the former state although no event is on
its way, so `ConnectedPageIsCurrent` is about the times when no push is outstanding. So
that the two modules can be extended together, what both have a name for is `App...` here
(`AppSpec`, `AppTypeOK`), and the monitor's `epoch` is `outageEpoch`.

### Documents

A document is a flat sequence of paragraphs and of the marks that begin and end
tables, rows and alternative content. `WordDocument` gives what the host's commands
do to it (`Edited` for `Invoke-EditOperation`, `AddSpecBlock` for the blocks of
`Cmd-Create`) and, without a parser, what a map of it must say (`Description`).
`Ooxml` and `StructureMap` are the code: tokens to a tree, styles with their chains,
paragraphs with their text, level, heading path, address (`Addresses`) and word index,
the outline. `DocumentReading` has the markup Word writes (`Markup`) and what the code
builds of that. `DocumentTools` takes the builder as two constants, `MapOfMarkup` and
`OutlineOfMarkup`, which the run gives the values `BuiltMap` and `Outline` of
`DocumentReading`: a tool hands the markup on and compares tokens, whatever the parser
does, and so the theorems about the tools need not reach its recursion. So that the
module can be extended together with `WordHost`, its specification is `ToolsSpec`.
`Intents` has the three validators as the set they accept and its normal form.
`ChangeOverlay` has `changedSpan`, `changeRecordFrom`, `buildPageText` and
`locateText`. A text is a sequence of characters, because the properties are about
what normalization, spans and page breaks do to it.

| action of `DocumentTools` | code |
|---|---|
| `AskRead`, `AskEdit`, `AskCreate` | the tools, up to the queue of the cache |
| `TokenBefore`, `Fetch`, `TokenAfter` | `read`: the token, the export through the host, the token again, the second attempt |
| `EditChecks`, `Resolve`, `HostEdits` | the checks of `#edit` and `Cmd-Edit` |
| `Exists`, `HostCreates`, `HostBuilds`, `HostLooks`, `HostSaves`, `HostCleansUp` | `create` and the phases of `Cmd-Create`, with its catch |
| `HostDies` | the host ends while it creates |
| `Verify` | the checks of `create` after the host has answered |
| `OtherWrites`, `OtherDeletes` | another program |

### PanelServer

A vendored file is known by the version it is of, and `Torn` is what a read finds in
one that is being written. `AskWorker`, `ReadManifest`, `ReadPart` are `loadWorker`
and `joinWorker`, with the promise they share; `StartVendoring`, `VendorStep`,
`VendoringFails` the script, from its first write on; `AskIcon`, `ExtractorEnds` the
icon; `AskPdf`, `CacheAnswers`, `Stat`, `Read` one request for the PDF, between whose
awaits the panel comes to show another render (`Shows`) and the cache prunes
(`Goes`). `stored` is what the browser keeps. `ParseByteRange` is translated with its
numbers; more digits than a number can tell from infinity are one value, `Infinity`.

### WordProcess

A Word is its pid and its start time; a pid is free again when its process has
ended. A process of the host is there as long as the host stands at any step.
`hostPid` is needed because the files of the ledger are named after it.

| action | code |
|---|---|
| `StartHost`, `SweepFinds`, `SweepStops`, `SweepRemoves`, `SweepEnds` | the start of the host and `Clear-OrphanedWord`: for each file the look at its writer, the reading with the kill, and the removal |
| `InitializeWord`, `CreateWord`, `Attribute`, `LearnStart`, `Register` | `Initialize-Word` from `Test-AppAlive` to the hiding; between any two a Word may start, end or crash, and so may the host |
| `QuitWord`, `KillOwnedWord`, `Unregister` | `Stop-Word`: the quit, the kill ten seconds later, the ledger |
| `HostDies` | a crash, or `#kill` of the bridge |
| `UserStartsWord`, `WordEnds` | the user and his programs; a Word also ends by `reapWordProcess` of the bridge, which looks only for a Word at a pid (what pid it remembers is in `WordHost`) |

`Stop-VerifiedWord` is one step, since its checks are made on a handle that keeps the
pid from being used again. What `New-Object` does is not in the code: it starts a
Word, or hands out any that runs, be it that it started after the census (`slipped`).
`Test-AppAlive` says no also when a Word that runs has refused the call, so
`InitializeWord` may give up a live Word at any time. Reading, writing and removing a
file of the ledger may fail, each for itself.

## 3. Runs

| run | shows | result |
|---|---|---|
| `editor_safety` | `RollbackIsOwn`, `UndoNeverDiscarded`, `ReportsAreTrue` | holds |
| `editor_crash` | `ImplementsHistory`, `EveryCallSettles` across a crash | holds |
| `editor_late_save` | a timed-out save lands after "nothing was written" | violated |
| `lifecycle` | `WordOutlivesItsUse`, `WordHasAnOwner`, `ShutdownWaitsForWord`, `IdleWordGoesAway` | holds |
| `host` | `PidIsNotRecycled`, `OneChildUntilATimeout`, `DisposeIsFinal`, `EveryCallSettles` | holds |
| `cache` | `NeverOlder`, `AnswerIsFresh`, `CloserIsLast`, `OutlineIsOneDocument`, `EveryCallSettles` | holds |
| `viewer` | `OverlayOnItsEdit`, `SeenWasHandled`, `NoEcho` | holds |
| `view` | `NoDocumentLeaks`, `OnePaintPerCanvas`, `PagesAreSharp`, `OverlayIsThePlan`, `ControlsAreTrue` | holds |
| `app` | `ConnectedPageIsCurrent`, `OpenOutlineFollows`, `OutageHasADeadline`, `SpeaksOfItsOutage` | holds |
| `documents` | `MapIsTheDocument`, `EditHitsWhatWasRead`, `BoxIsTheChange`, `CreatedAsAsked`, `CreateReportsAreTrue` | holds |
| `server` | `WorkerIsWhole`, `FailureIsNotRemembered`, `RangesAreExact` | holds |
| `process` | `OwnWordsStayTraced`, `HostsSpareOthers` | holds |

Every property stands in its module under a comment that says what it means and
which code it is about, and the runs' purposes are in `PROJECT.json`. Mutants (the
operators marked so, each a plausible slip in the code it is named after) show
that each property can fail.

### What does not hold

`editor_late_save` is a disagreement with a comment of the repository and is quoted
under `findings`. The modules state these too, as properties that do not hold and
that no run has:

- `RevertsMoveBack` (`DocumentEditor`): a snapshot whose deletion failed is restored
  again, since the failure is ignored.
- `NoFailureHidesAnEdit` (`DocumentEditor`): if the hash after an edit fails, the raw
  error is reported while the edit is in the file.
- `NoWordLeftRunning` (`WordLifecycle`): the Word of a panel that was closed while it
  opened is nobody's.
- `OneChild` (`WordHost`): the exit of a killed child is reported after its successor
  was spawned, and `#onExit` does not ask which child it is told of. It forgets the
  successor, ends the Word named by `ownedPid` and rejects the successor's requests.
  Calls nevertheless settle, which `host` shows.
- `OneOperationAtATime` (`RenderCache`): `render-cache.mjs:331` serializes one
  document's operations, and the queue belongs to the state object. An open that fails
  before the document was ever open deletes that object from `#docs` (line 177) with
  what is queued on it; the next open registers another, whose operations then run
  beside what is left in the first queue. Three calls show it (two opens that queue,
  and one after the first has failed); with four an edit or a close in the one
  queue releases the working copy between the two questions of an outline in the other,
  so `OutlineIsOneDocument` is about executions in which no state is `forsaken`. The
  attempt to prove that property without this condition is what brought it up.
- `OnlyOwnWordsAreQuit` (`WordProcess`): `word-host.ps1:20` says that a Word the host
  did not create is never quit and never hidden. One that `New-Object` hands out and
  that can be seen gets no scratch document, hence no attribution; it is then
  `unattributed` whatever the census says, and `Stop-Word` spares only what is
  `attached`. One that starts between the census and `New-Object`, and is handed out, is
  taken for ours: it is hidden, registered and quit. `HostsSpareOthers` leaves both out.
- `PdfUrlNamesItsRender` (`PanelServer`): the URL of a PDF names a render, `#servePdf`
  sends the one on show when the request arrives, and the browser keeps it as
  immutable. A page that asks late for the first document keeps the second's pages
  under the first's URL.
- `StreamsAreHeard` (`PanelServer`): nobody listens for an error of the stream a PDF
  is read by, so one that is pruned after `stat` ends the process.

The models and the reading they took also show the following; they are steps of the
models, or part of what a property leaves out, as its comment says:

- editor: a save of another program between the token check of a revert and its
  rename is replaced without a copy; one that comes while a host fails is taken for
  the edit's and rolled back. A clock that is set back names a snapshot before those on
  disk: a failed edit then restores another call's, a revert takes an older step first,
  and retention evicts the new one. `ViewerInstance.state` asks the slot for `wordVersion`
  with `get`, where `render-cache-slot.mjs` names it as a reason to `peek`.
- cache: a call that is answered by another call's export may get an older PDF; a
  prune may remove a file that was just exported; a pdf() whose document was forgotten
  and registered again may be answered with `null.pdf`.
- panel: a refresh that outlives `openDocument` brings the first document back while
  the watcher is on the second; a `close` during the `watch` of `openDocument`
  leaves a watcher; two forced callers that waited for one refresh run two at once.
- watcher: `acknowledge` takes the file as it is after the render, so a write between
  the render and its `stat` is not reported. A `stat` that answers late, or fails, is
  recorded over what was delivered meanwhile, and the version that was handled is
  delivered, and rendered, once more.
- browser: a page whose paint failed stays `rendered`; a press while a load measures
  finds a page without a proxy; a toast's timer clears whatever message is there; an
  outline that was asked for earlier is labelled with the render there is now.
- documents: `SaveAs2` overwrites a file written after the last check, and the catch
  of `Cmd-Create` removes a file another program put at the path; a change that is
  reverted between two tokens is not seen; a box may be on an identical earlier
  paragraph when the touched one straddles a page.
- Word processes: `reapWordProcess` looks only whether a Word has the pid, so it ends
  one of the user that took the pid of a Word that had ended while its host lived;
  the start time is read after the attribution, so it may be that of another Word
  (`mistaken`); a Word that refuses the call of `Test-AppAlive` is given up while it runs,
  and the next one overwrites its file; a file of the ledger is passed over while any
  process has the pid of its writer, and a host that gets that pid overwrites it; a host
  that gets it while a sweep has the file in hand loses its own file, or the Word in it.
- server: the worker is kept for the life of the process while `pdf.min.mjs` is read
  for every request, so a vendoring pairs the old worker with the new main file,
  which the comment on `#serveVendor` says revalidation prevents; a suffix with more
  digits than a number holds is refused.

### Bounds, and why they are enough

- *Calls* of the editor. Two calls are an interleaving; the lock admits one at a
  time, so more calls add sequences, not interleavings, except for hosts that were
  given up, of which two calls give two.
- *MaxSnapshots* is 1 instead of 20: retention then happens at the second edit
  instead of the twenty-first.
- *MaxVersions* of the editor bounds the writes of new bytes by the host and by
  other programs together: three allow an edit, a foreign save and another edit, two
  an edit and one of the others.
- *MaxCrashes* is 1: after a crash only the idle calls run, so a second crash
  repeats the first with fewer calls.
- *Holders*: a program that holds the file like Word (readers admitted) or
  exclusively. `editor_crash` leaves the exclusive one out, since it only adds
  refusals, which `editor_safety` covers.
- *RemovalFails* is TRUE in `editor_safety`. With undeletable files the directory is
  no undo history, so the refinement has it FALSE.
- *ClockGoesBack* is TRUE in `editor_safety`. Where the names do not sort by age the
  directory is no undo history either, so the refinement has it FALSE. *Stamps* are as
  many names as there are edits: with two, the second is named after or before the first.
- *Requests*, *Ids*, *MaxCaches*: two users of Word and a close, or a tool, an
  open and a close, meet with three requests; they begin in the order of their
  numbers, which names them and excludes nothing. One canvas id is enough for a
  canvas that is shown, closed and replaced, and that is shown while a call uses Word;
  that another canvas is shown while one closes is covered by the theorems, which hold
  for any ids. Two caches let a disposal of the first meet calls that are handed the
  second.
- *WordHost*: two calls of any kind, `dispose()` and the start are the parties of
  every race over one child. *MaxChildren* is 6, and never keeps a start from
  happening. *MaxDeaths* bounds only the children that end without being killed;
  every timeout kills one besides.
- `cache`: three calls are one that closes or edits, one that is queued behind it and
  one that arrives meanwhile; two versions of the file tell an old answer from a new
  one; one replay is a Word that dies under an operation.
- `viewer`: two callers and the watcher's own refresh are the joiner, the one that is
  joined and the one that changes the epoch; two documents; two events
  (*MaxEvents*: writes, directory events beyond one for each write, failed stats that are
  recorded), so that one write can fall before and one after a fingerprint; two polls are
  the rounds a settle pass needs at least, so it can also give up; one retry instead of
  the code's list.
- `view`: two loads overtake each other; three epochs let a page be re-scaled while a
  re-scale is under way; two pages tell the page that is painted from its neighbour;
  three levels are the two ends and the middle.
- `app`: two outages, so that a timer of the first can fire in the second; three
  renders and two loads at once.
- `documents`: two calls and one write of another program. Between them the two
  documents of `MCDocumentTools` and what can be made of them have nested and
  repeated headings, a table, a text box, alternative content, style chains with a
  loop, equal texts, and texts that differ only in spaces. The overlay is tried with a
  page break after every word. `AllDocuments` has one edit of each document: with one
  call that edits, no second one is left out.
- `server`: two requests share a load or an extraction; two parts can be of two
  versions; sizes 2 and 3 with the numbers 0 and 2 are at, before and past the end.
- `process`: two hosts are the one that dies and the one that sweeps, or two beside
  each other; two Words are one of each host, one of a host and one of somebody else, or
  the one that dies and the one that takes its pid; three pids are two hosts and a Word,
  so every pid is used again. A third host that starts while two others live, and a third
  Word, are covered by the theorems, which hold for any numbers. Deaths are not bounded.

Deadlock is not checked: calls and requests are made once, and the system stops
when they are over.

### Fairness

`FairSpec` of `DocumentEditor` is weak fairness of each call's steps: every
await settles, because a host request has a timer and file operations return.
Nothing is assumed of the host, of other programs or of calls that are not yet
made. `FairSpec` of `WordLifecycle` is weak fairness of the steps of requests
that have started (the same reason; every host request has a timeout), of
disposals (`quit` is bounded by 20 s, the exit by 5 s) and of the idle timer.
Nothing makes a canvas close, a call arrive or `shutdown()` begin. `FairSpec` of
`WordHost` is weak fairness of `Progress` as a whole: something among the
continuations, the timers and the reports of exits happens as long as there is
any. Nothing makes a child answer. `FairSpec` of `RenderCache` is weak fairness of
the continuations and of the completion each call waits for (every command of the
host has a deadline, which `WordHost` shows to settle it). The other modules have
safety properties only.

## 4. Theorems

`DocumentEditorProofs` assumes `EditorAssumption` and proves, for any set of
calls and any bounds:

- `TypeCorrect`: `Spec => []TypeOK`;
- `MutualExclusion`: no two calls run between their token check and their end;
- `RollbackRestoresOwn`: `Spec => []RollbackIsOwn`;
- `UndoIsKept`: `Spec => []UndoNeverDiscarded`;
- `ReportsTellTheTruth`: `Spec => []ReportsAreTrue`;
- `ImplementsUndoHistory`: `Spec => ImplementsHistory`, that is the refinement of
  `EditHistory`, if deletions succeed and the clock that names the snapshots only goes
  on (`~RemovalFails`, `~ClockGoesBack`).

`RollbackIsOwn` is not inductive: that the newest snapshot is the call's own when
it is restored says nothing about the steps before. The invariant `IInv` adds
three parts. `TurnInv`: a running call is the head of the queue, so nobody else
adds or removes snapshots. `SnapsInv`: names are unique and among those given so far,
and every part of the directory has a newest member (so the `CHOOSE` in `Newest`
is defined without an induction over finite sets). `OwnInv`: from the copy to the
restore the newest snapshot is the call's, unless the call is in `misnamed`: there the
property says nothing, because the code restores another one. Retention keeps the newest whatever
deletions fail (`PrunedKeepsNewest`).

The two theorems about what is discarded and reported need more (`ReportInv`, beside
`IInv`). A snapshot is discarded only with one of three reports, so it is enough that a
call that gives one has nothing in the file, and no host that still could put something
there (`Told`). For "unchanged" that rests on the comparison with the hash taken on
entry: what a host saved for a call that has not decided yet is newer than that, and so
is all the document has held since (`Ahead`). For the other two it rests on who can still
be writing: a host that nobody waits for was given up by a timeout or outlived its
process (`HostOf`). The exception in `UndoNeverDiscarded`, a killed host whose save lands
after the comparison, is the one the proof leaves, too.

The refinement rests on `HistoryInv`. At most one snapshot stands for no step, it is the
newest, and its bytes are bytes the document has held since the last step (`Unsettled`,
`OneUnsettled`): it is that of the running edit, until the host has saved or the call is
over, or the one that a revert or a rollback has put back and not deleted yet. So the
save for a call that is still waiting is `Edit`, the end of a call or a crash that
settles the snapshot is `EmptyStep`, retention is `Forget`, a restore is `Undo`, or
`Outside` if what it overwrites was not the edit's, and a save for a call that is over is
`Outside`. `Steps` is defined by counting; that it lists the bytes by name is proved
once, from a list `Enumerates` that the invariant carries along (`StepsAreListed`,
`OneMore`, `Stretch`, `RetainedAreLast`), so that no induction over finite sets is needed.
Where a deletion fails the editor does not implement `EditHistory`: a snapshot that was
restored and is still there is restored again (`RevertsMoveBack`, section 3).

`WordLifecycleProofs` assumes `LifecycleAssumption` and proves, for any requests,
ids and number of caches: `TypeCorrect`, `UsersKeepWord` (`WordOutlivesItsUse`),
`WordIsOwned` (`WordHasAnOwner`) and `ShutdownIsComplete`
(`ShutdownWaitsForWord`). The invariant ties the counter to the set of tool calls
that are inside `run` (`inFlight = Cardinality(ToolsRunning)`), which is what
makes "no tool call in flight" mean that nobody is using Word; says of every
protected request that its cache is the slot's; and says of every cache below the
live one that it is retiring or gone. TLC checked that invariant too.

`WordHostProofs` assumes `HostAssumption` and proves, for any set of calls and any
number of children and deaths: `TypeCorrect` (with: who waits is in the pending
table), `PidNotRecycled`, `OneChildOnly` and `DisposeFinal`, an action property.
The invariant adds that a call that is not under way rests; that as long as
`#kill` has let go of no child every process left is the current one, which is
what lets an exit event forget `#child` without asking; and that a host past its
quit is disposed, in the end without a child. Sending is proved once
(`SendStep`) for the eight places that send.

Of `DocumentTools` it assumes `ToolsAssumption` and proves, for any calls, documents,
requests and parser: `ToolsTypeCorrect`, `CreateReports` (`CreateReportsAreTrue`) and
`MapIsOfItsToken`, an action property: the map a caller is given is built of the document
its token is of. In `ToolsInv`, a read only goes forward (`ReadFits`): what it exported is
no older than its first token, and what is at the path is no older than that, so two
equal tokens leave nothing between them. `WritesFit` says what a call has written at each
step, on which the reports of a create rest: nothing before the save, and a whole document
once SaveAs2 has returned, whether or not it can be read back. `KnownFits` and
`RequestFits` follow a paragraph from the map a caller was shown into the map of the edit.

`MapsAreTheDocument` (`MapIsTheDocument`) and `EditsHitWhatWasRead`
(`EditHitsWhatWasRead`), both action properties, have hypotheses about the data.
`MapsDescribe`: what is built of the markup of a document describes it. `AddressesName`:
an address has the text of its paragraph in it. `ChangesAreAsAsked`: an operation of the
host on a paragraph it does not refuse changes that one, as asked. These are about
recursive functions of texts and documents, and TLC evaluates them for the documents,
changes and pages of the run (`DataAssumption` of `MCDocumentTools`). What the theorems
add is everything else: any number of calls and programs between the reading of a map,
the edit's own read, and `Cmd-Edit`, which may find another document than either. It is
the text of the paragraph at the position, compared with the map's, that is as the caller
was shown; the index alone would not do.

`WordProcessProofs` assumes `ProcessAssumption` and proves, for any hosts, pids and
Words: `TypeCorrect`, `OwnWordsTraced` (`OwnWordsStayTraced`) and `OthersAreSpared`
(`HostsSpareOthers`, an action property). A kill is decided by a pid and a start time,
so the invariant first says that these identify one Word (`Clocked`, `Distinct`), and
that a living host shares its pid with no later one (`Placed`), which its file in the
ledger depends on. Then it says whose the identities are: the one a host holds, and
the one in a file of the ledger, are of a Word it started, of one in `mistaken` or
`slipped`, or of none that runs (`OwnedIsOwn`, `LedgerIsOwn`); a Word in the ledger is
known to its host until that is gone (`Traces`); and the file that a sweep has in hand is
of no host that it could have seen, nor, once the kill is over, of a Word that is still
`traced` (`Swept`).

`PanelServerProofs` assumes `ServerAssumption` and proves, for any requests, versions,
parts, renders and sizes: `TypeCorrect`, `WorkersAreWhole` (`WorkerIsWhole`),
`FailuresAreForgotten` (`FailureIsNotRemembered`) and `RangesServed` (`RangesAreExact`).
`SoundReads` carries the second: a worker that was asked for in a whole directory, with
no load under way, is read in it, so the manifest and every part read so far are of
the version there is. The last rests on a lemma about `ParseByteRange` alone
(`RangeBytes`): the range it computes has just the bytes that are wanted.

`RenderCacheProofs` assumes `CacheAssumption` and proves, for any calls of any kinds:
`TypeCorrect`, `PdfsAreNotOlder` (`NeverOlder`), `AnswersAreFresh` (`AnswerIsFresh`),
`ClosersAreLast` (`CloserIsLast`), `OutlinesAreOfOneDocument` (`OutlineIsOneDocument`)
and `OneOperationUntilForsaken`: `OneOperationAtATime`, which section 3 says does not
hold, does until a state object is `forsaken`. Two parts of the invariant do the work.
`Queues`: what is in a queue is there once and waits unless it is first, and an
operation that runs is first, so two that run are of two state objects; `OneChain` adds
that, unless one is `forsaken`, the only operation beside those of the state in `#docs`
is a closer's release. And versions grow on the way from the file to an answer: no key
is ahead of the file (`Behind`), what Word has open is not behind the keys
(`CopyIsNewer`), and a state that a call may come to look at has no key, now or from an
open under way, that is older than the call (`FreshFor`). The steps that concern one
call are proved over three lemmas, `Leaves`, `Stays` and `Joins`; the end of a shared
export, which moves several, over `SharersEnd`.

`ViewerProofs` assumes `WatcherAssumption` and `ViewerAssumption` and proves, for any
paths, versions, calls, delays and retries: `TypeCorrect`, `NothingIsMissed`
(`SeenWasHandled`), `NoEchoes` (`NoEcho`, an action property) and
`OverlaysAreOnTheirEdits` (`OverlayOnItsEdit`). Stronger than `SeenWasHandled`, what an
attached watcher takes for seen is the newest fingerprint of its file that was handled,
but where a stat failed or answered late (`Fresh`); a delivery under way has marked a
newer one and remembers the newest handled, which is what a refusal puts back. The overlay follows from the epochs of the records: no two
records share one, and a render that stamps a record began after that record's edit.

`BrowserProofs` assumes `ViewAssumption` and proves of `PdfView`, for any loads,
epochs, pages, scales and records: `TypeCorrect`, `DocumentsDoNotLeak` (`NoDocumentLeaks`),
`CanvasesAreNotShared` (`OnePaintPerCanvas`), `PagesEndSharp` (`PagesAreSharp`),
`OverlaysFollowThePlan` (`OverlayIsThePlan`) and `ControlsTellTheTruth`
(`ControlsAreTrue`). How far the latest load has come decides the document, the pages and
the observers; a paint of an older epoch extracts text and nothing else, and a paint of
this epoch is alone on its page and stands for what the page still lacks, so that when
none is left no page lacks anything.

Of `ViewerApp` it proves, assuming `AppAssumption` and for any number of renders,
failures, loads, outlines, outages and messages: `PageTypeCorrect`, `PageFollowsServer`
(`ConnectedPageIsCurrent`), `OutlineFollows` (`OpenOutlineFollows`),
`OutagesHaveADeadline` (`OutageHasADeadline`) and `TimersSpeakOfTheirOutage`
(`SpeaksOfItsOutage`, an action property). A page does not have its server's state while
events are on their way, so the invariant is about both: the last event that carries a
state carries the server's, or none does and the page has it (`StreamInv`). Nothing in
that stream is without a document once the page, or an event before it, had one
(`DocsInv`), without which a state of no document would leave the load and the label of
an earlier one in place. The last load is of the render that was asked for (`LoadInv`),
and a timer of the present epoch is of the outage there is (`TimerInv`).

The type invariants are proved and no longer part of a run, and no run has what
`MutualExclusion`, `MapIsOfItsToken` and `OneOperationUntilForsaken` say; each other
theorem says the same as a run does. TLC checked every inductive invariant on the
instance of the module's run, or a smaller one, before it was proved.

Only model-checked: the four liveness properties, `BoxIsTheChange`, `CreatedAsAsked`
and the three hypotheses above. Liveness under fairness and `ENABLED` are beyond this
prover, as are proofs by induction over data and about `RECURSIVE` operators. What is left
of `DocumentTools` is of that kind: the last two properties compare texts that are folded
over blocks, words and characters, and little in them depends on the order of steps.

## 5. Plan

Done: `DocumentEditor` with `EditHistory`, `WordLifecycle`, `WordHost`, `WordProcess`,
`PanelServer`, `RenderCache`, `FileWatcher` with `Viewer`, `PdfView`, `ViewerApp`,
`DocumentTools` and their proofs.

Not done: several panels over one cache, with what the layers take of each other as
assumptions of their composition. What they take is listed in section 2; each half is
checked or proved in its own module, and that the halves fit is read, not proved.

### Not modelled

- In the entry points, argument checks and error texts; in the bridge a spawn that
  fails, the line buffers and the arithmetic of deadlines.
- In the panel, listening, the routes of static files and `openInWord`;
  in the host, what a search finds and the text of a page.
- In the browser, the search box, the picker, the banner's wording and dismissal, the
  reader's place and `goto`.
- Where Word puts a paragraph that is inserted beside one in a table cell, list
  numbering and page layout: what Word does is not in the code.
- The JSON store, wording, styles, vendored `pdf.js`, the remaining repository tooling
  and the measurement probes under `spikes`: pure input and output, or not part of
  the running extension.
