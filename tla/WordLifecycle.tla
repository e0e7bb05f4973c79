----------------------------- MODULE WordLifecycle -----------------------------
(***************************************************************************)
(* Who keeps the hidden Word alive, and who lets it go: the idle shutdown  *)
(* (src/word-lifecycle.mjs), the slot of the live RenderCache              *)
(* (src/render-cache-slot.mjs), and the canvas handlers, tool handlers and *)
(* process shutdown of extension.mjs that use them, with the panel         *)
(* operations of src/server.mjs that ask the slot for a cache.             *)
(*                                                                         *)
(* A request is one call of the extension by its host program; what it     *)
(* asks for is decided when it starts.  A panel (ViewerInstance) has the   *)
(* name of the request that constructed it.  Caches are numbered in the    *)
(* order they are built, and each has its own WordHost, hence its own      *)
(* Word.  Each action is the code between two awaits.                      *)
(***************************************************************************)
EXTENDS Integers, FiniteSets

CONSTANTS
    Requests,   \* canvas and tool calls, numbered in the order they come
    Ids,        \* canvas instance ids
    None,       \* an unset field
    Kinds,      \* what is ever asked of the extension; all of AllKinds in general
    MaxCaches   \* bound: RenderCaches ever built

NoCache == 0
Caches == 1..MaxCaches

AllKinds == {"open", "refresh", "action", "tool", "close", "shutdown"}

ASSUME LifecycleAssumption ==
    /\ IsFiniteSet(Requests) /\ Requests \subseteq Nat
    /\ None \notin Requests /\ None \notin Ids
    /\ Kinds \subseteq AllKinds
    /\ MaxCaches \in Nat

VARIABLES
    instances,  \* the instances map: the panel shown under each id, or None
    closed,     \* panels whose close() has begun
    showing,    \* panels with a document
    pc,         \* where each request stands
    job,        \* what it is: an open, a refresh, a panel action, a tool, a close
    id,         \* the canvas instance id it is about
    panel,      \* the panel it works on
    cacheOf,    \* the cache it is working with
    inFlight,   \* tool calls running, as createIdleShutdown counts them
    timer,      \* whether the idle timer is armed
    current,    \* the slot: the live cache, or NoCache
    built,      \* how many caches were ever built
    retiring,   \* caches whose disposal is running
    word,       \* the Word of each cache: not started, running, gone for good
    shutdown,   \* how far shutdown() has come
    awaited,    \* the disposals shutdown() is waiting for
    early,      \* history: how many caches had been built when shutdown() retired
                \*          the slot's
    strays      \* history: caches asked for by a panel that is not in the map

slotVars == <<current, built, retiring>>
panelVars == <<instances, closed, showing>>
callVars == <<job, id, panel>>
endVars == <<shutdown, awaited, early>>
vars == <<panelVars, pc, callVars, cacheOf, inFlight, timer, slotVars, word,
          endVars, strays>>

-----------------------------------------------------------------------------
\* isDisplaying: a canvas owns Word while the map is not empty.
Displayed == {instances[i] : i \in Ids} \ {None}

\* The tool calls inside lifecycle.run.
ToolsRunning == {r \in Requests : job[r] = "tool" /\ pc[r] \in {"calling", "called"}}

\* A request that holds a cache and is using it, or about to.
UsingCache == {"opening", "opened", "exporting", "exported", "calling", "called"}

TypeOK ==
    /\ instances \in [Ids -> Requests \cup {None}]
    /\ closed \in SUBSET Requests
    /\ showing \in SUBSET Requests
    /\ pc \in [Requests -> UsingCache \cup {"idle", "starting", "resolving", "closing",
                                            "done"}]
    /\ job \in [Requests -> {"none", "open", "refresh", "action", "tool", "close"}]
    /\ id \in [Requests -> Ids \cup {None}]
    /\ panel \in [Requests -> Requests \cup {None}]
    /\ cacheOf \in [Requests -> Caches \cup {NoCache}]
    /\ inFlight \in Nat
    /\ timer \in BOOLEAN
    /\ current \in Caches \cup {NoCache}
    /\ built \in 0..MaxCaches
    /\ retiring \in SUBSET Caches
    /\ word \in [Caches -> {"cold", "up", "down"}]
    /\ shutdown \in {"no", "closing", "disposing", "over"}
    /\ awaited \in SUBSET Caches
    /\ early \in 0..MaxCaches
    /\ strays \in SUBSET Caches

Init ==
    /\ instances = [i \in Ids |-> None]
    /\ closed = {}
    /\ showing = {}
    /\ pc = [r \in Requests |-> "idle"]
    /\ job = [r \in Requests |-> "none"]
    /\ id = [r \in Requests |-> None]
    /\ panel = [r \in Requests |-> None]
    /\ cacheOf = [r \in Requests |-> NoCache]
    /\ inFlight = 0
    /\ timer = FALSE
    /\ current = NoCache
    /\ built = 0
    /\ retiring = {}
    /\ word = [k \in Caches |-> "cold"]
    /\ shutdown = "no"
    /\ awaited = {}
    /\ early = 0
    /\ strays = {}

-----------------------------------------------------------------------------
(* The slot and the idle timer.                                            *)

\* What caches.get() answers.
Live == IF current = NoCache THEN built + 1 ELSE current

\* get(): builds a cache on first use; building one does not start its Word.
Get ==
    /\ Live \in Caches
    /\ current' = Live
    /\ built' = IF current = NoCache THEN built + 1 ELSE built
    /\ UNCHANGED retiring

\* dispose(): the slot is empty at once, the disposal takes its time.  The host
\* of a cache that never started Word is disposed on the spot.
Dispose ==
    /\ current' = NoCache
    /\ retiring' = retiring \cup ({current} \ {NoCache})
    /\ word' = [k \in Caches |-> IF k = current /\ word[k] = "cold" THEN "down"
                                                                   ELSE word[k]]
    /\ UNCHANGED built

\* schedule(), with n tool calls in flight.
Schedule(n) == timer' = (Displayed = {} /\ n = 0)

DisposalEnds(k) ==
    /\ k \in retiring
    /\ retiring' = retiring \ {k}
    /\ word' = [word EXCEPT ![k] = "down"]
    /\ UNCHANGED <<panelVars, pc, callVars, cacheOf, inFlight, timer, current, built,
                   endVars, strays>>

\* The idle timer looks again before it disposes.
TimerFires ==
    /\ timer
    /\ timer' = FALSE
    /\ IF Displayed = {} /\ inFlight = 0 THEN Dispose ELSE UNCHANGED <<slotVars, word>>
    /\ UNCHANGED <<panelVars, pc, callVars, cacheOf, inFlight, endVars, strays>>

-----------------------------------------------------------------------------
(* Requests.                                                               *)

Start(r, what, i, p, step) ==
    /\ pc[r] = "idle" /\ what \in Kinds
    /\ \A q \in Requests : q < r => pc[q] # "idle"
    /\ job' = [job EXCEPT ![r] = what]
    /\ id' = [id EXCEPT ![r] = i]
    /\ panel' = [panel EXCEPT ![r] = p]
    /\ pc' = [pc EXCEPT ![r] = step]

Goto(r, step) == pc' = [pc EXCEPT ![r] = step] /\ UNCHANGED callVars

\* this.cache and getCache(): the request goes on with the slot's cache.
AskForCache(r) == Get /\ cacheOf' = [cacheOf EXCEPT ![r] = Live]

\* A panel that is not in the map asks: nobody will let that cache's Word go.
Claim(p) == strays' = IF p \in Displayed THEN strays ELSE strays \cup {Live}

\* The host, started on demand, has the request's command; a disposed host
\* refuses it.
ReachWord(r) ==
    /\ \/ pc[r] = "opening" /\ Goto(r, "opened")
       \/ pc[r] = "exporting" /\ Goto(r, "exported")
       \/ pc[r] = "calling" /\ Goto(r, "called")
    /\ word[cacheOf[r]] # "down"
    /\ job[r] = "action" => word[cacheOf[r]] = "up"
    /\ word' = [word EXCEPT ![cacheOf[r]] = "up"]
    /\ UNCHANGED <<panelVars, cacheOf, inFlight, timer, slotVars, endVars, strays>>

\* open, and the open_document action on a panel that exists: with a path to
\* show, or without.
OpenCanvas(r) ==
    /\ \E i \in Ids :
           \/ instances[i] = None /\ Start(r, "open", i, r, "starting")
           \/ instances[i] # None
                /\ \E step \in {"resolving", "done"} :
                       Start(r, "open", i, instances[i], step)
    /\ UNCHANGED <<panelVars, cacheOf, inFlight, timer, slotVars, word, endVars, strays>>

\* instance.start() is awaited before the panel enters the map.
PanelStarted(r) ==
    /\ pc[r] = "starting"
    /\ instances' = [instances EXCEPT ![id[r]] = r]
    /\ \E step \in {"resolving", "done"} : Goto(r, step)
    /\ UNCHANGED <<closed, showing, cacheOf, inFlight, timer, slotVars, word, endVars,
                   strays>>

\* resolveInputPath fails, or names what is shown already; otherwise
\* openDocument begins, which never asks whether the panel was closed.
PathResolved(r) ==
    /\ pc[r] = "resolving"
    /\ \/ Goto(r, "done") /\ UNCHANGED <<cacheOf, slotVars, strays>>
       \/ Goto(r, "opening") /\ AskForCache(r) /\ Claim(panel[r])
    /\ UNCHANGED <<panelVars, inFlight, timer, word, endVars>>

\* refresh, asked for by an action or by the watcher of a panel not yet closed.
RefreshPanel(r) ==
    /\ \E p \in showing \ closed : Start(r, "refresh", None, p, "opening") /\ Claim(p)
    /\ AskForCache(r)
    /\ UNCHANGED <<panelVars, inFlight, timer, word, endVars>>

\* The document is open in the cache; the export asks the slot again.  Only a
\* refresh looks whether its panel was closed meanwhile.
Export(r) ==
    /\ pc[r] = "opened"
    /\ job[r] = "refresh" => panel[r] \notin closed
    /\ Goto(r, "exporting") /\ AskForCache(r) /\ Claim(panel[r])
    /\ UNCHANGED <<panelVars, inFlight, timer, word, endVars>>

\* A panel operation ends, with the render or with an error.  Both push the
\* state, and the state asks the slot for its wordVersion; only a failed refresh
\* may report its error without.
PanelDone(r) ==
    /\ job[r] \in {"open", "refresh"}
    /\ pc[r] \in {"opening", "opened", "exporting", "exported"}
    /\ \/ pc[r] = "exported" /\ showing' = showing \cup {panel[r]} /\ Get
       \/ UNCHANGED showing /\ Get
       \/ job[r] = "refresh" /\ UNCHANGED <<showing, slotVars>>
    /\ Goto(r, "done")
    /\ UNCHANGED <<instances, closed, cacheOf, inFlight, timer, word, endVars, strays>>

\* A refresh that finds its panel closed publishes nothing.
RefreshAbandoned(r) ==
    /\ job[r] = "refresh" /\ pc[r] = "opened" /\ panel[r] \in closed
    /\ Goto(r, "done")
    /\ UNCHANGED <<panelVars, cacheOf, inFlight, timer, slotVars, word, endVars, strays>>

\* get_outline, search, get_text, get_info: requireInstance and getCache, which
\* cancels the timer, without an await in between.
PanelAction(r) ==
    /\ \E i \in Ids : /\ instances[i] # None /\ instances[i] \in showing
                      /\ Start(r, "action", i, instances[i], "calling")
    /\ AskForCache(r)
    /\ timer' = FALSE
    /\ UNCHANGED <<panelVars, inFlight, word, endVars, strays>>

ActionDone(r) ==
    /\ job[r] = "action" /\ pc[r] \in {"calling", "called"}
    /\ Goto(r, "done")
    /\ UNCHANGED <<panelVars, cacheOf, inFlight, timer, slotVars, word, endVars, strays>>

\* withWordWork: counted, the timer cancelled, and the cache taken at once.
StartTool(r) ==
    /\ Start(r, "tool", None, None, "calling")
    /\ inFlight' = inFlight + 1
    /\ timer' = FALSE
    /\ AskForCache(r)
    /\ UNCHANGED <<panelVars, word, endVars, strays>>

\* refreshCanvasesFor, inside the same run: each displayed panel of the edited
\* document, unless it was closed meanwhile.
RefreshAfterEdit(r) ==
    /\ job[r] = "tool" /\ pc[r] = "called"
    /\ (Displayed \cap showing) \ closed # {}
    /\ Get
    /\ word[Live] # "down"
    /\ word' = [word EXCEPT ![Live] = "up"]
    /\ UNCHANGED <<panelVars, pc, callVars, cacheOf, inFlight, timer, endVars, strays>>

\* Mutant: the idle shutdown is left to whoever closes a canvas.
EndToolSilently(r) ==
    /\ r \in ToolsRunning
    /\ Goto(r, "done")
    /\ inFlight' = inFlight - 1
    /\ UNCHANGED <<panelVars, cacheOf, timer, slotVars, word, endVars, strays>>

\* The finally of run.
EndTool(r) ==
    /\ r \in ToolsRunning
    /\ Goto(r, "done")
    /\ inFlight' = inFlight - 1
    /\ Schedule(inFlight - 1)
    /\ UNCHANGED <<panelVars, cacheOf, slotVars, word, endVars, strays>>

\* onClose: out of the map first, then instance.close(), whose first act is to
\* mark the panel closed.
CloseCanvas(r) ==
    /\ \E i \in Ids :
           /\ instances[i] # None
           /\ Start(r, "close", i, instances[i], "closing")
           /\ instances' = [instances EXCEPT ![i] = None]
           /\ closed' = closed \cup {instances[i]}
    /\ UNCHANGED <<showing, cacheOf, inFlight, timer, slotVars, word, endVars, strays>>

\* Mutant: the last panel takes Word with it, tool calls or not.
PanelClosedRegardless(r) ==
    /\ pc[r] = "closing"
    /\ Goto(r, "done")
    /\ IF Displayed = {} THEN Dispose ELSE UNCHANGED <<slotVars, word>>
    /\ UNCHANGED <<panelVars, cacheOf, inFlight, timer, endVars, strays>>

\* The panel's server is down.  The last panel lets Word go, unless a tool call
\* is using it; another panel's document may stay open in it.
PanelClosed(r) ==
    /\ pc[r] = "closing"
    /\ Goto(r, "done")
    /\ IF Displayed = {} /\ inFlight > 0 THEN Schedule(inFlight) ELSE UNCHANGED timer
    /\ IF Displayed = {} /\ inFlight = 0 THEN Dispose ELSE UNCHANGED <<slotVars, word>>
    /\ UNCHANGED <<panelVars, cacheOf, inFlight, endVars, strays>>

-----------------------------------------------------------------------------
(* shutdown(): the end of the session, or a signal.                        *)

BeginShutdown ==
    /\ shutdown = "no" /\ "shutdown" \in Kinds
    /\ shutdown' = "closing"
    /\ timer' = FALSE
    /\ closed' = closed \cup Displayed
    /\ UNCHANGED <<instances, showing, pc, callVars, cacheOf, inFlight, slotVars, word,
                   awaited, early, strays>>

\* Mutant: dispose() waits for the disposal it started, not for those under way.
ShutdownAwaitsOwn ==
    /\ shutdown = "closing"
    /\ shutdown' = "disposing"
    /\ instances' = [i \in Ids |-> None]
    /\ Dispose
    /\ awaited' = {current} \ {NoCache}
    /\ early' = built
    /\ UNCHANGED <<closed, showing, pc, callVars, cacheOf, inFlight, timer, strays>>

\* All panels are closed; the slot's cache is retired, and every disposal that
\* has started by then is awaited.
ShutdownDisposes ==
    /\ shutdown = "closing"
    /\ shutdown' = "disposing"
    /\ instances' = [i \in Ids |-> None]
    /\ Dispose
    /\ awaited' = retiring'
    /\ early' = built
    /\ UNCHANGED <<closed, showing, pc, callVars, cacheOf, inFlight, timer, strays>>

\* reapOnExit ends the Word of a cache built meanwhile.  A signal then exits: the
\* behaviour ends.  The end of a session need not end the process.
ShutdownEnds ==
    /\ shutdown = "disposing" /\ awaited \cap retiring = {}
    /\ shutdown' = "over"
    /\ word' = [k \in Caches |-> IF k = current /\ word[k] = "up" THEN "cold"
                                                                 ELSE word[k]]
    /\ UNCHANGED <<panelVars, pc, callVars, cacheOf, inFlight, timer, slotVars, awaited,
                   early, strays>>

-----------------------------------------------------------------------------
\* A new call arrives.
Arrive(r) ==
    OpenCanvas(r) \/ RefreshPanel(r) \/ PanelAction(r) \/ StartTool(r) \/ CloseCanvas(r)

\* A call that has started goes on.
Continue(r) ==
    \/ PanelStarted(r) \/ PathResolved(r) \/ ReachWord(r) \/ Export(r) \/ PanelDone(r)
    \/ RefreshAbandoned(r) \/ ActionDone(r) \/ EndTool(r) \/ PanelClosed(r)

EndProcess == BeginShutdown \/ ShutdownDisposes \/ ShutdownEnds

Next ==
    \/ \E r \in Requests : Arrive(r) \/ Continue(r) \/ RefreshAfterEdit(r)
    \/ \E k \in Caches : DisposalEnds(k)
    \/ TimerFires
    \/ EndProcess

Spec == Init /\ [][Next]_vars

\* Awaits settle (every host request has a timeout, and a disposal is bounded),
\* and an armed timer fires.
FairSpec ==
    /\ Spec
    /\ \A r \in Requests : WF_vars(Continue(r))
    /\ \A k \in Caches : WF_vars(DisposalEnds(k))
    /\ WF_vars(TimerFires)
-----------------------------------------------------------------------------
(* Correctness.                                                            *)

\* Until shutdown() begins, Word is never let go under a tool call, nor under an
\* operation of a panel that is in the map: the cache they took is the slot's to
\* the end, so it is neither retiring nor gone.
WordOutlivesItsUse ==
    shutdown = "no" =>
        \A r \in Requests :
            pc[r] \in UsingCache /\ (job[r] = "tool" \/ panel[r] \in Displayed)
                => cacheOf[r] = current /\ current \notin retiring
                   /\ (current # NoCache => word[current] # "down")

\* Somebody will let the slot's cache go: a canvas, a tool call, the idle timer,
\* or a close under way.
Owned ==
    \/ Displayed # {}
    \/ inFlight > 0
    \/ timer
    \/ \E r \in Requests : pc[r] = "closing"
    \/ shutdown = "closing"

\* A hidden Word that runs in the slot's cache has an owner who will let it go,
\* unless the cache was asked for by a panel that had left the map.
WordHasAnOwner ==
    current # NoCache /\ word[current] = "up" /\ current \notin strays => Owned

\* shutdown() returns, and a signal ends the process, only after the Word of
\* every cache built before it disposed the slot is gone, including those whose
\* disposal the idle timer or a closing canvas had begun.
ShutdownWaitsForWord ==
    shutdown = "over" => \A k \in 1..early : word[k] # "up"

\* A running Word is not kept for the rest of the session: it goes away, or a
\* canvas is on display, or the exceptions above and shutdown() apply.
IdleWordGoesAway ==
    \A k \in Caches :
        word[k] = "up" ~> word[k] = "down" \/ Displayed # {} \/ k \in strays
                          \/ shutdown # "no"

\* Stated by extension.mjs: no hidden Word is left running for the rest of the
\* session, because a canvas, a tool call or the idle timer releases it.
NoWordLeftRunning == current # NoCache /\ word[current] = "up" => Owned
=============================================================================
