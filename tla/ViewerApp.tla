-------------------------------- MODULE ViewerApp --------------------------------
(***************************************************************************)
(* The page of a panel (src/ui/app.js), the connection it watches          *)
(* (src/ui/connection-status.mjs) and what its server pushes over it (the  *)
(* events of src/server.mjs).  Events reach the page in order while the    *)
(* connection is up; those of an outage are lost.                          *)
(*                                                                         *)
(* A render is a number, its key and its URL.  The view is what PdfView    *)
(* comes to: the last load begun shows its document or fails, and a load   *)
(* that was overtaken shows nothing.                                       *)
(***************************************************************************)
EXTENDS Integers, Sequences, FiniteSets

CONSTANTS
    MaxRenders,   \* bound: documents and renders the server comes to show
    MaxFailures,  \* bound: refreshes and loads that end in an error
    MaxPageLoads,     \* bound: how often the view loads
    MaxFetches,   \* bound: how often the outline is fetched
    MaxOutages,   \* bound: how often the connection drops
    MaxToasts     \* bound: messages that clear themselves

ASSUME AppAssumption ==
    {MaxRenders, MaxFailures, MaxPageLoads, MaxFetches, MaxOutages, MaxToasts} \subseteq Nat

VARIABLES
    server,      \* the state a push carries: the render, or 0, and the status
    failures,
    channel,     \* the events on their way
    source,      \* the EventSource: none, connecting, open or closed
    outage,      \* the outages so far
    \* app.js
    state,       \* state, or Unknown
    loadedUrl,   \* loadedPdfUrl, 0 for null
    loads,       \* every load of the view: its render, and how it ended
    view,        \* the render the view shows, or 0
    sidebar,     \* whether the sidebar is open
    loadedFor,   \* outlineLoadedFor, 0 for null
    outline,     \* what the outline panel says
    fetches,     \* the outlines asked for
    line,        \* the status line
    toasts,      \* the timers that will clear it
    \* connection-status.mjs
    down,        \* downSince is set
    outageEpoch, \* epoch
    finished, owned,
    timers       \* the timers of the monitor, with the outage they were set in

serverVars == <<server, failures>>
viewVars == <<loadedUrl, loads, view>>
outlineVars == <<sidebar, loadedFor, outline, fetches>>
monitorVars == <<source, outage, down, outageEpoch, finished, owned, timers>>
appVars == <<serverVars, channel, state, viewVars, outlineVars, line, toasts, monitorVars>>

Renders == 0..MaxRenders
States == [doc : Renders, status : {"idle", "opening", "ready", "error"}]
Unknown == [doc |-> 0, status |-> "unknown"]
Events == {"state", "reloaded", "rendering"}
Epochs == 0..(2 * MaxOutages + 1)

\* Types; the monitor owns the message of an outage there is, or of the last one.
AppTypeOK ==
    /\ server \in States /\ failures \in 0..MaxFailures
    /\ channel \in Seq([type : Events, state : States])
    /\ source \in {"none", "connecting", "open", "closed"}
    /\ outage \in 0..MaxOutages
    /\ state \in States \cup {Unknown}
    /\ loadedUrl \in Renders /\ view \in Renders
    /\ loads \in Seq([url : Renders, step : {"loading", "ended"}])
    /\ sidebar \in BOOLEAN /\ loadedFor \in Renders
    /\ outline \in {"nothing", "loading", "headings", "error"}
    /\ fetches \in Seq({"asked", "ended"})
    /\ line \in {"", "error", "opening", "rendering", "loadError", "toast",
                 "reconnecting", "lost"}
    /\ toasts \in 0..MaxToasts
    /\ {down, finished, owned} \subseteq BOOLEAN /\ outageEpoch \in Epochs
    /\ timers \subseteq [what : {"grace", "deadline"}, epoch : Epochs, outage : 0..MaxOutages]
    /\ owned => down \/ finished

AppInit ==
    /\ server = [doc |-> 0, status |-> "idle"] /\ failures = 0
    /\ channel = <<>> /\ source = "none" /\ outage = 0
    /\ state = Unknown
    /\ loadedUrl = 0 /\ loads = <<>> /\ view = 0
    /\ sidebar = FALSE /\ loadedFor = 0
    /\ outline = "nothing" /\ fetches = <<>>
    /\ line = "" /\ toasts = 0
    /\ down = FALSE /\ outageEpoch = 0 /\ finished = FALSE /\ owned = FALSE /\ timers = {}
-----------------------------------------------------------------------------
(* The server.                                                             *)

\* #broadcast: to the clients there are.
Broadcast(types, s) ==
    channel' = IF source = "open"
               THEN channel \o [i \in DOMAIN types |-> [type |-> types[i], state |-> s]]
               ELSE channel

Pushes(types, s) ==
    /\ server' = s
    /\ Broadcast(types, s)
    /\ UNCHANGED <<state, viewVars, outlineVars, line, toasts, monitorVars>>

\* openDocument(): announced, and then another document, or the same unchanged.
Opening ==
    /\ server.status # "opening" /\ server.doc < MaxRenders
    /\ Pushes(<<"state">>, [server EXCEPT !.status = "opening"])
    /\ UNCHANGED failures

Opened ==
    /\ server.status = "opening" /\ server.doc < MaxRenders
    /\ Pushes(<<"state">>, [doc |-> server.doc + 1, status |-> "ready"])
    /\ UNCHANGED failures

\* A refresh of #autoRefresh announces itself; one that renders pushes twice.
Announces ==
    /\ server.doc # 0 /\ server.doc < MaxRenders /\ source = "open"
    /\ \A i \in DOMAIN channel : channel[i].type # "rendering"
    /\ Pushes(<<"rendering">>, server)
    /\ UNCHANGED failures

Refreshed ==
    /\ server.doc # 0 /\ server.doc < MaxRenders
    /\ Pushes(<<"state", "reloaded">>, [doc |-> server.doc + 1, status |-> "ready"])
    /\ UNCHANGED failures

\* The document could not be opened or rendered: the last one stays.
Fails ==
    /\ failures < MaxFailures /\ server.status # "error"
    /\ Pushes(<<"state">>, [server EXCEPT !.status = "error"])
    /\ failures' = failures + 1
-----------------------------------------------------------------------------
(* app.js.                                                                 *)

\* showPdf(): a load begins unless this render is the one that was last begun.
ShowPdf(s) ==
    IF s.doc = 0 \/ s.doc = loadedUrl
    THEN UNCHANGED viewVars
    ELSE /\ Len(loads) < MaxPageLoads
         /\ loadedUrl' = s.doc
         /\ loads' = Append(loads, [url |-> s.doc, step |-> "loading"])
         /\ view' = 0

\* render(): the status of the document, and its pages unless it is in error.
StatusOf(s) == IF s.status \in {"error", "opening"} THEN s.status ELSE ""

Render(s) == IF s.status = "error" THEN UNCHANGED viewVars ELSE ShowPdf(s)

\* loadOutline() asks unless it has the outline of this render, as far as known.
LoadOutline(s, known) ==
    IF s.doc = 0 \/ known = s.doc
    THEN /\ loadedFor' = known
         /\ UNCHANGED <<outline, fetches>>
    ELSE /\ Len(fetches) < MaxFetches
         /\ loadedFor' = known
         /\ outline' = "loading"
         /\ fetches' = Append(fetches, "asked")

\* As ApplyState, with the outline left to the sidebar's next opening.
ApplyStateOnly(s, reloaded) ==
    /\ state' = s
    /\ Render(s)
    /\ loadedFor' = IF reloaded THEN 0 ELSE loadedFor
    /\ UNCHANGED <<sidebar, outline, fetches>>

\* applyState(); reloaded forgets the outline of a render it knows as well, so
\* the two outlines it asks for then are one fetch here.
ApplyState(s, reloaded) ==
    /\ state' = s
    /\ Render(s)
    /\ IF (s.doc # 0 /\ s.doc # state.doc) \/ reloaded
       THEN IF sidebar THEN LoadOutline(s, 0)
            ELSE loadedFor' = 0 /\ UNCHANGED <<outline, fetches>>
       ELSE UNCHANGED <<loadedFor, outline, fetches>>
    /\ UNCHANGED sidebar

Toast == /\ toasts < MaxToasts
         /\ toasts' = toasts + 1
         /\ line' = "toast"

\* The first state is fetched; then, whether it came or not, connect().
Start ==
    /\ source = "none"
    /\ source' = "connecting"
    /\ \/ /\ ApplyState(server, FALSE)
          /\ line' = StatusOf(server)
       \/ /\ line' = "error"
          /\ UNCHANGED <<state, viewVars, outlineVars>>
    /\ UNCHANGED <<serverVars, channel, toasts, outage, down, outageEpoch, finished, owned,
                   timers>>

\* The page handles the next event of the stream.
Receive ==
    /\ source = "open" /\ channel # <<>>
    /\ channel' = Tail(channel)
    /\ LET event == Head(channel)
       IN  \/ /\ event.type = "rendering"
              /\ line' = "rendering"
              /\ UNCHANGED <<state, viewVars, outlineVars, toasts>>
           \/ /\ event.type = "state"
              /\ ApplyState(event.state, FALSE)
              /\ line' = StatusOf(event.state)
              /\ UNCHANGED toasts
           \/ /\ event.type = "reloaded"
              /\ ApplyState(event.state, TRUE)
              /\ Toast
    /\ UNCHANGED <<serverVars, monitorVars>>

\* view.load() has ended: it shows its document, unless another was begun.
LoadEnds(l) ==
    /\ loads[l].step = "loading"
    /\ loads' = [loads EXCEPT ![l].step = "ended"]
    /\ view' = IF l = Len(loads) THEN loads[l].url ELSE view
    /\ UNCHANGED <<serverVars, channel, state, loadedUrl, outlineVars, line, toasts, monitorVars>>

LoadRejects(l) ==
    /\ loads[l].step = "loading"
    /\ failures < MaxFailures
    /\ failures' = failures + 1
    /\ loads' = [loads EXCEPT ![l].step = "ended"]
    /\ loadedUrl' = 0
    /\ line' = "loadError"
    /\ UNCHANGED <<server, channel, state, view, outlineVars, toasts, monitorVars>>

\* An outline arrives, or does not: it is taken for that of the render there is
\* now.
Outlined(f) ==
    /\ fetches[f] = "asked"
    /\ fetches' = [fetches EXCEPT ![f] = "ended"]
    /\ \/ /\ loadedFor' = state.doc
          /\ outline' = "headings"
       \/ /\ outline' = "error"
          /\ UNCHANGED loadedFor
    /\ UNCHANGED <<serverVars, channel, state, viewVars, sidebar, line, toasts, monitorVars>>

\* The reader opens or closes the sidebar, which renders as well.
ToggleSidebar ==
    /\ sidebar' = ~sidebar
    /\ Render(state)
    /\ line' = StatusOf(state)
    /\ IF sidebar' THEN LoadOutline(state, loadedFor)
       ELSE UNCHANGED <<loadedFor, outline, fetches>>
    /\ UNCHANGED <<serverVars, channel, state, toasts, monitorVars>>

\* The path is copied, Word is opened, a reload is asked for: a message that
\* clears whatever the line says when its time is up.
Says ==
    /\ Toast
    /\ UNCHANGED <<serverVars, channel, state, viewVars, outlineVars, monitorVars>>

Clears ==
    /\ toasts > 0
    /\ toasts' = toasts - 1
    /\ line' = ""
    /\ UNCHANGED <<serverVars, channel, state, viewVars, outlineVars, monitorVars>>
-----------------------------------------------------------------------------
(* connection-status.mjs.                                                  *)

\* giveUp(): the source is closed, then the reader is told.
GiveUp ==
    /\ finished' = TRUE /\ owned' = TRUE
    /\ source' = "closed"
    /\ line' = "lost"

\* As Connects, for a server that sends its next event first, and for an outage
\* that is still on.
ConnectsBare ==
    /\ source = "connecting" /\ outageEpoch < 2 * MaxOutages + 1
    /\ source' = "open" /\ channel' = <<>>
    /\ down' = FALSE /\ outageEpoch' = outageEpoch + 1 /\ owned' = FALSE
    /\ line' = IF owned THEN "" ELSE line
    /\ UNCHANGED <<serverVars, state, viewVars, outlineVars, toasts, outage, finished, timers>>

ConnectsDown ==
    /\ source = "connecting" /\ outageEpoch < 2 * MaxOutages + 1
    /\ source' = "open" /\ channel' = <<[type |-> "state", state |-> server]>>
    /\ outageEpoch' = outageEpoch + 1 /\ owned' = FALSE
    /\ line' = IF owned THEN "" ELSE line
    /\ UNCHANGED <<serverVars, state, viewVars, outlineVars, toasts, outage, down, finished,
                   timers>>

\* opened(): the server answers with its state.
Connects ==
    /\ source = "connecting"
    /\ source' = "open"
    /\ channel' = <<[type |-> "state", state |-> server]>>
    /\ down' = FALSE /\ outageEpoch' = outageEpoch + 1
    /\ owned' = FALSE
    /\ line' = IF owned THEN "" ELSE line
    /\ outageEpoch < 2 * MaxOutages + 1
    /\ UNCHANGED <<serverVars, state, viewVars, outlineVars, toasts, outage, finished, timers>>

\* failed() of a source that will try again: the first failure starts the clock.
Failed ==
    IF down THEN UNCHANGED <<down, outageEpoch, outage, timers>>
    ELSE /\ outage < MaxOutages
         /\ outage' = outage + 1
         /\ down' = TRUE /\ outageEpoch' = outageEpoch + 1
         /\ timers' = timers \cup
                [what : {"grace", "deadline"}, epoch : {outageEpoch + 1},
                 outage : {outage + 1}]

Drops ==
    /\ source \in {"open", "connecting"} /\ outageEpoch < 2 * MaxOutages
    /\ source' = "connecting"
    /\ channel' = <<>>
    /\ Failed
    /\ UNCHANGED <<serverVars, state, viewVars, outlineVars, line, toasts, finished, owned>>

\* failed() of a source the browser has closed.
Refused ==
    /\ source \in {"open", "connecting"}
    /\ channel' = <<>>
    /\ GiveUp
    /\ UNCHANGED <<serverVars, state, viewVars, outlineVars, toasts, outage, down,
                   outageEpoch, timers>>

\* As Current, for any outage.
CurrentAny(t) == ~finished /\ down

\* Whether a timer is of the outage there is.
Current(t) == ~finished /\ outageEpoch = t.epoch /\ down

\* GRACE_MS is shorter than DEADLINE_MS.
Expires(t) ==
    /\ t \in timers
    /\ timers' = timers \ {t}
    /\ t.what = "grace" \/ [t EXCEPT !.what = "grace"] \notin timers
    /\ \/ /\ Current(t) /\ t.what = "grace"
          /\ line' = "reconnecting" /\ owned' = TRUE
          /\ UNCHANGED <<source, finished, channel>>
       \/ /\ Current(t) /\ t.what = "deadline"
          /\ GiveUp
          /\ channel' = <<>>
       \/ /\ ~Current(t)
          /\ UNCHANGED <<line, owned, source, finished, channel>>
    /\ UNCHANGED <<serverVars, state, viewVars, outlineVars, toasts, outage, down, outageEpoch>>
-----------------------------------------------------------------------------
ServerMoves == Opening \/ Opened \/ Announces \/ Refreshed \/ Fails

Answers == \/ \E l \in DOMAIN loads : LoadEnds(l) \/ LoadRejects(l)
           \/ \E f \in DOMAIN fetches : Outlined(f)

AppNext == \/ ServerMoves \/ Start \/ Receive \/ Answers
        \/ ToggleSidebar \/ Says \/ Clears
        \/ Connects \/ Drops \/ Refused
        \/ \E t \in timers : Expires(t)

AppSpec == AppInit /\ [][AppNext]_appVars
-----------------------------------------------------------------------------
StillLoading == \E l \in DOMAIN loads : loads[l].step = "loading"

\* A connected page that has handled all events shows the server's render, the
\* events of every outage notwithstanding: its view, once no load is under way,
\* shows that render or its last load failed.  A move of the server is over when it
\* has pushed: the awaits of the watcher before that are part of it.
ConnectedPageIsCurrent ==
    source = "open" /\ channel = <<>> =>
        /\ state = server
        /\ state.status # "error" /\ ~StillLoading /\ loadedUrl # 0 => view = server.doc

\* The panel says that it reconnects, or gives up by the clock, only for the
\* outage it is in: a timer of an outage that healed says nothing.
SpeaksOfItsOutage ==
    [][ \/ line' = "reconnecting" /\ line # "reconnecting"
        \/ finished' /\ ~finished /\ timers' # timers
        => \E t \in timers \ timers' : t.outage = outage /\ source = "connecting" ]_appVars

\* A sidebar that is open has asked for the outline of the render on show and has an
\* answer, or says why not: no push leaves it labelled with an older render, or at
\* "Loading", once all is answered.  What the answer says is another matter: it may
\* be of an earlier render and is taken for the one there is now.
OpenOutlineFollows ==
    sidebar /\ (\A f \in DOMAIN fetches : fetches[f] = "ended") =>
        outline = "error" \/ loadedFor = state.doc

\* An outage ends: whatever came before, a clock runs that will end it.
OutageHasADeadline ==
    down /\ ~finished => \E t \in timers : t.what = "deadline" /\ Current(t)
=============================================================================
