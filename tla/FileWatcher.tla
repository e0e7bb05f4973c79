------------------------------ MODULE FileWatcher ------------------------------
(***************************************************************************)
(* The watcher of one panel (src/watcher.mjs): it reports a change of the  *)
(* file once the file holds still, and takes it for seen only when its     *)
(* consumer has taken it.                                                  *)
(*                                                                         *)
(* A fingerprint is the path and the version of the file: mtime and size   *)
(* tell two versions apart, and the files of two paths.  It is read by a   *)
(* stat that is awaited and may fail: the file, the watcher and what is    *)
(* taken for seen can change before the answer is used.  The consumer is   *)
(* the module that extends this one: it says what happens in a delivery,   *)
(* and when watch() and acknowledge() have their answer.                   *)
(***************************************************************************)
EXTENDS Integers

CONSTANTS
    Paths,       \* the documents
    None,
    MaxEvents,   \* bound: writes of the documents, directory events beyond one for
                 \* each write, and failed stats that are recorded
    MaxPolls     \* bound: polls of a settle pass before its deadline, at least one

ASSUME WatcherAssumption ==
    /\ None \notin Paths /\ None \notin Paths \X Nat
    /\ MaxEvents \in Nat /\ MaxPolls \in Nat \ {0}

Versions == Nat
Fingerprints == Paths \X Versions
StableRounds == 2   \* SETTLE_STABLE_ROUNDS

VARIABLES
    file,       \* the version of each document on disk
    news,       \* whether #watcher has directory events of its file to report
    filePath,   \* what the watcher is pointed at, or None
    watching,   \* whether #watcher is there
    lastSeen,   \* the fingerprint taken for seen
    written,    \* whether lastSeen was written since the delivery under way began
    timer,      \* whether the debounce timer is armed
    again,      \* #pendingWhileSettling
    pass,       \* the settle pass under way; #settling while there is one
    handled,    \* history: what a consumer took, an acknowledge or a watch recorded
    late,       \* history: what was recorded for seen when the file was not so any more
    events      \* how many of the events that MaxEvents bounds there were

diskVars == <<file, news, events>>
watcherVars == <<filePath, watching, lastSeen, written, timer, again, pass, handled,
                 late>>

NoPass == [at |-> "none", path |-> None, previous |-> None, rounds |-> 0, polls |-> 0,
           before |-> None]

WatcherTypeOK ==
    LET Prints == Fingerprints \cup {None}
    IN  /\ file \in [Paths -> Versions] /\ news \in BOOLEAN
        /\ filePath \in Paths \cup {None} /\ lastSeen \in Prints
        /\ {watching, written, timer, again} \subseteq BOOLEAN
        /\ handled \subseteq Prints /\ late \subseteq Prints
        /\ events \in 0..MaxEvents
        /\ pass \in [at : {"none", "polling", "settled", "delivering"},
                     path : Paths \cup {None}, previous : Prints,
                     rounds : 0..StableRounds - 1, polls : 0..MaxPolls - 1, before : Prints]

\* A watcher that is new (p = None), or was pointed at p and has come to rest.
WatcherInit(p) ==
    /\ file = [q \in Paths |-> 0] /\ news = FALSE
    /\ filePath = p /\ watching = (p # None)
    /\ lastSeen = IF p = None THEN None ELSE <<p, 0>>
    /\ written = FALSE /\ timer = FALSE /\ again = FALSE
    /\ pass = NoPass /\ handled = {None, lastSeen} /\ late = {} /\ events = 0

Settling == pass.at # "none"

Fingerprint(p) == <<p, file[p]>>

\* What the file of the watcher is.
Current == IF filePath = None THEN None ELSE Fingerprint(filePath)

\* #fingerprint: what a stat answers that was asked when the file was so.  It reads
\* the file at some time up to now, or fails.
Answers(asked) ==
    {None} \cup IF asked = None THEN {}
               ELSE {<<asked[1], v>> : v \in asked[2]..file[asked[1]]}
-----------------------------------------------------------------------------
OneMore == events < MaxEvents /\ events' = events + 1

\* The file changes: if it is watched, directory events are on their way.
Write(p) ==
    /\ OneMore
    /\ file' = [file EXCEPT ![p] = @ + 1]
    /\ news' = (news \/ (watching /\ filePath = p))

\* #schedule, on the flags given as they are now.
Schedule(armed, settling, pending) ==
    IF settling THEN again' = TRUE /\ timer' = armed
                ELSE timer' = TRUE /\ again' = pending

\* A directory event of the file watched, one of those that report a write; more of
\* them may follow.
DirectoryEvent ==
    /\ news
    /\ \/ news' = FALSE /\ UNCHANGED events
       \/ news' = TRUE /\ OneMore
    /\ Schedule(timer, Settling, again)
    /\ UNCHANGED <<file, filePath, watching, lastSeen, written, pass, handled, late>>

\* The debounce is over: a settle pass begins with a first fingerprint.
Fire ==
    /\ timer
    /\ timer' = FALSE
    /\ \E print \in Answers(Current) :
           pass' = [NoPass EXCEPT !.at = "polling", !.path = filePath, !.previous = print]
    /\ UNCHANGED <<diskVars, filePath, watching, lastSeen, written, again, handled, late>>

\* #markSeen: the one place lastSeen is written.
MarkSeen(print) ==
    /\ lastSeen' = print /\ written' = (pass.at = "delivering")
    /\ late' = (late \cap {lastSeen, pass.before}) \cup ({print} \ {None, Current})

\* acknowledge() and the first fingerprint of watch(): what their stat answers is
\* recorded, whatever happened since it was asked.
Acknowledge(asked) ==
    \E print \in Answers(asked) :
        /\ MarkSeen(print)
        /\ handled' = handled \cup {print}
        /\ IF print = None THEN OneMore ELSE UNCHANGED events

\* The pass is over; what came meanwhile is settled next, unless the watcher was
\* closed on the way.
EndPass ==
    /\ pass' = NoPass
    /\ again' = FALSE
    /\ timer' = (timer \/ (again /\ watching))

\* A poll: the file was still, still once more, or moving.  After the last one, stable
\* or at the deadline, the pass has settled on what it read.
Poll ==
    /\ pass.at = "polling"
    /\ \E current \in Answers(Current) :
           LET still == current # None /\ current = pass.previous
               rounds == IF still THEN pass.rounds + 1 ELSE 0
           IN  pass' = IF rounds = StableRounds \/ pass.polls + 1 = MaxPolls
                       THEN [NoPass EXCEPT !.at = "settled", !.path = pass.path,
                                           !.previous = current]
                       ELSE [pass EXCEPT !.previous = current, !.rounds = rounds,
                                         !.polls = @ + 1]
    /\ UNCHANGED <<diskVars, filePath, watching, lastSeen, written, timer, again, handled,
                   late>>

\* The watcher was pointed elsewhere, the file is not there, or it is as it was seen:
\* there is nothing to deliver.
NothingNew == \/ pass.previous \in {None, lastSeen}
              \/ filePath # pass.path

Drop ==
    /\ pass.at = "settled" /\ NothingNew
    /\ EndPass
    /\ UNCHANGED <<diskVars, filePath, watching, lastSeen, written, handled, late>>

\* #deliver: marked as seen before the consumer is called.
Deliver ==
    /\ pass.at = "settled" /\ ~NothingNew
    /\ pass' = [pass EXCEPT !.at = "delivering", !.before = lastSeen]
    /\ MarkSeen(pass.previous)
    /\ UNCHANGED <<diskVars, filePath, watching, timer, again, handled>>

\* The consumer took the change.
Consumed ==
    /\ handled' = handled \cup {pass.previous}
    /\ EndPass
    /\ written' = FALSE
    /\ UNCHANGED <<filePath, watching, lastSeen, late>>

\* As Refused, with nothing put back, and with the fingerprint put back over
\* whatever was recorded meanwhile.
RefusedForgets ==
    /\ written' = FALSE
    /\ EndPass
    /\ UNCHANGED <<filePath, watching, lastSeen, handled, late>>

RefusedOverwrites ==
    /\ lastSeen' = IF filePath = pass.path THEN pass.before ELSE lastSeen
    /\ written' = FALSE
    /\ EndPass
    /\ UNCHANGED <<filePath, watching, handled, late>>

\* The consumer refused it: it is put back, unless lastSeen was written since.
Refused ==
    /\ lastSeen' = IF filePath = pass.path /\ ~written THEN pass.before ELSE lastSeen
    /\ written' = FALSE
    /\ EndPass
    /\ UNCHANGED <<filePath, watching, handled, late>>

\* close().
CloseWatcher == timer' = FALSE /\ watching' = FALSE /\ news' = FALSE

\* watch() of another document, up to its fingerprint, and after it.
PointAt(p) ==
    /\ CloseWatcher
    /\ filePath' = p
    /\ UNCHANGED <<lastSeen, written, again, pass, handled, late>>

BeginWatching(asked) ==
    /\ Acknowledge(asked)
    /\ watching' = TRUE
    /\ UNCHANGED <<filePath, timer, again, pass>>
-----------------------------------------------------------------------------
\* What an attached watcher takes for seen of its file was taken by its consumer,
\* acknowledged, or there when it was pointed at the file: a change whose
\* consumer fails stays pending.
SeenWasHandled ==
    watching /\ lastSeen # None =>
        \/ pass.at = "delivering" \/ lastSeen[1] # filePath
        \/ lastSeen \in handled

\* A change that was handled is not delivered again: the echo of our own save does
\* not loop, whatever a failed delivery puts back.  It is only where the watcher has
\* nothing for seen, a stat having failed, or where a stat answered late: the file had
\* moved on from what is delivered, or from what is taken for seen, when it was recorded.
NoEcho ==
    [][watching /\ pass.at # "delivering" /\ pass'.at = "delivering" =>
           lastSeen' \notin handled \/ lastSeen = None
               \/ {lastSeen, lastSeen'} \cap late' # {}]_watcherVars
=============================================================================
