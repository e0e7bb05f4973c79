------------------------------- MODULE WordHost -------------------------------
(***************************************************************************)
(* The Node side of the Word bridge (src/word/word-host.mjs): the child    *)
(* process that runs word-host.ps1, the table of pending requests, and     *)
(* what happens to both when a request times out, the child exits, or the  *)
(* host is disposed.                                                       *)
(*                                                                         *)
(* A request is one call of the bridge about one document.  A child is a   *)
(* number, free again once its exit event is handled; a Word is named by   *)
(* the child that started it.  A frame is a line of JSON a child has not   *)
(* answered.  Its id is the pair of its sender and its child: once an      *)
(* entry has left the pending table unanswered, its sender never writes to *)
(* the same process again, and an exit event clears the table.             *)
(*                                                                         *)
(* Node runs every continuation of a settled promise before it handles the *)
(* next event.  Quiet says that none is left to run.                       *)
(***************************************************************************)
EXTENDS Integers, Sequences, FiniteSets

CONSTANTS
    Requests,     \* calls of the bridge
    Starter,      \* the ping that ends a start; it belongs to no call
    Disposer,     \* dispose()
    Kinds,        \* what is ever asked of the bridge; all of AllKinds in general
    MaxChildren,  \* bound: child processes at one time
    MaxDeaths     \* bound: children that end by themselves

Actors == Requests \cup {Starter, Disposer}
NoChild == 0
Children == 1..MaxChildren

\* read stands for the requests that are replayed (export, structure, search,
\* text, ...), write for edit and create, which are not.
AllKinds == {"open", "read", "write", "close"}
Commands == AllKinds \cup {"ping", "quit"}
Outcomes == {"ok", "lost", "refused"}   \* lost: an error request() may recover from

ASSUME HostAssumption ==
    /\ Starter \notin Requests /\ Disposer \notin Requests /\ Starter # Disposer
    /\ Kinds \subseteq AllKinds
    /\ MaxChildren \in Nat /\ MaxDeaths \in Nat

VARIABLES
    child,      \* #child, or NoChild
    starting,   \* whether #starting is a promise
    ownedPid,   \* the Word this process would reap, or NoChild
    disposed,   \* #disposed
    openArgs,   \* whether #openArgs has the document
    pending,    \* #pending: the child each actor's frame was written to
    at,         \* where each actor stands: resting, booting (awaits #starting),
                \* started (the start it awaited is over), waiting (its frame is
                \* pending), or how the frame was settled
    stage,      \* what each request is about: its own frame, or one of those it
                \* sends besides (learn, reopen, reping, again)
    phase,      \* how far dispose() has come
    proc,       \* each child process: alive; ended, its exit event not yet
                \* delivered; or none
    lines,      \* the frames each child has not answered
    docs,       \* the children that were told to open the document
    deaths,     \* how many children have ended by themselves
    killed      \* history: whether #kill has ever let go of a child

fieldVars == <<child, starting, ownedPid, disposed, openArgs>>
actorVars == <<pending, at>>
childVars == <<proc, lines, docs, deaths, killed>>
vars == <<fieldVars, actorVars, stage, phase, childVars>>

Stages == {"idle", "learn", "reopen", "reping", "again", "done"} \cup AllKinds
Frame == [from : Actors, command : Commands]

\* Types, and the two views of who is waiting: the actors' and #pending's.
TypeOK ==
    /\ child \in 0..MaxChildren /\ ownedPid \in 0..MaxChildren
    /\ starting \in BOOLEAN /\ disposed \in BOOLEAN /\ openArgs \in BOOLEAN
    /\ pending \in [Actors -> 0..MaxChildren]
    /\ at \in [Actors -> {"resting", "booting", "started", "waiting"} \cup Outcomes]
    /\ stage \in [Requests -> Stages]
    /\ phase \in {"no", "quitting", "exiting", "done"}
    /\ proc \in [Children -> {"none", "alive", "ended"}]
    /\ lines \in [Children -> Seq(Frame)]
    /\ docs \in SUBSET Children /\ killed \in BOOLEAN
    /\ deaths \in 0..MaxDeaths
    /\ \A a \in Actors : at[a] = "waiting" <=> pending[a] # NoChild

Init ==
    /\ child = NoChild /\ starting = FALSE /\ ownedPid = NoChild
    /\ disposed = FALSE /\ openArgs = FALSE
    /\ pending = [a \in Actors |-> NoChild]
    /\ at = [a \in Actors |-> "resting"]
    /\ stage = [r \in Requests |-> "idle"]
    /\ phase = "no"
    /\ proc = [k \in Children |-> "none"]
    /\ lines = [k \in Children |-> <<>>]
    /\ docs = {} /\ deaths = 0 /\ killed = FALSE
-----------------------------------------------------------------------------
(* Sending a frame.                                                        *)

\* A continuation that Node runs before the next event.
Runnable(a) == at[a] \in Outcomes \cup {"started"}

Quiet == \A a \in Actors : ~Runnable(a)

Settle(a, o) == at' = [at EXCEPT ![a] = o]

\* The part of #send after its await.  A write to a process that has ended is
\* lost; without a child it throws.
Write(a, command) ==
    \/ /\ child = NoChild
       /\ Settle(a, "lost")
       /\ UNCHANGED <<pending, lines>>
    \/ /\ child # NoChild
       /\ pending' = [pending EXCEPT ![a] = child]
       /\ lines' = IF proc[child] = "alive"
                   THEN [lines EXCEPT
                            ![child] = Append(@, [from |-> a, command |-> command])]
                   ELSE lines
       /\ at' = [at EXCEPT ![a] = "waiting"]

\* #ensureStarted begins a start, whose ping is the child's first frame.
Spawn(a) ==
    \E new \in Children :
        /\ proc[new] = "none" /\ \A k \in 1..(new - 1) : proc[k] # "none"
        /\ child' = new /\ starting' = TRUE
        /\ proc' = [proc EXCEPT ![new] = "alive"]
        /\ lines' = [lines EXCEPT ![new] = <<[from |-> Starter, command |-> "ping"]>>]
        /\ pending' = [pending EXCEPT ![Starter] = new]
        /\ at' = [at EXCEPT ![Starter] = "waiting", ![a] = "booting"]

\* Mutant: #ensureStarted does not ask whether a child is running.
SendAfterStart(a, command) ==
    /\ \/ disposed /\ Settle(a, "lost")
          /\ UNCHANGED <<pending, lines, child, starting, proc>>
       \/ ~disposed /\ starting
          /\ at' = [at EXCEPT ![a] = "booting"]
          /\ UNCHANGED <<pending, lines, child, starting, proc>>
       \/ ~disposed /\ ~starting /\ Spawn(a)
    /\ UNCHANGED <<docs, deaths, killed>>

\* #send up to its first await that really waits: refused by a disposed host,
\* written to a running child, or behind a start, its own or one under way.
Send(a, command) ==
    /\ \/ disposed /\ Settle(a, "lost")
          /\ UNCHANGED <<pending, lines, child, starting, proc>>
       \/ ~disposed /\ child # NoChild /\ Write(a, command)
          /\ UNCHANGED <<child, starting, proc>>
       \/ ~disposed /\ child = NoChild /\ starting
          /\ at' = [at EXCEPT ![a] = "booting"]
          /\ UNCHANGED <<pending, lines, child, starting, proc>>
       \/ ~disposed /\ child = NoChild /\ ~starting /\ Spawn(a)
    /\ UNCHANGED <<docs, deaths, killed>>

\* What a request sends at stage s.
FrameOf(s) ==
    CASE s \in {"learn", "reping"} -> "ping"
      [] s = "reopen" -> "open"
      [] s = "again" -> "read"
      [] OTHER -> s

\* The start is over: the frame goes to whatever child there is now.
Resume(r) ==
    /\ at[r] = "started"
    /\ Write(r, FrameOf(stage[r]))
    /\ UNCHANGED <<fieldVars, stage, phase, proc, docs, deaths, killed>>

\* The ping of a start has settled, either way: the start is over, for all who
\* await it.
StartEnds ==
    /\ at[Starter] \in Outcomes
    /\ starting' = FALSE
    /\ at' = [a \in Actors |-> IF a = Starter THEN "resting"
                              ELSE IF at[a] = "booting" THEN "started" ELSE at[a]]
    /\ UNCHANGED <<child, ownedPid, disposed, openArgs, pending, stage, phase, childVars>>
-----------------------------------------------------------------------------
(* The calls.                                                              *)

\* The call settles.
Done(r) ==
    /\ at' = [at EXCEPT ![r] = "resting"]
    /\ stage' = [stage EXCEPT ![r] = "done"]
    /\ UNCHANGED <<pending, child, starting, childVars>>

Go(r, s) ==
    /\ stage' = [stage EXCEPT ![r] = s]
    /\ Send(r, FrameOf(s))

\* A call is made.  closeDocument forgets the document first, and starts nothing.
Begin(r, k) ==
    /\ stage[r] = "idle"
    /\ openArgs' = (openArgs /\ k # "close")
    /\ IF k = "close" /\ child = NoChild THEN Done(r) ELSE Go(r, k)
    /\ UNCHANGED <<ownedPid, disposed, phase>>

\* openDocument remembers a document that was opened, and asks for the Word it
\* owns if the start did not learn it.
Opened(r) ==
    /\ stage[r] = "open" /\ at[r] = "ok"
    /\ openArgs' = TRUE
    /\ IF ownedPid = NoChild THEN Go(r, "learn") ELSE Done(r)
    /\ UNCHANGED <<ownedPid, disposed, phase>>

Recoverable(r) == stage[r] = "read" /\ at[r] = "lost" /\ openArgs

\* request() recovers: it replays the open, asks for the Word again, whatever
\* the answer, and sends its own frame once more.
Recover(r) ==
    /\ at[r] \in Outcomes
    /\ \/ Recoverable(r) /\ Go(r, "reopen")
       \/ stage[r] = "reopen" /\ at[r] = "ok" /\ Go(r, "reping")
       \/ stage[r] = "reping" /\ Go(r, "again")
    /\ UNCHANGED <<ownedPid, disposed, openArgs, phase>>

\* Nothing is left to send.
Return(r) ==
    /\ at[r] \in Outcomes
    /\ \/ stage[r] \in {"write", "close", "learn", "again"}
       \/ stage[r] \in {"open", "reopen"} /\ at[r] # "ok"
       \/ stage[r] = "read" /\ ~Recoverable(r)
    /\ Done(r)
    /\ UNCHANGED <<ownedPid, disposed, openArgs, phase>>
-----------------------------------------------------------------------------
(* dispose().                                                              *)

\* Without a child there is nothing to quit, and the Word that may be left is
\* reaped; otherwise the quit goes out like any other frame.
Dispose ==
    /\ phase = "no"
    /\ openArgs' = FALSE
    /\ \/ /\ child = NoChild
          /\ disposed' = TRUE /\ ownedPid' = NoChild /\ phase' = "done"
          /\ UNCHANGED <<child, starting, actorVars, childVars>>
       \/ /\ child # NoChild
          /\ phase' = "quitting"
          /\ Send(Disposer, "quit")
          /\ UNCHANGED <<disposed, ownedPid>>
    /\ UNCHANGED stage

\* The quit has settled.  Only a quit that was answered forgets the Word.
QuitSettled ==
    /\ at[Disposer] \in Outcomes
    /\ ownedPid' = IF at[Disposer] = "ok" THEN NoChild ELSE ownedPid
    /\ disposed' = TRUE
    /\ phase' = "exiting"
    /\ at' = [at EXCEPT ![Disposer] = "resting"]
    /\ UNCHANGED <<pending, child, starting, openArgs, stage, childVars>>

\* #kill: the current child is terminated and forgotten.
Kill ==
    /\ child' = NoChild
    /\ proc' = [k \in Children |->
                    IF k = child /\ proc[k] = "alive" THEN "ended" ELSE proc[k]]
    /\ killed' = (killed \/ child # NoChild)

\* Mutant: dispose() waits for the child and does not terminate it.
DisposeEndsGently ==
    /\ phase = "exiting"
    /\ phase' = "done"
    /\ UNCHANGED <<fieldVars, actorVars, stage, childVars>>

\* The child that was told to quit has exited, or five seconds have passed.
DisposeEnds ==
    /\ phase = "exiting"
    /\ phase' = "done"
    /\ Kill
    /\ UNCHANGED <<starting, ownedPid, disposed, openArgs, actorVars, stage, lines,
                   docs, deaths>>
-----------------------------------------------------------------------------
(* The child and its timers.                                               *)

\* What child k may answer.
Replies(k, command) ==
    CASE command \in {"close", "quit"} -> {"ok"}
      [] command = "ping" -> {"ok", "lost"}
      [] command = "read" /\ k \notin docs -> {"lost"}
      [] OTHER -> Outcomes

\* Child k answers its oldest frame, or an answer it gave before it ended
\* arrives.  An answer nobody is waiting for any more changes nothing here.  A
\* ping tells which Word the child owns, if it can prove it.
Answer(k) ==
    /\ Quiet
    /\ proc[k] \in {"alive", "ended"} /\ lines[k] # <<>>
    /\ LET frame == Head(lines[k])
           command == frame.command
           expected == pending[frame.from] = k
       IN \E o \in Replies(k, command), pid \in {NoChild, k} :
            /\ docs' = IF command = "open" /\ o = "ok" THEN docs \cup {k}
                       ELSE IF command = "close" THEN docs \ {k}
                       ELSE docs
            /\ IF command = "quit"
               THEN /\ proc' = [proc EXCEPT ![k] = "ended"]
                    /\ lines' = [lines EXCEPT ![k] = <<>>]
               ELSE /\ lines' = [lines EXCEPT ![k] = Tail(@)]
                    /\ UNCHANGED proc
            /\ ownedPid' = IF expected /\ command = "ping" /\ o = "ok" THEN pid
                           ELSE ownedPid
            /\ IF expected
               THEN Settle(frame.from, o)
                    /\ pending' = [pending EXCEPT ![frame.from] = NoChild]
               ELSE UNCHANGED actorVars
    /\ UNCHANGED <<child, starting, disposed, openArgs, stage, phase, deaths, killed>>

\* The timer of a frame fires: the entry goes, and the current child with it,
\* whichever child the frame was written to.
TimesOut(a) ==
    /\ Quiet
    /\ pending[a] # NoChild
    /\ pending' = [pending EXCEPT ![a] = NoChild]
    /\ Settle(a, "lost")
    /\ Kill
    /\ UNCHANGED <<starting, ownedPid, disposed, openArgs, stage, phase, lines, docs,
                   deaths>>

\* A child ends by itself.
ChildDies(k) ==
    /\ proc[k] = "alive" /\ deaths < MaxDeaths
    /\ deaths' = deaths + 1
    /\ proc' = [proc EXCEPT ![k] = "ended"]
    /\ UNCHANGED <<fieldVars, actorVars, stage, phase, lines, docs, killed>>

\* #onExit but for what it does to ownedPid and to the waiting: it forgets the
\* current child and empties #pending, whichever child has exited.
Exited(k) ==
    /\ Quiet
    /\ proc[k] = "ended"
    /\ proc' = [proc EXCEPT ![k] = "none"]
    /\ lines' = [lines EXCEPT ![k] = <<>>]
    /\ docs' = docs \ {k}
    /\ child' = NoChild
    /\ pending' = [a \in Actors |-> NoChild]
    /\ UNCHANGED <<starting, disposed, openArgs, stage, phase, deaths, killed>>

RejectAll == at' = [a \in Actors |-> IF pending[a] # NoChild THEN "lost" ELSE at[a]]

\* Mutant: the Word that was reaped is not forgotten.
ExitEventKeepsPid(k) == Exited(k) /\ RejectAll /\ UNCHANGED ownedPid

\* Mutant: the table is emptied before #rejectAll goes through it.
ExitEventClears(k) == Exited(k) /\ ownedPid' = NoChild /\ UNCHANGED at

\* The exit event of child k: the Word this process knows of is reaped, and every
\* pending frame is rejected.
ExitEvent(k) == Exited(k) /\ ownedPid' = NoChild /\ RejectAll
-----------------------------------------------------------------------------
Continue(r) == Resume(r) \/ Opened(r) \/ Recover(r) \/ Return(r)

Next ==
    \/ \E r \in Requests, k \in Kinds : Begin(r, k)
    \/ \E r \in Requests : Continue(r)
    \/ StartEnds \/ Dispose \/ QuitSettled \/ DisposeEnds
    \/ \E a \in Actors : TimesOut(a)
    \/ \E k \in Children : Answer(k) \/ ChildDies(k) \/ ExitEvent(k)

Spec == Init /\ [][Next]_vars

\* Continuations run, timers fire, and the exit of a process that has ended is
\* reported.  Nothing makes a child answer.
Progress ==
    \/ \E r \in Requests : Continue(r)
    \/ StartEnds \/ QuitSettled \/ DisposeEnds
    \/ \E a \in Actors : TimesOut(a)
    \/ \E k \in Children : ExitEvent(k)

FairSpec == Spec /\ WF_vars(Progress)
-----------------------------------------------------------------------------
(* Correctness.                                                            *)

Alive == {k \in Children : proc[k] = "alive"}

\* The Word this process would reap never outlives the report of its child's
\* exit: from then on its pid may belong to somebody else.
PidIsNotRecycled == ownedPid # NoChild => proc[ownedPid] # "none"

\* As long as no child was let go of, by a timeout or by dispose(), the only
\* child that runs is the one requests are written to.
OneChildUntilATimeout == ~killed => Alive \subseteq {child}

\* Once dispose() has returned nothing is spawned or written, not even for a
\* call that was waiting for a start.
DisposeIsFinal ==
    [][phase = "done" =>
          /\ child' = NoChild
          /\ \A k \in Children : proc[k] = "none" => proc'[k] = "none"
          /\ \A a \in Actors : pending'[a] \in {pending[a], NoChild}]_vars

Unsettled == (\E r \in Requests : stage[r] \notin {"idle", "done"}) \/ phase = "quitting"

\* Whatever the children do, every call settles, and so does dispose(): there are
\* finitely many calls, and one that has settled stays so, so each of them does.
EveryCallSettles == Unsettled ~> ~Unsettled

\* Stated by word-host.mjs: the bridge owns a single PowerShell child.
OneChild == Cardinality(Alive) <= 1
=============================================================================
