------------------------------ MODULE WordProcess ------------------------------
(***************************************************************************)
(* Which Word processes a PowerShell host may hide, quit or kill, and how  *)
(* a Word whose host died is found again (src/word/word-host.ps1, and the  *)
(* reaping in src/word/word-host.mjs).  Windows gives the id of a process  *)
(* that has ended to another, so a Word is its pid and its start time.     *)
(*                                                                         *)
(* A host runs one command at a time; what it does between two of its      *)
(* looks at other processes or at the ledger is one step, and so is the    *)
(* kill, whose checks are made on a handle that pins the pid.  Anybody may *)
(* start or end a Word, and another host may act, between two such steps.  *)
(***************************************************************************)
EXTENDS Integers, FiniteSets

CONSTANTS
    Hosts,       \* the PowerShell hosts, numbered in the order they start
    Pids,
    None,
    User,        \* whoever starts a Word that is not ours
    MaxStarts    \* bound: Words that are ever started

NoStart == 0   \* a start time that could not be read
Starts == 1..MaxStarts
Words == [pid : Pids, start : Starts, by : Hosts \cup {User}]
Identities == [pid : Pids, start : Starts \cup {NoStart}]

ASSUME ProcessAssumption ==
    /\ Hosts \subseteq Nat /\ User \notin Hosts
    /\ None \notin Pids /\ None \notin Words /\ None \notin Identities
    /\ MaxStarts \in Nat

VARIABLES
    running,      \* the Words that run
    clock,        \* the start time of the last Word
    at,           \* where each host stands
    hostPid,      \* the pid of each host
    todo,         \* the files of the ledger its sweep has still to look at
    swept,        \* the file it has in hand, of a host that it found dead
    app,          \* $script:App: the Word behind the handle of the host
    before,       \* the Words that ran when it was about to create its own
    owned,        \* $script:OwnedPid and OwnedStart
    attribution,  \* $script:Attribution
    ledger,       \* the content of $PidDir\<pid>.pid
    deeds,        \* history: what hosts did to Words that others started
    traced,       \* history: Words written to the ledger by the host that started and
                  \* has them, and that no kill has left alone
    mistaken,     \* history: Words whose start time was taken for that of another
    slipped       \* history: running Words handed out that the census had missed

hostVars == <<at, hostPid, todo, swept, app, before, owned, attribution>>
history == <<deeds, traced, mistaken, slipped>>
vars == <<running, clock, hostVars, ledger, history>>

TypeOK ==
    /\ running \subseteq Words /\ clock \in 0..MaxStarts
    /\ at \in [Hosts -> {"none", "sweeping", "orphaned", "removing", "ready", "creating",
                         "attributing", "learning", "registering", "killing",
                         "unregistering", "gone"}]
    /\ hostPid \in [Hosts -> Pids \cup {None}]
    /\ todo \in [Hosts -> SUBSET Pids]
    /\ swept \in [Hosts -> Pids \cup {None}]
    /\ app \in [Hosts -> Words \cup {None}]
    /\ before \in [Hosts -> SUBSET Words]
    /\ owned \in [Hosts -> Identities \cup {None}]
    /\ attribution \in [Hosts -> {"word_not_started", "unattributed", "attached", "hwnd"}]
    /\ ledger \in [Pids -> Identities \cup {None}]
    /\ deeds \subseteq [what : {"hide", "quit", "quit blindly", "kill"},
                        host : Hosts, word : Words]
    /\ traced \subseteq Words /\ mistaken \subseteq Words /\ slipped \subseteq Words

Init ==
    /\ running = {} /\ clock = 0
    /\ at = [h \in Hosts |-> "none"]
    /\ hostPid = [h \in Hosts |-> None]
    /\ todo = [h \in Hosts |-> {}]
    /\ swept = [h \in Hosts |-> None]
    /\ app = [h \in Hosts |-> None]
    /\ before = [h \in Hosts |-> {}]
    /\ owned = [h \in Hosts |-> None]
    /\ attribution = [h \in Hosts |-> "word_not_started"]
    /\ ledger = [p \in Pids |-> None]
    /\ deeds = {} /\ traced = {} /\ mistaken = {} /\ slipped = {}
-----------------------------------------------------------------------------
(* Processes.                                                              *)

Identity(w) == [pid |-> w.pid, start |-> w.start]

Lives(h) == at[h] \notin {"none", "gone"}

\* Get-Process: the pids of the processes that run.
Alive == {w.pid : w \in running} \cup {hostPid[h] : h \in {g \in Hosts : Lives(g)}}

\* A Word of owner o starts, under any pid that is free.
Start(w, o) ==
    /\ clock < MaxStarts
    /\ clock' = clock + 1
    /\ w \in [pid : Pids \ Alive, start : {clock + 1}, by : {o}]
    /\ running' = running \cup {w}

\* Somebody starts a Word, or a program of his does.
UserStartsWord ==
    /\ \E w \in Words : Start(w, User)
    /\ UNCHANGED <<hostVars, ledger, history>>

\* A Word ends: it was closed or quit, it crashed, or the bridge of a host that died
\* ended what had the pid that it remembers, whosever Word it is by then.
WordEnds(w) ==
    /\ w \in running
    /\ running' = running \ {w}
    /\ UNCHANGED <<clock, hostVars, ledger, history>>

Go(h, step) == at' = [at EXCEPT ![h] = step]

\* A host does something to the Words W.
Did(what, h, W) ==
    deeds' = deeds \cup [what : {what}, host : {h}, word : {w \in W : w.by # h}]

\* Mutant: any Word that has the pid by now.
TargetByPid(id) == {w \in running : w.pid = id.pid}

\* The Word that has that pid and start.
Target(id) == {w \in running : Identity(w) = id}

\* Stop-VerifiedWord: it kills the Word of that pid and start, or declines, since
\* the handle cannot be opened or the process cannot be terminated.
StopVerifiedWord(h, id) ==
    LET W == Target(id) IN
    \/ running' = running \ W /\ Did("kill", h, W) /\ UNCHANGED traced
    \/ W # {} /\ traced' = traced \ W /\ UNCHANGED <<running, deeds>>
-----------------------------------------------------------------------------
(* A host starts, and sweeps.                                              *)

StartHost(h) ==
    /\ at[h] = "none" /\ \A g \in Hosts : g < h => at[g] # "none"
    /\ \E p \in Pids \ Alive : hostPid' = [hostPid EXCEPT ![h] = p]
    /\ todo' = [todo EXCEPT ![h] = {p \in Pids : ledger[p] # None}]
    /\ Go(h, "sweeping")
    /\ UNCHANGED <<running, clock, swept, app, before, owned, attribution, ledger,
                   history>>

\* Clear-OrphanedWord looks at one file.  It is passed over while a process has the
\* pid that wrote it: its host, one that came after it or this one.
SweepFinds(h) ==
    /\ at[h] = "sweeping"
    /\ \E p \in todo[h] :
           /\ todo' = [todo EXCEPT ![h] = @ \ {p}]
           /\ \/ p \in Alive /\ UNCHANGED <<at, swept>>
              \/ p \notin Alive /\ swept' = [swept EXCEPT ![h] = p] /\ Go(h, "orphaned")
    /\ UNCHANGED <<running, clock, hostPid, app, before, owned, attribution, ledger,
                   history>>

\* Mutant: the file is removed before it is read, so that nobody ends the Word in it.
SweepTakesFile(h) ==
    /\ at[h] = "orphaned"
    /\ ledger' = [ledger EXCEPT ![swept[h]] = None]
    /\ Go(h, "removing")
    /\ UNCHANGED <<running, clock, hostPid, todo, swept, app, before, owned,
                   attribution, history>>

\* It reads the file, which may be gone by now, or written anew by a host that got
\* the pid since; a file that cannot be read is a kill declined.
SweepStops(h) ==
    /\ at[h] = "orphaned"
    /\ \/ ledger[swept[h]] = None /\ UNCHANGED <<running, deeds, traced>>
       \/ ledger[swept[h]] # None /\ StopVerifiedWord(h, ledger[swept[h]])
    /\ Go(h, "removing")
    /\ UNCHANGED <<clock, hostPid, todo, swept, app, before, owned, attribution, ledger,
                   mistaken, slipped>>

\* The file is removed, whatever came of the Word, unless that fails.
SweepRemoves(h) ==
    /\ at[h] = "removing"
    /\ ledger' \in {ledger, [ledger EXCEPT ![swept[h]] = None]}
    /\ swept' = [swept EXCEPT ![h] = None]
    /\ Go(h, "sweeping")
    /\ UNCHANGED <<running, clock, hostPid, todo, app, before, owned, attribution,
                   history>>

SweepEnds(h) ==
    /\ at[h] = "sweeping" /\ todo[h] = {}
    /\ Go(h, "ready")
    /\ UNCHANGED <<running, clock, hostPid, todo, swept, app, before, owned,
                   attribution, ledger, history>>
-----------------------------------------------------------------------------
(* Initialize-Word, as every command that needs Word calls it.             *)

\* Test-AppAlive says no: there is no Word, it died underneath, or it runs and the
\* call was refused.  What was known of it is dropped, and the Words that run are
\* counted.
InitializeWord(h) ==
    /\ at[h] = "ready"
    /\ app' = [app EXCEPT ![h] = None]
    /\ owned' = [owned EXCEPT ![h] = None]
    /\ attribution' = [attribution EXCEPT ![h] = "word_not_started"]
    /\ traced' = traced \ {app[h]}
    /\ before' = [before EXCEPT ![h] = running]
    /\ Go(h, "creating")
    /\ UNCHANGED <<running, clock, hostPid, todo, swept, ledger, deeds, mistaken,
                   slipped>>

\* New-Object starts a Word, or hands out one that runs, be it that it has started
\* since the others were counted, or fails.
CreateWord(h) ==
    /\ at[h] = "creating"
    /\ \/ \E w \in Words : /\ Start(w, h)
                           /\ app' = [app EXCEPT ![h] = w]
                           /\ Go(h, "attributing") /\ UNCHANGED slipped
       \/ \E w \in running : /\ app' = [app EXCEPT ![h] = w]
                             /\ slipped' = slipped \cup ({w} \ before[h])
                             /\ Go(h, "attributing") /\ UNCHANGED <<running, clock>>
       \/ Go(h, "ready") /\ UNCHANGED <<running, clock, app, slipped>>
    /\ UNCHANGED <<hostPid, todo, swept, before, owned, attribution, ledger, deeds,
                   traced, mistaken>>

\* Get-AttributedWordPid, through the window of a scratch document, which a Word
\* that says it can be seen is spared and which may fail; then the census.
Attribute(h) ==
    /\ at[h] = "attributing"
    /\ \/ /\ attribution' = [attribution EXCEPT ![h] = "unattributed"]
          /\ Go(h, "ready") /\ UNCHANGED owned
       \/ /\ app[h] \in running
          /\ IF \E w \in before[h] : w.pid = app[h].pid
             THEN /\ attribution' = [attribution EXCEPT ![h] = "attached"]
                  /\ Go(h, "ready") /\ UNCHANGED owned
             ELSE /\ owned' = [owned EXCEPT
                                   ![h] = [pid |-> app[h].pid, start |-> NoStart]]
                  /\ Go(h, "learning") /\ UNCHANGED attribution
    /\ before' = [before EXCEPT ![h] = {}]
    /\ UNCHANGED <<running, clock, hostPid, todo, swept, app, ledger, history>>

\* Get-WordStartTime, of whatever Word has the pid by now.
LearnStart(h) ==
    /\ at[h] = "learning"
    /\ LET W == {w \in running : w.pid = owned[h].pid} IN
       \/ \E w \in W : /\ owned' = [owned EXCEPT ![h] = Identity(w)]
                       /\ mistaken' = mistaken \cup ({w} \ {app[h]})
       \/ UNCHANGED <<owned, mistaken>>
    /\ attribution' = [attribution EXCEPT ![h] = "hwnd"]
    /\ Go(h, "registering")
    /\ UNCHANGED <<running, clock, hostPid, todo, swept, app, before, ledger, deeds,
                   traced, slipped>>

\* Register-OwnedWord, whose write may fail and leave the file as it was or empty, and
\* the Word is hidden.  The file is not safe that a sweep has in hand.
Register(h) ==
    /\ at[h] = "registering"
    /\ \/ /\ ledger' = [ledger EXCEPT ![hostPid[h]] = owned[h]]
          /\ traced' = traced \cup
                 {w \in Target(owned[h]) : /\ w = app[h] /\ w.by = h
                                           /\ \A g \in Hosts : swept[g] # hostPid[h]}
       \/ /\ ledger' \in {ledger, [ledger EXCEPT ![hostPid[h]] = None]}
          /\ UNCHANGED traced
    /\ Did("hide", h, {app[h]} \cap running)
    /\ Go(h, "ready")
    /\ UNCHANGED <<running, clock, hostPid, todo, swept, app, before, owned,
                   attribution, mistaken, slipped>>
-----------------------------------------------------------------------------
(* Stop-Word, on a quit or when the input of the host ends.                *)

\* Word is quit through the handle, unless it is known not to be ours, and the
\* handle is released.  What Quit does is to let it end.
QuitWord(h) ==
    /\ at[h] = "ready"
    /\ IF attribution[h] = "attached" THEN UNCHANGED deeds
       ELSE Did(IF attribution[h] = "hwnd" THEN "quit" ELSE "quit blindly",
                h, {app[h]} \cap running)
    /\ app' = [app EXCEPT ![h] = None]
    /\ Go(h, "killing")
    /\ UNCHANGED <<running, clock, hostPid, todo, swept, before, owned, attribution,
                   ledger, traced, mistaken, slipped>>

\* Ten seconds later the Word it owns has ended, or is killed.
KillOwnedWord(h) ==
    /\ at[h] = "killing"
    /\ IF owned[h] = None THEN UNCHANGED <<running, deeds, traced>>
                          ELSE StopVerifiedWord(h, owned[h])
    /\ owned' = [owned EXCEPT ![h] = None]
    /\ attribution' = [attribution EXCEPT ![h] = "word_not_started"]
    /\ Go(h, "unregistering")
    /\ UNCHANGED <<clock, hostPid, todo, swept, app, before, ledger, mistaken, slipped>>

\* Unregister-OwnedWord, which may fail, and the host exits.
Unregister(h) ==
    /\ at[h] = "unregistering"
    /\ ledger' \in {ledger, [ledger EXCEPT ![hostPid[h]] = None]}
    /\ Go(h, "gone")
    /\ UNCHANGED <<running, clock, hostPid, todo, swept, app, before, owned,
                   attribution, history>>
-----------------------------------------------------------------------------
(* The host dies.                                                          *)

\* A crash, or the kill that follows a timeout of the bridge: what the host knew is
\* lost.
HostDies(h) ==
    /\ Lives(h)
    /\ Go(h, "gone")
    /\ todo' = [todo EXCEPT ![h] = {}]
    /\ swept' = [swept EXCEPT ![h] = None]
    /\ app' = [app EXCEPT ![h] = None]
    /\ before' = [before EXCEPT ![h] = {}]
    /\ owned' = [owned EXCEPT ![h] = None]
    /\ attribution' = [attribution EXCEPT ![h] = "word_not_started"]
    /\ UNCHANGED <<running, clock, hostPid, ledger, history>>

-----------------------------------------------------------------------------
HostStep(h) ==
    \/ StartHost(h)
    \/ SweepFinds(h) \/ SweepStops(h) \/ SweepRemoves(h) \/ SweepEnds(h)
    \/ InitializeWord(h) \/ CreateWord(h) \/ Attribute(h) \/ LearnStart(h) \/ Register(h)
    \/ QuitWord(h) \/ KillOwnedWord(h) \/ Unregister(h) \/ HostDies(h)

Next ==
    \/ UserStartsWord
    \/ \E w \in running : WordEnds(w)
    \/ \E h \in Hosts : HostStep(h)

Spec == Init /\ [][Next]_vars
-----------------------------------------------------------------------------
(* Correctness.                                                            *)

\* A host kills a Word only if it started it itself, or a host that is gone did,
\* however the pids are used again; and what it hides, or quits because it is
\* attributed, it started itself.  The code has four exceptions: the Word that took
\* the pid between the attribution and the reading of the start time; the Word that
\* started between the census and New-Object, and was handed out; the Word that is
\* quit without being attributed; and the Word of a later host, which got the pid of a
\* dead one after the sweep had looked and before it read the file.
HostsSpareOthers ==
    [][\A d \in deeds' \ deeds :
           \/ d.what = "kill" /\ d.word.by \in Hosts /\ at[d.word.by] = "gone"
           \/ d.word \in slipped
           \/ d.what = "kill" /\ d.word \in mistaken
           \/ d.what = "quit blindly"
           \/ /\ d.what = "kill" /\ d.word.by \in Hosts /\ d.word.by > d.host
              /\ hostPid[d.word.by] = swept[d.host]]_vars

\* A Word that was written to the ledger stays in it as long as it runs, through
\* every crash of its host, of a sweep and of the bridge, so that the next host ends
\* it.  Unless a kill was declined, or its host gave it up, since Test-AppAlive was
\* refused by a Word that runs, or a later host got the pid of its host; and unless a
\* sweep had the file of that pid in hand when it was written.
OwnWordsStayTraced ==
    \A w \in running \cap traced :
        \/ \E p \in Pids : ledger[p] = Identity(w)
        \/ \E h \in Hosts : h > w.by /\ hostPid[h] = hostPid[w.by]

\* Stated by word-host.ps1: a Word instance we did not create is never quit and
\* never hidden.
OnlyOwnWordsAreQuit ==
    \A d \in deeds : d.what = "kill"
=============================================================================
