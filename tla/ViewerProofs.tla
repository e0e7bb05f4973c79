------------------------------ MODULE ViewerProofs ------------------------------
(***************************************************************************)
(* Proofs about Viewer and the FileWatcher it extends, for every number of *)
(* callers, documents, writes, polls and retries.                          *)
(*                                                                         *)
(* What an attached watcher takes for seen was handled, and no fingerprint *)
(* of its file that was handled is newer, unless a stat failed or answered *)
(* late.  A delivery under way has marked another one and remembers such a *)
(* one, which is what a refusal puts back, unless an acknowledge of        *)
(* meanwhile has recorded something.                                       *)
(* The overlay follows from an epoch that no two records share: a render   *)
(* that stamps the record of today began after that record's edit.         *)
(***************************************************************************)
EXTENDS Viewer, TLAPS

Prints == Fingerprints \cup {None}

PassSet ==
    [at : {"none", "polling", "settled", "delivering"}, path : Paths \cup {None},
     previous : Prints, rounds : 0..StableRounds - 1, polls : 0..MaxPolls - 1, before : Prints]

CallSet ==
    [kind : Kinds \cup {None}, path : Paths \cup {None}, edit : Prints,
     before : Versions \cup {None}, key : Prints, epoch : Nat,
     joins : All \cup {None}, answer : Ends \cup {None}]

ChangeSet == [edit : Fingerprints, docKey : Prints]

PanelTyped ==
    /\ doc \in Prints /\ status \in {"idle", "opening", "ready", "error"}
    /\ change \in ChangeSet \cup {None}
    /\ epoch \in Nat
    /\ refreshing \in All \cup {None} /\ closed \in BOOLEAN
    /\ attempt \in 0..MaxRetries
    /\ at \in [All -> Steps] /\ call \in [All -> CallSet]
    /\ refreshing # None => at[refreshing] \in {"opening", "rendering", "acknowledging"}

WatcherTyped ==
    /\ file \in [Paths -> Nat] /\ news \in BOOLEAN
    /\ filePath \in Paths \cup {None} /\ lastSeen \in Prints
    /\ watching \in BOOLEAN /\ written \in BOOLEAN
    /\ timer \in BOOLEAN /\ again \in BOOLEAN
    /\ handled \subseteq Prints /\ late \subseteq Prints /\ pass \in PassSet
    /\ events \in 0..MaxEvents

\* A watcher with something to do has a file; a pass is not begun during another,
\* and only a delivery has something written over.
Pointed ==
    /\ news \/ timer \/ watching \/ Settling => filePath \in Paths
    /\ timer => ~Settling
    /\ again => Settling
    /\ written => pass.at = "delivering"

\* No fingerprint is of a version that is not written yet.
IsPast(print) == print # None => print[2] <= file[print[1]]

Past ==
    /\ IsPast(lastSeen) /\ IsPast(pass.previous) /\ IsPast(pass.before)
    /\ \A print \in handled : IsPast(print)

\* No fingerprint of the file watched that was handled is newer.
Newest(print) ==
    /\ print \in Fingerprints /\ print[1] = filePath
    /\ \A h \in handled : h # None /\ h[1] = filePath => h[2] <= print[2]

\* So it is but where a stat failed, or answered late.
Fresh(print) == print = None \/ print \in late \/ Newest(print)

\* lastSeen was handled, and is fresh; during a delivery that nothing was written over
\* it is what is delivered, and what it was before is remembered.
Seen ==
    /\ pass.at = "delivering" => pass.previous \in Fingerprints
    /\ watching =>
          /\ Fresh(lastSeen)
          /\ IF pass.at = "delivering" /\ ~written
             THEN /\ pass.before \in handled /\ Fresh(pass.before)
                  /\ pass.path = filePath /\ lastSeen = pass.previous
             ELSE /\ lastSeen \in handled
                  /\ pass.at = "delivering" /\ pass.previous[1] = filePath =>
                        lastSeen = None \/ lastSeen \in late
                            \/ pass.previous[2] <= lastSeen[2]

WatcherInv == WatcherTyped /\ Pointed /\ Past /\ Seen

\* The record is about a version that was written, and a render it is stamped with
\* contains its edit.
Stamped ==
    change # None =>
        /\ IsPast(change.edit)
        /\ change.docKey # None /\ change.docKey[1] = change.edit[1] =>
              change.edit[2] <= change.docKey[2]

\* What a caller knows where it stands.  A render that began with the record there
\* is now has a key that is no older than the record's edit.
Knows(c) ==
    /\ at[c] = "edited" => call[c].edit # None /\ IsPast(call[c].edit)
    /\ at[c] = "called" \/ c = AutoRefresh => ~HasRecord(c)
    /\ at[c] \in {"joining", "joined"} => doc # None
    /\ at[c] = "watch" => filePath # None
    /\ at[c] \in {"opening", "rendering", "open", "render"} => call[c].path \in Paths
    /\ at[c] \in {"rendering", "render"} => call[c].key # None
    /\ at[c] \in {"opening", "rendering"} => call[c].epoch <= epoch
    /\ at[c] = "rendering" /\ HasRecord(c) /\ call[c].epoch = epoch /\ change # None
       /\ call[c].key[1] = change.edit[1] => change.edit[2] <= call[c].key[2]

\* The watcher's refresh runs during a delivery, and never as a tool does.
AutoInv ==
    /\ at[AutoRefresh] \notin {"edited", "open", "render", "watch", "seen", "over"}
    /\ at[AutoRefresh] # "idle" => pass.at = "delivering"

PanelInv == PanelTyped /\ Stamped /\ AutoInv /\ \A c \in All : Knows(c)

IInv == WatcherInv /\ PanelInv
-----------------------------------------------------------------------------
(* The watcher.                                                            *)

\* A fingerprint of now is of the version that is written.
LEMMA FingerprintsOfNow ==
    ASSUME WatcherTyped, NEW p \in Paths
    PROVE  /\ Fingerprint(p) \in Fingerprints /\ Fingerprint(p) # None
           /\ Fingerprint(p)[1] = p /\ Fingerprint(p)[2] = file[p]
BY WatcherAssumption DEF WatcherTyped, Fingerprint, Fingerprints, Versions

\* What a stat answers is None, or of a version of the file asked about that was
\* written by then.
LEMMA AnswersOfNow ==
    ASSUME WatcherTyped, NEW asked \in Prints, NEW print \in Answers(asked)
    PROVE  print \in Prints /\ IsPast(print)
<1>1. CASE asked = None
  BY <1>1 DEF Answers, Prints, IsPast
<1>2. CASE asked # None
  <2>1. asked[1] \in Paths /\ asked[2] \in Nat /\ file[asked[1]] \in Nat
    BY <1>2, WatcherAssumption DEF Prints, Fingerprints, Versions, WatcherTyped
  <2>2. CASE print = None
    BY <2>2 DEF Prints, IsPast
  <2>3. CASE \E v \in asked[2]..file[asked[1]] : print = <<asked[1], v>>
    BY <2>1, <2>3 DEF Prints, IsPast, Fingerprints, Versions
  <2> QED
    BY <1>2, <2>2, <2>3 DEF Answers
<1> QED
  BY <1>1, <1>2

\* So are those to what is asked now.
LEMMA AnswersToCurrent ==
    ASSUME WatcherTyped, NEW print \in Answers(Current)
    PROVE  print \in Prints /\ IsPast(print) /\ Current \in Prints
<1>1. Current \in Prints
  BY FingerprintsOfNow DEF Current, Prints, WatcherTyped
<1> QED
  BY <1>1, AnswersOfNow

\* A fingerprint has a document and a version.
LEMMA FingerprintParts ==
    ASSUME NEW print \in Fingerprints
    PROVE  print # None /\ print[1] \in Paths /\ print[2] \in Nat
BY WatcherAssumption DEF Fingerprints, Versions

\* Two fingerprints of a document differ by the version.
LEMMA SameFingerprint ==
    ASSUME NEW a \in Fingerprints, NEW b \in Fingerprints, a[1] = b[1], a[2] = b[2]
    PROVE  a = b
BY DEF Fingerprints

\* A watcher is as sound as it was when nothing of it changes.
LEMMA WatcherStays ==
    ASSUME WatcherInv, UNCHANGED <<diskVars, watcherVars>>
    PROVE  WatcherInv'
BY DEF WatcherInv, WatcherTyped, Pointed, Past, IsPast, Seen, Fresh, Newest, Settling,
       diskVars, watcherVars

\* A write takes the file past every fingerprint there is.
LEMMA WriteKeeps ==
    ASSUME WatcherInv, NEW p \in Paths, Write(p), UNCHANGED watcherVars
    PROVE  /\ WatcherInv'
           /\ \A q \in Paths : file[q] <= file'[q]
<1> USE DEF WatcherInv
<1>0. /\ OneMore /\ file' = [file EXCEPT ![p] = @ + 1]
      /\ news' = (news \/ (watching /\ filePath = p))
  BY Zenon DEF Write
<1>1. file' = [file EXCEPT ![p] = @ + 1] /\ file' \in [Paths -> Nat]
      /\ \A q \in Paths : file[q] <= file'[q] /\ file[q] \in Nat /\ file'[q] \in Nat
  BY <1>0 DEF WatcherTyped
<1>2. WatcherTyped'
  <2>1. news' \in BOOLEAN /\ events' \in 0..MaxEvents
    BY <1>0, WatcherAssumption DEF WatcherTyped, OneMore
  <2> QED
    BY <1>1, <2>1 DEF WatcherTyped, watcherVars
<1>3. Pointed'
  BY <1>0 DEF Pointed, watcherVars, Settling, WatcherTyped
<1>4. ASSUME NEW print \in Prints, IsPast(print)
      PROVE  IsPast(print)'
  <2> SUFFICES ASSUME print # None
               PROVE  print[2] <= file'[print[1]]
    BY DEF IsPast
  <2>1. print[1] \in Paths /\ print[2] \in Nat
    BY FingerprintParts DEF Prints
  <2> QED
    BY <1>1, <1>4, <2>1 DEF IsPast
<1>5. Past'
  <2>1. lastSeen \in Prints /\ pass.previous \in Prints /\ pass.before \in Prints
        /\ handled \subseteq Prints
    BY DEF WatcherTyped, PassSet
  <2>2. /\ lastSeen' = lastSeen /\ pass' = pass /\ handled' = handled
    BY DEF watcherVars
  <2>3. IsPast(lastSeen)' /\ IsPast(pass.previous)' /\ IsPast(pass.before)'
    <3>1. IsPast(lastSeen)' = (lastSeen # None => lastSeen[2] <= file'[lastSeen[1]])
      BY <2>2 DEF IsPast
    <3>2. IsPast(pass.previous)' =
             (pass.previous # None => pass.previous[2] <= file'[pass.previous[1]])
      BY <2>2 DEF IsPast
    <3>3. IsPast(pass.before)' =
             (pass.before # None => pass.before[2] <= file'[pass.before[1]])
      BY <2>2 DEF IsPast
    <3> QED
      BY <1>4, <2>1, <3>1, <3>2, <3>3 DEF Past, IsPast
  <2>4. \A print \in handled : (print # None => print[2] <= file'[print[1]])
    BY <1>4, <2>1 DEF Past, IsPast
  <2> QED
    BY <2>2, <2>3, <2>4 DEF Past, IsPast
<1>6. Seen'
  BY DEF Seen, Fresh, Newest, watcherVars
<1> QED
  BY <1>1, <1>2, <1>3, <1>5, <1>6

\* A directory event arms the timer, or has the pass under way followed by another.
LEMMA DirectoryEventKeeps ==
    ASSUME WatcherInv, DirectoryEvent
    PROVE  WatcherInv'
<1> USE DEF WatcherInv, DirectoryEvent
<1>1. WatcherTyped'
  <2>1. events' \in 0..MaxEvents
    BY WatcherAssumption DEF WatcherTyped, OneMore
  <2>2. /\ news' \in BOOLEAN /\ timer' \in BOOLEAN /\ again' \in BOOLEAN
        /\ UNCHANGED <<file, filePath, watching, lastSeen, written, pass, handled, late>>
    BY DEF WatcherTyped, Schedule
  <2> QED
    BY <2>1, <2>2 DEF WatcherTyped
<1>2. Pointed'
  BY DEF Pointed, Schedule, Settling, WatcherTyped
<1>3. Past'
  BY DEF Past, IsPast
<1>4. Seen'
  BY DEF Seen, Fresh, Newest
<1> QED
  BY <1>1, <1>2, <1>3, <1>4

\* A pass begins: there is a file to look at, and nothing was being delivered.
LEMMA FireKeeps ==
    ASSUME WatcherInv, Fire
    PROVE  WatcherInv'
<1> USE DEF WatcherInv
<1>1. filePath \in Paths /\ ~Settling /\ pass.at = "none"
  BY DEF Fire, Pointed, Settling
<1>2. PICK print \in Answers(Current) :
          pass' = [NoPass EXCEPT !.at = "polling", !.path = filePath, !.previous = print]
  BY DEF Fire
<1>3. print \in Prints /\ IsPast(print)
  BY AnswersToCurrent
<1>4. pass' \in PassSet /\ pass'.at = "polling" /\ pass'.previous = print
      /\ pass'.before = None
  <2>1. NoPass \in PassSet
    BY WatcherAssumption DEF NoPass, PassSet, StableRounds, Prints
  <2> QED
    BY <1>1, <1>2, <1>3, <2>1 DEF NoPass, PassSet
<1>5. WatcherTyped'
  BY <1>4 DEF Fire, WatcherTyped, diskVars
<1>6. Pointed'
  BY <1>1, <1>4 DEF Fire, Pointed, Settling, diskVars, WatcherTyped
<1>7. Past'
  <2>1. IsPast(pass.previous)' /\ IsPast(pass.before)'
    BY <1>3, <1>4 DEF IsPast, Fire, diskVars
  <2>2. IsPast(lastSeen)' /\ (\A h \in handled : IsPast(h))'
    BY DEF Past, IsPast, Fire, diskVars
  <2> QED
    BY <2>1, <2>2 DEF Past
<1>8. Seen'
  BY <1>1, <1>4 DEF Seen, Fresh, Newest, Fire
<1> QED
  BY <1>5, <1>6, <1>7, <1>8

\* What a poll may leave.
LEMMA PollLeaves ==
    ASSUME WatcherInv, Poll
    PROVE  \E current \in Answers(Current) :
               /\ pass' \in PassSet /\ pass'.at \in {"polling", "settled"}
               /\ pass'.previous = current /\ pass'.before \in {pass.before, None}
<1> USE DEF WatcherInv
<1>1. pass \in PassSet /\ pass.at = "polling"
  BY DEF Poll, WatcherTyped
<1>2. PICK current \in Answers(Current) :
          LET still == current # None /\ current = pass.previous
              rounds == IF still THEN pass.rounds + 1 ELSE 0
          IN  pass' = IF rounds = StableRounds \/ pass.polls + 1 = MaxPolls
                      THEN [NoPass EXCEPT !.at = "settled", !.path = pass.path,
                                          !.previous = current]
                      ELSE [pass EXCEPT !.previous = current, !.rounds = rounds,
                                        !.polls = @ + 1]
  BY DEF Poll
<1>3. current \in Prints
  BY AnswersToCurrent
<1> DEFINE rounds == IF current # None /\ current = pass.previous
                     THEN pass.rounds + 1 ELSE 0
<1>4. CASE /\ rounds = StableRounds \/ pass.polls + 1 = MaxPolls
           /\ pass' = [NoPass EXCEPT !.at = "settled", !.path = pass.path,
                                     !.previous = current]
  <2>1. NoPass \in PassSet /\ NoPass.before = None
    BY WatcherAssumption DEF NoPass, PassSet, StableRounds, Prints
  <2> QED
    BY <1>1, <1>3, <1>4, <2>1 DEF PassSet
<1>5. CASE /\ rounds # StableRounds /\ pass.polls + 1 # MaxPolls
           /\ pass' = [pass EXCEPT !.previous = current, !.rounds = rounds, !.polls = @ + 1]
  <2>1. rounds \in 0..StableRounds - 1 /\ pass.polls + 1 \in 0..MaxPolls - 1
    BY <1>1, <1>5, WatcherAssumption DEF PassSet, StableRounds
  <2> QED
    BY <1>1, <1>3, <1>5, <2>1 DEF PassSet
<1> QED
  BY <1>2, <1>4, <1>5

\* A poll marks nothing.
LEMMA PollKeeps ==
    ASSUME WatcherInv, Poll
    PROVE  WatcherInv'
<1> USE DEF WatcherInv
<1>1. pass.at = "polling" /\ filePath \in Paths
      /\ UNCHANGED <<diskVars, filePath, watching, lastSeen, written, timer, again,
                     handled, late>>
  BY DEF Poll, Pointed, Settling
<1>2. PICK current \in Answers(Current) :
          /\ pass' \in PassSet /\ pass'.at \in {"polling", "settled"}
          /\ pass'.previous = current /\ pass'.before \in {pass.before, None}
  BY PollLeaves
<1>3. current \in Prints /\ IsPast(current)
  BY AnswersToCurrent
<1>4. WatcherTyped'
  BY <1>1, <1>2 DEF WatcherTyped, diskVars
<1>5. Pointed'
  BY <1>1, <1>2 DEF Pointed, Settling, diskVars
<1>6. Past'
  BY <1>1, <1>2, <1>3 DEF Past, IsPast, diskVars
<1>7. Seen'
  BY <1>1, <1>2 DEF Seen, Fresh, Newest
<1> QED
  BY <1>4, <1>5, <1>6, <1>7

\* The end of a pass, whatever came of it: what is left is sound when lastSeen was
\* handled and is fresh.
LEMMA EndPassKeeps ==
    ASSUME WatcherInv, EndPass, UNCHANGED <<diskVars, filePath, watching, late>>,
           written' = FALSE, filePath \in Paths,
           lastSeen' \in Prints, IsPast(lastSeen'), handled' \subseteq Prints,
           \A print \in handled' : IsPast(print),
           watching => lastSeen' \in handled' /\ Fresh(lastSeen)'
    PROVE  WatcherInv'
<1> USE DEF WatcherInv, EndPass
<1>1. pass' \in PassSet /\ pass'.at = "none" /\ pass'.previous = None
      /\ pass'.before = None
  BY WatcherAssumption DEF NoPass, PassSet, Prints, StableRounds
<1>2. WatcherTyped'
  BY <1>1 DEF WatcherTyped, diskVars
<1>3. Pointed'
  BY <1>1 DEF Pointed, Settling, diskVars, WatcherTyped
<1>4. Past'
  BY <1>1 DEF Past, IsPast, diskVars
<1>5. Seen'
  BY <1>1 DEF Seen
<1> QED
  BY <1>2, <1>3, <1>4, <1>5

\* There was nothing to deliver.
LEMMA DropKeeps ==
    ASSUME WatcherInv, Drop
    PROVE  WatcherInv'
<1>1. pass.at = "settled" /\ filePath \in Paths /\ ~written
  BY DEF Drop, WatcherInv, Pointed, Settling
<1>2. EndPass /\ UNCHANGED <<diskVars, filePath, watching, lastSeen, written, handled, late>>
  BY DEF Drop
<1>3. watching => lastSeen' \in handled' /\ Fresh(lastSeen)'
  BY <1>1, <1>2 DEF WatcherInv, Seen, Fresh, Newest
<1>4. /\ lastSeen' \in Prints /\ IsPast(lastSeen') /\ handled' \subseteq Prints
      /\ \A print \in handled' : IsPast(print)
  BY <1>2 DEF WatcherInv, WatcherTyped, Past
<1> QED
  BY <1>1, <1>2, <1>3, <1>4, EndPassKeeps DEF WatcherInv, WatcherTyped

\* What the file is now is fresh, whatever was handled.
LEMMA CurrentIsFresh ==
    ASSUME WatcherInv, filePath \in Paths
    PROVE  /\ Current \in Fingerprints /\ Newest(Current)
           /\ Current[1] = filePath /\ Current[2] = file[filePath]
<1>1. Current = Fingerprint(filePath)
  BY WatcherAssumption DEF Current
<1>2. /\ Current \in Fingerprints /\ Current[1] = filePath /\ Current[2] = file[filePath]
  BY <1>1, FingerprintsOfNow DEF WatcherInv
<1>3. \A h \in handled : h # None /\ h[1] = filePath => h[2] <= file[filePath]
  BY DEF WatcherInv, Past, IsPast
<1> QED
  BY <1>2, <1>3 DEF Newest

\* A fingerprint that an attached watcher handled is delivered again only where a stat
\* failed or answered late.
LEMMA DeliversNoEcho ==
    ASSUME WatcherInv, Deliver, watching
    PROVE  lastSeen' \notin handled \/ lastSeen = None \/ {lastSeen, lastSeen'} \cap late' # {}
<1> USE DEF WatcherInv
<1> SUFFICES ASSUME lastSeen' \in handled, lastSeen # None, {lastSeen, lastSeen'} \cap late' = {}
             PROVE  FALSE
  OBVIOUS
<1>1. pass.at = "settled" /\ filePath \in Paths /\ lastSeen' = pass.previous
      /\ pass.previous # lastSeen /\ pass.previous # None
      /\ late' = (late \cap {lastSeen, pass.before}) \cup ({pass.previous} \ {None, Current})
  BY DEF Deliver, Pointed, Settling, NothingNew, MarkSeen
<1>2. lastSeen \notin late /\ pass.previous = Current
  BY <1>1
<1>3. Newest(lastSeen)
  BY <1>1, <1>2 DEF Seen, Fresh
<1>4. Current \in Fingerprints /\ Current[1] = filePath /\ Current[2] = file[filePath]
      /\ file[filePath] \in Nat
  BY <1>1, CurrentIsFresh DEF WatcherTyped
<1>5. lastSeen \in Fingerprints /\ lastSeen[1] = filePath /\ lastSeen[2] \in Nat
      /\ lastSeen[2] <= file[filePath]
  BY <1>3, FingerprintParts DEF Newest, Past, IsPast
<1>6. file[filePath] <= lastSeen[2]
  BY <1>1, <1>2, <1>3, <1>4 DEF Newest
<1>7. lastSeen[2] = Current[2]
  BY <1>4, <1>5, <1>6
<1> QED
  BY <1>1, <1>2, <1>4, <1>5, <1>7, SameFingerprint

\* What is delivered is taken for seen with what was seen before at hand.
LEMMA DeliverKeeps ==
    ASSUME WatcherInv, Deliver
    PROVE  WatcherInv'
<1> USE DEF WatcherInv
<1>1. /\ pass.at = "settled" /\ filePath \in Paths /\ pass.path = filePath /\ ~written
      /\ pass.previous \in Fingerprints
      /\ lastSeen' = pass.previous /\ written' = FALSE
      /\ UNCHANGED <<diskVars, filePath, watching, timer, again, handled>>
  BY DEF Deliver, Pointed, Settling, NothingNew, MarkSeen, WatcherTyped, PassSet, Prints
<1>2. late' = (late \cap {lastSeen, pass.before}) \cup ({pass.previous} \ {None, Current})
  BY DEF Deliver, MarkSeen
<1>3. pass' \in PassSet /\ pass'.at = "delivering" /\ pass'.previous = pass.previous
      /\ pass'.before = lastSeen /\ pass'.path = filePath
  BY <1>1 DEF Deliver, WatcherTyped, PassSet
<1>4. lastSeen' \in Prints /\ late' \subseteq Prints
  BY <1>1, <1>2 DEF Prints, WatcherTyped
<1>5. WatcherTyped'
  BY <1>1, <1>3, <1>4 DEF WatcherTyped, diskVars
<1>6. Pointed'
  BY <1>1, <1>3 DEF Pointed, Settling, diskVars
<1>7. Past'
  BY <1>1, <1>3 DEF Past, IsPast, diskVars
<1>8. Fresh(lastSeen)'
  <2>1. CASE pass.previous = Current
    <3>1. Newest(Current)
      BY <1>1, CurrentIsFresh
    <3> QED
      BY <1>1, <2>1, <3>1 DEF Fresh, Newest
  <2>2. CASE pass.previous # Current
    BY <1>1, <1>2, <2>2 DEF Fresh
  <2> QED
    BY <2>1, <2>2
<1>9. watching => pass'.before \in handled' /\ Fresh(pass.before)'
  <2>1. watching => lastSeen \in handled /\ Fresh(lastSeen)
    BY <1>1 DEF Seen
  <2>2. lastSeen \in late => lastSeen \in late'
    BY <1>2
  <2> QED
    BY <1>1, <1>3, <2>1, <2>2 DEF Fresh, Newest
<1>10. Seen'
  BY <1>1, <1>3, <1>8, <1>9 DEF Seen
<1> QED
  BY <1>5, <1>6, <1>7, <1>10

\* What was delivered is handled; what was recorded meanwhile is no older, or late.
LEMMA ConsumedKeeps ==
    ASSUME WatcherInv, pass.at = "delivering", Consumed, UNCHANGED diskVars
    PROVE  WatcherInv'
<1> USE DEF WatcherInv
<1>1. filePath \in Paths
  BY DEF Pointed, Settling
<1>2. pass.previous \in Fingerprints /\ pass.previous # None /\ pass.previous[2] \in Nat
      /\ pass.previous \in Prints
  BY FingerprintParts DEF Seen, Prints
<1>3. /\ handled' = handled \cup {pass.previous} /\ EndPass /\ written' = FALSE
      /\ UNCHANGED <<filePath, watching, lastSeen, late>>
  BY DEF Consumed
<1>4. ASSUME watching
      PROVE  lastSeen' \in handled' /\ Fresh(lastSeen)'
  <2>1. lastSeen \in handled \/ lastSeen = pass.previous
    BY <1>4 DEF Seen, WatcherTyped
  <2>2. CASE lastSeen = None \/ lastSeen \in late
    BY <1>3, <2>1, <2>2 DEF Fresh
  <2>3. CASE lastSeen # None /\ lastSeen \notin late
    <3>1. Newest(lastSeen) /\ lastSeen[2] \in Nat
      BY <1>4, <2>3, FingerprintParts DEF Seen, Fresh, Newest
    <3>2. pass.previous[1] = filePath => pass.previous[2] <= lastSeen[2]
      <4>1. CASE written
        BY <1>4, <2>3, <4>1 DEF Seen
      <4>2. CASE ~written
        BY <1>2, <1>4, <4>2 DEF Seen
      <4> QED
        BY <4>1, <4>2
    <3>3. Newest(lastSeen)'
      BY <1>3, <3>1, <3>2 DEF Newest
    <3> QED
      BY <1>3, <2>1, <3>3 DEF Fresh
  <2> QED
    BY <2>2, <2>3
<1>5. /\ lastSeen' \in Prints /\ IsPast(lastSeen') /\ handled' \subseteq Prints
      /\ \A print \in handled' : IsPast(print)
  BY <1>2, <1>3 DEF WatcherTyped, Past
<1> QED
  BY <1>1, <1>3, <1>4, <1>5, EndPassKeeps

\* What was seen before is put back, unless something was recorded meanwhile.
LEMMA RefusedKeeps ==
    ASSUME WatcherInv, pass.at = "delivering", Refused, UNCHANGED diskVars
    PROVE  WatcherInv'
<1> USE DEF WatcherInv
<1>1. filePath \in Paths
  BY DEF Pointed, Settling
<1>2. /\ lastSeen' = IF filePath = pass.path /\ ~written THEN pass.before ELSE lastSeen
      /\ EndPass /\ written' = FALSE /\ UNCHANGED <<filePath, watching, handled, late>>
  BY DEF Refused
<1>3. watching => lastSeen' \in handled' /\ Fresh(lastSeen)'
  <2>1. watching => LET left == IF filePath = pass.path /\ ~written THEN pass.before
                                ELSE lastSeen
                    IN  left \in handled /\ Fresh(left)
    BY DEF Seen
  <2> QED
    BY <1>2, <2>1 DEF Fresh, Newest
<1>4. /\ lastSeen' \in Prints /\ IsPast(lastSeen') /\ handled' \subseteq Prints
      /\ \A print \in handled' : IsPast(print)
  <2>1. pass.before \in Prints /\ lastSeen \in Prints
    BY DEF WatcherTyped, PassSet
  <2> QED
    BY <1>2, <2>1 DEF WatcherTyped, Past
<1> QED
  BY <1>1, <1>2, <1>3, <1>4, EndPassKeeps

\* What is acknowledged is what the file is, or late, or no fingerprint at all.
LEMMA AcknowledgeKeeps ==
    ASSUME WatcherInv, NEW asked \in Prints, Acknowledge(asked),
           UNCHANGED <<file, news, filePath, timer, again, pass>>,
           watching' \in BOOLEAN, watching' => filePath \in Paths
    PROVE  WatcherInv'
<1> USE DEF WatcherInv
<1>1. PICK print \in Answers(asked) :
          /\ MarkSeen(print) /\ handled' = handled \cup {print}
          /\ IF print = None THEN OneMore ELSE UNCHANGED events
  BY DEF Acknowledge
<1>2. print \in Prints /\ IsPast(print)
  BY AnswersOfNow
<1>3. /\ lastSeen' = print /\ written' = (pass.at = "delivering")
      /\ late' = (late \cap {lastSeen, pass.before}) \cup ({print} \ {None, Current})
  BY <1>1 DEF MarkSeen
<1>4. WatcherTyped'
  <2>1. events' \in 0..MaxEvents
    BY <1>1, WatcherAssumption DEF OneMore, WatcherTyped
  <2>2. late' \subseteq Prints
    BY <1>2, <1>3 DEF WatcherTyped
  <2> QED
    BY <1>1, <1>2, <1>3, <2>1, <2>2 DEF WatcherTyped
<1>5. Pointed'
  BY <1>3 DEF Pointed, Settling
<1>6. Past'
  BY <1>1, <1>2, <1>3 DEF Past, IsPast
<1>7. ASSUME filePath \in Paths
      PROVE  /\ Fresh(lastSeen)'
             /\ pass.at = "delivering" /\ pass.previous[1] = filePath =>
                    print = None \/ print \in late' \/ pass.previous[2] <= print[2]
  <2>1. CASE print # None /\ print # Current
    BY <1>3, <2>1 DEF Fresh
  <2>2. CASE print = None
    BY <1>3, <2>2 DEF Fresh
  <2>3. CASE print = Current
    <3>1. Newest(Current) /\ Current[2] = file[filePath] /\ Current[1] = filePath
          /\ Current \in Fingerprints
      BY <1>7, CurrentIsFresh
    <3>2. Newest(lastSeen)'
      <4>1. file[filePath] <= file[filePath]
        BY <1>7 DEF WatcherTyped
      <4> QED
        BY <1>1, <1>3, <2>3, <3>1, <4>1 DEF Newest
    <3>3. pass.at = "delivering" /\ pass.previous[1] = filePath =>
              pass.previous[2] <= print[2]
      <4>1. pass.at = "delivering" => pass.previous # None
        BY FingerprintParts DEF Seen
      <4> QED
        BY <2>3, <3>1, <4>1 DEF Past, IsPast
    <3> QED
      BY <3>2, <3>3 DEF Fresh
  <2> QED
    BY <2>1, <2>2, <2>3
<1>8. Seen'
  BY <1>1, <1>3, <1>7 DEF Seen
<1> QED
  BY <1>4, <1>5, <1>6, <1>8

\* A watcher that is closed or pointed elsewhere is not attached.
LEMMA CloseWatcherKeeps ==
    ASSUME WatcherInv, CloseWatcher, filePath' = filePath \/ filePath' \in Paths,
           UNCHANGED <<file, events, lastSeen, written, again, pass, handled, late>>
    PROVE  WatcherInv'
<1> USE DEF WatcherInv, CloseWatcher
<1>1. WatcherTyped'
  BY DEF WatcherTyped
<1>2. Pointed'
  BY DEF Pointed, Settling
<1>3. Past'
  BY DEF Past, IsPast
<1>4. Seen'
  BY DEF Seen
<1> QED
  BY <1>1, <1>2, <1>3, <1>4
-----------------------------------------------------------------------------
(* The callers.                                                            *)

\* The files get newer, and a watcher that has a file keeps one.
Forward ==
    /\ \A p \in Paths : file[p] <= file'[p]
    /\ filePath # None => filePath' # None

\* What a step may do to the document and the record the others go by: a document
\* is not taken back, and a new record has an epoch of its own.
Onward ==
    /\ doc # None => doc' # None
    /\ epoch' \in Nat /\ epoch <= epoch'
    /\ epoch' = epoch => change' = None \/ (change # None /\ change'.edit = change.edit)
    /\ Forward

\* The type invariant of the panel, field by field.
LEMMA TypedIsTypeOK ==
    WatcherTyped /\ PanelTyped => TypeOK
BY DEF WatcherTyped, PanelTyped, TypeOK, WatcherTypeOK, PassSet, CallSet, ChangeSet, Prints,
       Versions

\* A call that is new, and the callers there are.
LEMMA NewCalls ==
    /\ NewCall \in CallSet /\ NewCall.kind = None
    /\ AutoRefresh \in All /\ Callers \subseteq All
    /\ None \notin All
<1>1. NewCall \in CallSet /\ NewCall.kind = None
  BY DEF NewCall, CallSet, Prints
<1>2. AutoRefresh \in All /\ Callers \subseteq All /\ None \notin All
  BY ViewerAssumption DEF All
<1> QED
  BY <1>1, <1>2

\* A version that is written stays written.
LEMMA PastStaysPast ==
    ASSUME WatcherTyped, WatcherTyped', Onward, NEW print \in Prints, IsPast(print)
    PROVE  print # None => print[2] <= file'[print[1]]
<1> SUFFICES ASSUME print # None
             PROVE  print[2] <= file'[print[1]]
  OBVIOUS
<1>1. print[1] \in Paths /\ print[2] \in Nat
  BY FingerprintParts DEF Prints
<1>2. file[print[1]] \in Nat /\ file'[print[1]] \in Nat
      /\ file[print[1]] <= file'[print[1]]
  BY <1>1 DEF WatcherTyped, Onward, Forward
<1> QED
  BY <1>1, <1>2 DEF IsPast

\* Whoever does not move knows what it knew.
LEMMA KnowsStays ==
    ASSUME PanelInv, WatcherTyped, WatcherTyped', Onward, NEW d \in All,
           at'[d] = at[d], call'[d] = call[d]
    PROVE  Knows(d)'
<1>1. Knows(d) /\ call[d] \in CallSet /\ epoch \in Nat /\ epoch' \in Nat /\ epoch <= epoch'
      /\ change \in ChangeSet \cup {None}
  BY DEF PanelInv, PanelTyped, Onward
<1>2. call[d].epoch \in Nat /\ call[d].edit \in Prints
  BY <1>1 DEF CallSet
<1>3. (at[d] = "edited" => call[d].edit # None /\ IsPast(call[d].edit))'
  <2>1. at[d] = "edited" => call[d].edit # None /\ IsPast(call[d].edit)
    BY <1>1 DEF Knows
  <2>2. IsPast(call[d].edit) /\ call[d].edit # None
           => call[d].edit[2] <= file'[call[d].edit[1]]
    BY <1>2, PastStaysPast
  <2> QED
    BY <2>1, <2>2 DEF IsPast
<1>4. (at[d] \in {"opening", "rendering"} => call[d].epoch <= epoch)'
  BY <1>1, <1>2 DEF Knows
<1>5. (at[d] = "rendering" /\ HasRecord(d) /\ call[d].epoch = epoch /\ change # None
       /\ call[d].key[1] = change.edit[1] => change.edit[2] <= call[d].key[2])'
  <2> SUFFICES ASSUME at[d] = "rendering", HasRecord(d), call[d].epoch = epoch',
                      change' # None, call[d].key[1] = change'.edit[1]
               PROVE  change'.edit[2] <= call[d].key[2]
    BY DEF HasRecord
  <2>1. call[d].epoch <= epoch
    BY <1>1 DEF Knows
  <2>2. epoch' = epoch
    BY <1>1, <1>2, <2>1
  <2>3. change # None /\ change'.edit = change.edit
    BY <2>2 DEF Onward
  <2> QED
    BY <1>1, <2>2, <2>3 DEF Knows
<1>6. /\ (at[d] = "called" \/ d = AutoRefresh => ~HasRecord(d))'
      /\ (at[d] \in {"opening", "rendering", "open", "render"} => call[d].path \in Paths)'
      /\ (at[d] \in {"rendering", "render"} => call[d].key # None)'
  BY <1>1 DEF Knows, HasRecord
<1>7. /\ (at[d] \in {"joining", "joined"} => doc # None)'
      /\ (at[d] = "watch" => filePath # None)'
  BY <1>1 DEF Knows, Onward, Forward
<1> QED
  BY <1>3, <1>4, <1>5, <1>6, <1>7 DEF Knows

\* One caller moves: it is enough to say what it knows then.
LEMMA CallerMoves ==
    ASSUME PanelInv, WatcherTyped, WatcherTyped', Onward,
           NEW c \in All, NEW step \in Steps, NEW q \in CallSet,
           Goto(c, step), call' = [call EXCEPT ![c] = q],
           doc' \in Prints, status' \in {"idle", "opening", "ready", "error"},
           change' \in ChangeSet \cup {None}, Stamped',
           UNCHANGED closed, attempt' \in 0..MaxRetries,
           \/ refreshing' = refreshing /\ at[c] \notin {"opening", "rendering", "acknowledging"}
           \/ refreshing' \in {refreshing, c}
              /\ step \in {"opening", "rendering", "acknowledging"},
           AutoInv', Knows(c)'
    PROVE  PanelInv'
<1>1. at' \in [All -> Steps] /\ call' \in [All -> CallSet] /\ at'[c] = step /\ call'[c] = q
      /\ \A d \in All \ {c} : at'[d] = at[d] /\ call'[d] = call[d]
  BY DEF PanelInv, PanelTyped, Goto
<1>2. PanelTyped'
  <2>1. refreshing' \in All \cup {None}
    BY DEF PanelInv, PanelTyped
  <2>2. refreshing' # None => at'[refreshing'] \in {"opening", "rendering", "acknowledging"}
    BY <1>1 DEF PanelInv, PanelTyped
  <2> QED
    BY <1>1, <2>1, <2>2 DEF PanelInv, PanelTyped, Onward
<1>3. \A d \in All : Knows(d)'
  BY <1>1, KnowsStays
<1> QED
  BY <1>2, <1>3 DEF PanelInv

\* Nobody moves.
LEMMA NobodyMoves ==
    ASSUME PanelInv, WatcherTyped, WatcherTyped', Onward, UNCHANGED <<at, call, refreshing>>,
           doc' \in Prints, status' \in {"idle", "opening", "ready", "error"},
           change' \in ChangeSet \cup {None}, Stamped', closed' \in BOOLEAN,
           attempt' \in 0..MaxRetries, AutoInv'
    PROVE  PanelInv'
<1>1. \A d \in All : Knows(d)'
  BY KnowsStays
<1>2. PanelTyped'
  BY DEF PanelInv, PanelTyped, Onward
<1> QED
  BY <1>1, <1>2 DEF PanelInv

\* A record that nobody touches stays sound.
LEMMA StampedStays ==
    ASSUME PanelInv, WatcherTyped, WatcherTyped', Onward, UNCHANGED change
    PROVE  Stamped'
<1>1. change # None => change.edit \in Prints
  BY DEF PanelInv, PanelTyped, ChangeSet, Prints
<1> QED
  BY <1>1, PastStaysPast DEF PanelInv, Stamped, IsPast

\* What a caller that awaited a refresh is told.
Informed(d, answer) == [NewCall EXCEPT !.kind = call[d].kind, !.answer = answer]

\* A refresh ends: its caller and those who joined it are told.
LEMMA SettleKeeps ==
    ASSUME PanelInv, WatcherTyped, WatcherTyped', Onward,
           NEW c \in All, NEW answer \in Ends, Settle(c, answer), at[c] # "idle",
           doc' \in Prints, status' \in {"idle", "opening", "ready", "error"},
           change' \in ChangeSet \cup {None}, Stamped', UNCHANGED <<closed, attempt, pass>>
    PROVE  PanelInv'
<1>1. /\ at' = [d \in All |-> IF d = c THEN Ended(c)
                              ELSE IF d \in Joiners(c) THEN "joined" ELSE at[d]]
      /\ call' = Told(c, answer)
      /\ refreshing' = IF refreshing = c THEN None ELSE refreshing
  BY DEF Settle
<1>2. ASSUME NEW d \in All
      PROVE  /\ Informed(d, answer) \in CallSet /\ Informed(d, answer).kind = call[d].kind
             /\ call'[d] = IF d = c /\ c # AutoRefresh THEN NewCall
                           ELSE IF d \in Joiners(c) \cup {c} THEN Informed(d, answer)
                           ELSE call[d]
  <2>1. call[d].kind \in Kinds \cup {None}
    BY DEF PanelInv, PanelTyped, CallSet
  <2>2. Informed(d, answer) \in CallSet /\ Informed(d, answer).kind = call[d].kind
    BY <2>1, NewCalls DEF Informed, NewCall, CallSet
  <2>3. call'[d] = IF d = c /\ c # AutoRefresh THEN NewCall
                   ELSE IF d \in Joiners(c) \cup {c} THEN Informed(d, answer)
                   ELSE call[d]
    BY <1>1 DEF Told, Informed
  <2> QED
    BY <2>2, <2>3
<1>3. PanelTyped'
  <2>1. at' \in [All -> Steps]
    BY <1>1 DEF PanelInv, PanelTyped, Ended, Steps
  <2>2. call' \in [All -> CallSet]
    <3>1. \A d \in All : call'[d] \in CallSet
      BY <1>2, NewCalls DEF PanelInv, PanelTyped
    <3>2. call' = [d \in All |-> call'[d]]
      BY <1>1 DEF Told
    <3> QED
      BY <3>1, <3>2
  <2>3. refreshing' # None => at'[refreshing'] \in {"opening", "rendering", "acknowledging"}
    BY <1>1 DEF PanelInv, PanelTyped, Joiners
  <2> QED
    BY <1>1, <2>1, <2>2, <2>3 DEF PanelInv, PanelTyped, Onward
<1>4. AutoInv'
  <2>1. /\ at'[AutoRefresh] \in {at[AutoRefresh], "returned", "joined"}
        /\ at'[AutoRefresh] # at[AutoRefresh] => at[AutoRefresh] # "idle"
    BY <1>1, NewCalls DEF Ended, Joiners
  <2> QED
    BY <2>1 DEF PanelInv, AutoInv
<1>5. ASSUME NEW d \in All
      PROVE  Knows(d)'
  <2>1. CASE d \notin Joiners(c) \cup {c}
    BY <1>1, <1>2, <2>1, KnowsStays
  <2>2. CASE d = c
    <3>1. at'[d] \in {"over", "returned"} /\ (d = AutoRefresh => call'[d].kind = call[d].kind)
      BY <1>1, <1>2, <2>2 DEF Ended
    <3>2. d = AutoRefresh => ~HasRecord(d)'
      BY <3>1 DEF PanelInv, Knows, HasRecord
    <3> QED
      BY <3>1, <3>2 DEF Knows
  <2>3. CASE d \in Joiners(c) /\ d # c
    <3>1. at'[d] = "joined" /\ at[d] = "joining" /\ call'[d].kind = call[d].kind
      BY <1>1, <1>2, <2>3 DEF Joiners
    <3>2. (d = AutoRefresh => ~HasRecord(d)') /\ doc' # None
      BY <3>1 DEF PanelInv, Knows, HasRecord, Onward
    <3> QED
      BY <3>1, <3>2 DEF Knows
  <2> QED
    BY <2>1, <2>2, <2>3
<1> QED
  BY <1>3, <1>4, <1>5 DEF PanelInv

\* The document on show has a path, once there is one.
LEMMA DocumentParts ==
    ASSUME PanelInv, doc # None
    PROVE  doc \in Fingerprints /\ doc[1] \in Paths
BY FingerprintParts DEF PanelInv, PanelTyped, Prints

\* The body of refresh() begins, with the epoch of the record its caller brought.
LEMMA BeginKeeps ==
    ASSUME PanelInv, WatcherTyped, WatcherTyped', Onward,
           NEW c \in All, NEW now \in Nat, Begin(c, now), now <= epoch',
           at[c] \notin {"idle", "opening", "rendering", "acknowledging"}, doc # None,
           doc' \in Prints, status' \in {"idle", "opening", "ready", "error"},
           change' \in ChangeSet \cup {None}, Stamped', UNCHANGED <<closed, attempt, pass>>
    PROVE  PanelInv'
<1>1. doc[1] \in Paths /\ call[c].kind \in Kinds \cup {None} /\ file[doc[1]] \in Nat
  BY DocumentParts DEF PanelInv, PanelTyped, CallSet, WatcherTyped
<1>2. PICK before \in Nat \cup {None}, n \in {0, now} :
          /\ call' = [call EXCEPT ![c] = [NewCall EXCEPT !.kind = call[c].kind,
                          !.path = doc[1], !.before = before, !.epoch = n]]
          /\ refreshing' = c /\ Goto(c, "opening")
  BY <1>1 DEF Begin
<1> DEFINE q == [NewCall EXCEPT !.kind = call[c].kind, !.path = doc[1],
                                !.before = before, !.epoch = n]
<1>3. q \in CallSet /\ q.kind = call[c].kind /\ q.path = doc[1] /\ q.epoch = n
  BY <1>1, <1>2, NewCalls DEF NewCall, CallSet, Versions
<1>4. /\ call' = [call EXCEPT ![c] = q] /\ refreshing' = c /\ Goto(c, "opening")
      /\ "opening" \in Steps
  BY <1>2 DEF Steps
<1> HIDE DEF q
<1>5. at'[c] = "opening" /\ call'[c] = q /\ (c # AutoRefresh => at'[AutoRefresh] = at[AutoRefresh])
  BY <1>4, NewCalls DEF PanelInv, PanelTyped, Goto
<1>6. AutoInv'
  BY <1>5 DEF PanelInv, AutoInv
<1>7. Knows(c)'
  <2>1. n <= epoch' /\ epoch' \in Nat
    BY <1>2 DEF Onward
  <2>2. c = AutoRefresh => ~HasRecord(c)'
    BY <1>3, <1>5 DEF PanelInv, Knows, HasRecord
  <2> QED
    BY <1>1, <1>3, <1>5, <2>1, <2>2 DEF Knows
<1>8. /\ attempt' \in 0..MaxRetries /\ UNCHANGED closed
      /\ refreshing' \in {refreshing, c}
         /\ "opening" \in {"opening", "rendering", "acknowledging"}
  BY <1>4 DEF PanelInv, PanelTyped
<1> QED
  BY <1>3, <1>4, <1>6, <1>7, <1>8, CallerMoves

\* A refresh is called, by a tool with its edit or without a record.
LEMMA EnterKeeps ==
    ASSUME PanelInv, WatcherTyped, NEW c \in All, at[c] \in {"edited", "called"}, Enter(c),
           UNCHANGED <<diskVars, watcherVars, doc, status, closed, attempt>>
    PROVE  PanelInv'
<1>1. WatcherTyped' /\ UNCHANGED <<file, filePath, pass>>
  BY DEF WatcherTyped, diskVars, watcherVars
<1>2. /\ doc' \in Prints /\ status' \in {"idle", "opening", "ready", "error"}
      /\ epoch \in Nat /\ change \in ChangeSet \cup {None} /\ call[c] \in CallSet
      /\ refreshing \in All \cup {None}
      /\ \A p \in Paths : file[p] \in Nat
  BY DEF PanelInv, PanelTyped, WatcherTyped
<1> DEFINE now == IF HasRecord(c) THEN epoch + 1 ELSE epoch
<1>3. CASE closed \/ doc = None
  <2>1. /\ UNCHANGED <<change, epoch>>
        /\ Settle(c, IF closed THEN "closed" ELSE "hopeless")
    BY <1>3 DEF Enter
  <2>2. Onward
    BY <1>1, <1>2, <2>1 DEF Onward, Forward
  <2>3. Stamped'
    BY <1>1, <2>1, <2>2, StampedStays
  <2>4. (IF closed THEN "closed" ELSE "hopeless") \in Ends
    BY DEF Ends
  <2>5. change' \in ChangeSet \cup {None} /\ at[c] # "idle"
        /\ UNCHANGED <<closed, attempt, pass>>
    BY <1>1, <1>2, <2>1
  <2> QED
    BY <1>1, <1>2, <2>1, <2>2, <2>3, <2>4, <2>5, SettleKeeps
<1>4. CASE ~closed /\ doc # None
  <2>1. /\ epoch' = now
        /\ change' = CASE call[c].kind = "edit" -> [edit |-> call[c].edit, docKey |-> None]
                       [] call[c].kind = "revert" -> None
                       [] OTHER -> change
        /\ IF refreshing = None
           THEN Begin(c, now)
           ELSE /\ call' = [call EXCEPT ![c].joins = refreshing, ![c].edit = None]
                /\ Goto(c, "joining")
                /\ UNCHANGED refreshing
    BY <1>4 DEF Enter
  <2>2. now \in Nat /\ epoch <= now /\ now <= epoch'
        /\ (now = epoch => ~HasRecord(c))
    BY <1>2, <2>1
  <2> HIDE DEF now
  <2>3. HasRecord(c) => at[c] = "edited" /\ call[c].edit # None /\ IsPast(call[c].edit)
                        /\ call[c].edit \in Fingerprints
    BY <1>2 DEF PanelInv, Knows, CallSet, Prints
  <2>4. change' \in ChangeSet \cup {None}
        /\ (~HasRecord(c) => change' = change)
        /\ (HasRecord(c) => change' \in {[edit |-> call[c].edit, docKey |-> None], None})
    BY <1>2, <2>1, <2>3 DEF HasRecord, ChangeSet, Prints
  <2>5. Onward
    <3>1. epoch' = epoch => change' = change
      BY <1>2, <2>1, <2>2, <2>4
    <3> QED
      BY <1>1, <1>2, <2>1, <2>2, <3>1 DEF Onward, Forward
  <2>6. Stamped'
    <3>1. CASE ~HasRecord(c)
      BY <1>1, <2>4, <2>5, <3>1, StampedStays
    <3>2. CASE HasRecord(c)
      BY <1>1, <2>3, <2>4, <3>2 DEF Stamped, IsPast
    <3> QED
      BY <3>1, <3>2
  <2>7. CASE refreshing = None
    <3>1. Begin(c, now) /\ UNCHANGED <<closed, attempt, pass>>
          /\ at[c] \notin {"idle", "opening", "rendering", "acknowledging"}
      BY <1>1, <2>1, <2>7
    <3> QED
      BY <1>1, <1>2, <1>4, <2>2, <2>4, <2>5, <2>6, <3>1, BeginKeeps
  <2>8. CASE refreshing # None
    <3> DEFINE q == [call[c] EXCEPT !.joins = refreshing, !.edit = None]
    <3>1. call' = [call EXCEPT ![c] = q] /\ Goto(c, "joining") /\ UNCHANGED refreshing
          /\ "joining" \in Steps
      BY <2>1, <2>8 DEF Steps, PanelInv, PanelTyped
    <3>2. q \in CallSet /\ q.kind = call[c].kind
      BY <1>2 DEF CallSet, Prints
    <3> HIDE DEF q
    <3>3. at'[c] = "joining" /\ call'[c] = q
          /\ (c # AutoRefresh => at'[AutoRefresh] = at[AutoRefresh])
      BY <3>1, NewCalls DEF PanelInv, PanelTyped, Goto
    <3>4. AutoInv'
      BY <1>1, <3>3 DEF PanelInv, AutoInv
    <3>5. Knows(c)'
      <4>1. c = AutoRefresh => ~HasRecord(c)'
        BY <3>2, <3>3 DEF PanelInv, Knows, HasRecord
      <4> QED
        BY <1>4, <3>3, <4>1 DEF Knows
    <3>6. attempt' \in 0..MaxRetries /\ UNCHANGED closed
          /\ (refreshing' = refreshing
              /\ at[c] \notin {"opening", "rendering", "acknowledging"})
      BY <3>1 DEF PanelInv, PanelTyped
    <3> QED
      BY <1>1, <1>2, <2>4, <2>5, <2>6, <3>1, <3>2, <3>4, <3>5, <3>6, CallerMoves
  <2> QED
    BY <2>7, <2>8
<1> QED
  BY <1>3, <1>4

\* Each field that stays typed, for the steps that touch nothing else of the panel.
LEMMA TypedFields ==
    ASSUME PanelInv
    PROVE  /\ doc \in Prints /\ status \in {"idle", "opening", "ready", "error"}
           /\ change \in ChangeSet \cup {None} /\ epoch \in Nat /\ closed \in BOOLEAN
           /\ attempt \in 0..MaxRetries /\ refreshing \in All \cup {None}
           /\ at \in [All -> Steps] /\ call \in [All -> CallSet]
BY DEF PanelInv, PanelTyped

\* A step that leaves the document and the record alone.
LEMMA Undisturbed ==
    ASSUME PanelInv, WatcherTyped, WatcherTyped', UNCHANGED <<doc, change, epoch>>,
           Forward
    PROVE  Onward /\ Stamped'
<1>1. Onward
  BY TypedFields DEF Onward
<1> QED
  BY <1>1, StampedStays

\* A watcher that did not move has its types, and its files.
LEMMA WatcherTypesStay ==
    ASSUME WatcherTyped, UNCHANGED <<diskVars, watcherVars>>
    PROVE  /\ WatcherTyped' /\ UNCHANGED <<file, pass>>
           /\ Forward
<1>1. WatcherTyped' /\ UNCHANGED <<file, filePath, pass>>
  BY DEF WatcherTyped, diskVars, watcherVars
<1>2. \A p \in Paths : file[p] \in Nat
  BY DEF WatcherTyped
<1> QED
  BY <1>1, <1>2 DEF Forward

\* A caller other than the watcher's refresh moves without a document or a record
\* of its own, and without the refresh it is not in.
LEMMA AnotherMoves ==
    ASSUME PanelInv, WatcherTyped, WatcherTyped', Onward,
           NEW c \in Callers, NEW step \in Steps, NEW q \in CallSet,
           Goto(c, step), call' = [call EXCEPT ![c] = q],
           doc' \in Prints, status' \in {"idle", "opening", "ready", "error"},
           change' \in ChangeSet \cup {None}, Stamped',
           UNCHANGED <<closed, attempt, refreshing, pass>>,
           at[c] \notin {"opening", "rendering", "acknowledging"}, Knows(c)'
    PROVE  PanelInv'
<1>1. c \in All /\ c # AutoRefresh
  BY NewCalls, ViewerAssumption
<1>2. AutoInv'
  BY <1>1, NewCalls DEF PanelInv, PanelTyped, AutoInv, Goto
<1>3. attempt' \in 0..MaxRetries /\ UNCHANGED closed
      /\ (refreshing' = refreshing /\ at[c] \notin {"opening", "rendering", "acknowledging"})
  BY TypedFields
<1> QED
  BY <1>1, <1>2, <1>3, CallerMoves

\* As it moves, its place and its call are these.
LEMMA MovedTo ==
    ASSUME PanelInv, NEW c \in All, NEW step, NEW q, Goto(c, step),
           call' = [call EXCEPT ![c] = q]
    PROVE  at'[c] = step /\ call'[c] = q
BY DEF PanelInv, PanelTyped, Goto

\* The tool changes the file, and knows what it made of it.
LEMMA ToolWritesKeeps ==
    ASSUME PanelInv, WatcherInv, NEW c \in Callers, NEW p \in Paths, ToolWrites(c, p)
    PROVE  PanelInv' /\ WatcherInv'
<1>1. WatcherInv' /\ Forward
  BY WriteKeeps DEF ToolWrites, Forward, watcherVars
<1>2. WatcherTyped /\ WatcherTyped' /\ UNCHANGED <<pass>> /\ c \in All
  BY <1>1, NewCalls DEF WatcherInv, ToolWrites, watcherVars
<1>3. PICK kind \in {"edit", "revert"} :
          call' = [call EXCEPT ![c] = [NewCall EXCEPT !.kind = kind,
                                                      !.edit = <<p, file[p] + 1>>]]
  BY Zenon DEF ToolWrites
<1>4. at[c] = "idle" /\ Goto(c, "edited") /\ UNCHANGED <<panelVars, closed, refreshing, attempt>>
      /\ file' = [file EXCEPT ![p] = @ + 1]
  BY Zenon DEF ToolWrites, Write
<1> DEFINE q == [NewCall EXCEPT !.kind = kind, !.edit = <<p, file[p] + 1>>]
<1>5. q \in CallSet /\ q.edit = <<p, file[p] + 1>> /\ file'[p] = file[p] + 1
      /\ q.edit \in Fingerprints
  <2>1. file[p] \in Nat /\ file'[p] = file[p] + 1
    BY <1>2, <1>4 DEF WatcherTyped
  <2>2. <<p, file[p] + 1>> \in Fingerprints
    BY <2>1 DEF Fingerprints, Versions
  <2>3. NewCall \in CallSet /\ <<p, file[p] + 1>> \in Prints /\ kind \in Kinds
    BY <2>2, NewCalls DEF Prints, Kinds
  <2> HIDE DEF q
  <2>4. \A print \in Prints : LET r == [NewCall EXCEPT !.kind = kind, !.edit = print]
                             IN  r \in CallSet /\ r.edit = print
    BY <2>3 DEF CallSet
  <2>5. q \in CallSet /\ q.edit = <<p, file[p] + 1>>
    BY <2>3, <2>4 DEF q
  <2> QED
    BY <2>1, <2>2, <2>5
<1>6. call' = [call EXCEPT ![c] = q] /\ "edited" \in Steps
  BY <1>3 DEF Steps
<1> HIDE DEF q
<1>7. at'[c] = "edited" /\ call'[c] = q
  BY <1>2, <1>4, <1>6, MovedTo
<1>8. Onward /\ Stamped'
  BY <1>1, <1>2, <1>4, Undisturbed DEF panelVars
<1>9. Knows(c)'
  <2>1. c # AutoRefresh
    BY ViewerAssumption
  <2>2. q.edit # None /\ q.edit[2] <= file'[q.edit[1]]
    BY <1>5, FingerprintParts
  <2> QED
    BY <1>7, <2>1, <2>2 DEF Knows, IsPast
<1>10. /\ doc' \in Prints /\ status' \in {"idle", "opening", "ready", "error"}
       /\ change' \in ChangeSet \cup {None}
       /\ UNCHANGED <<closed, attempt, refreshing, pass>>
       /\ at[c] \notin {"opening", "rendering", "acknowledging"}
  BY <1>2, <1>4, TypedFields DEF panelVars
<1>11. PanelInv'
  BY <1>2, <1>4, <1>5, <1>6, <1>8, <1>9, <1>10, AnotherMoves
<1> QED
  BY <1>1, <1>11

\* Who opens the document, or has an edit to show, is not the watcher's refresh.
LEMMA WhoOpens ==
    ASSUME PanelInv, NEW c \in All,
           at[c] \in {"edited", "open", "render", "watch", "seen", "over"}
    PROVE  c \in Callers
BY DEF PanelInv, AutoInv, All

\* A caller is done, whatever it asked for.
LEMMA IsOver ==
    ASSUME PanelInv, WatcherTyped, WatcherTyped', Onward, Stamped', NEW c \in Callers,
           Goto(c, "over"), call' = [call EXCEPT ![c] = NewCall],
           doc' \in Prints, status' \in {"idle", "opening", "ready", "error"},
           change' \in ChangeSet \cup {None},
           UNCHANGED <<closed, attempt, refreshing, pass>>,
           at[c] \notin {"opening", "rendering", "acknowledging"}
    PROVE  PanelInv'
<1>1. c \in All /\ c # AutoRefresh /\ NewCall \in CallSet /\ "over" \in Steps
  BY NewCalls, ViewerAssumption DEF Steps
<1>2. at'[c] = "over"
  BY <1>1, MovedTo
<1>3. Knows(c)'
  BY <1>1, <1>2 DEF Knows
<1> QED
  BY <1>1, <1>3, AnotherMoves

\* Only a panel that shows the document is refreshed.
LEMMA ToolRefreshesKeeps ==
    ASSUME PanelInv, WatcherInv, NEW c \in All, ToolRefreshes(c)
    PROVE  PanelInv' /\ WatcherInv'
<1>1. at[c] = "edited" /\ UNCHANGED <<diskVars, watcherVars, doc, status, closed, attempt>>
  BY DEF ToolRefreshes
<1>2. WatcherInv' /\ WatcherTyped /\ WatcherTyped' /\ UNCHANGED <<file, pass>>
      /\ Forward
  BY <1>1, WatcherStays, WatcherTypesStay DEF WatcherInv
<1>3. CASE Enter(c)
  BY <1>1, <1>2, <1>3, EnterKeeps
<1>4. CASE /\ Goto(c, "over") /\ call' = [call EXCEPT ![c] = NewCall]
           /\ UNCHANGED <<change, epoch, refreshing>>
  <2>1. Onward /\ Stamped' /\ c \in Callers
    BY <1>1, <1>2, <1>4, Undisturbed, WhoOpens
  <2>2. /\ doc' \in Prints /\ status' \in {"idle", "opening", "ready", "error"}
        /\ change' \in ChangeSet \cup {None}
        /\ UNCHANGED <<closed, attempt, refreshing, pass>>
        /\ at[c] \notin {"opening", "rendering", "acknowledging"}
    BY <1>1, <1>2, <1>4, TypedFields
  <2> QED
    BY <1>2, <1>4, <2>1, <2>2, IsOver
<1> QED
  BY <1>2, <1>3, <1>4 DEF ToolRefreshes

\* A button asks for a refresh, without a record.
LEMMA ButtonKeeps ==
    ASSUME PanelInv, WatcherInv, NEW c \in Callers, Button(c)
    PROVE  PanelInv' /\ WatcherInv'
<1>1. PICK kind \in {"forced", "plain"} :
          call' = [call EXCEPT ![c] = [NewCall EXCEPT !.kind = kind]]
  BY DEF Button
<1>2. /\ at[c] = "idle" /\ Goto(c, "called") /\ "called" \in Steps
      /\ UNCHANGED <<diskVars, watcherVars, panelVars, closed, refreshing, attempt>>
  BY DEF Button, Steps
<1>3. WatcherInv' /\ WatcherTyped /\ WatcherTyped' /\ UNCHANGED <<file, pass>>
      /\ Forward
  BY <1>2, WatcherStays, WatcherTypesStay DEF WatcherInv
<1>4. Onward /\ Stamped'
  BY <1>2, <1>3, Undisturbed DEF panelVars
<1> DEFINE q == [NewCall EXCEPT !.kind = kind]
<1>5. q \in CallSet /\ q.kind = kind /\ call' = [call EXCEPT ![c] = q]
  BY <1>1, NewCalls DEF NewCall, CallSet, Kinds
<1> HIDE DEF q
<1>6. at'[c] = "called" /\ call'[c] = q /\ c # AutoRefresh
  BY <1>2, <1>5, MovedTo, NewCalls, ViewerAssumption
<1>7. Knows(c)'
  BY <1>5, <1>6 DEF Knows, HasRecord
<1>8. /\ doc' \in Prints /\ status' \in {"idle", "opening", "ready", "error"}
      /\ change' \in ChangeSet \cup {None}
      /\ UNCHANGED <<closed, attempt, refreshing, pass>>
      /\ at[c] \notin {"opening", "rendering", "acknowledging"}
  BY <1>2, <1>3, TypedFields DEF panelVars
<1>9. PanelInv'
  BY <1>2, <1>3, <1>4, <1>5, <1>7, <1>8, AnotherMoves
<1> QED
  BY <1>3, <1>9

\* refresh() is called by a button or by the watcher.
LEMMA CalledKeeps ==
    ASSUME PanelInv, WatcherInv, NEW c \in All, Called(c)
    PROVE  PanelInv' /\ WatcherInv'
<1>1. at[c] = "called" /\ Enter(c)
      /\ UNCHANGED <<diskVars, watcherVars, doc, status, closed, attempt>>
  BY DEF Called
<1> QED
  BY <1>1, EnterKeeps, WatcherStays DEF WatcherInv

\* openDocument() begins.
LEMMA OpenDocumentKeeps ==
    ASSUME PanelInv, WatcherInv, NEW c \in Callers, NEW p \in Paths, OpenDocument(c, p)
    PROVE  PanelInv' /\ WatcherInv'
<1>1. /\ at[c] = "idle" /\ Goto(c, "open") /\ "open" \in Steps /\ status' = "opening"
      /\ call' = [call EXCEPT ![c] = [NewCall EXCEPT !.path = p]]
      /\ UNCHANGED <<diskVars, watcherVars, doc, change, epoch, closed, refreshing, attempt>>
  BY DEF OpenDocument, Steps
<1>2. WatcherInv' /\ WatcherTyped /\ WatcherTyped' /\ UNCHANGED <<file, pass>>
      /\ Forward
  BY <1>1, WatcherStays, WatcherTypesStay DEF WatcherInv
<1>3. Onward /\ Stamped'
  BY <1>1, <1>2, Undisturbed
<1> DEFINE q == [NewCall EXCEPT !.path = p]
<1>4. q \in CallSet /\ q.path = p /\ call' = [call EXCEPT ![c] = q]
  BY <1>1, NewCalls DEF NewCall, CallSet
<1> HIDE DEF q
<1>5. at'[c] = "open" /\ call'[c] = q /\ c # AutoRefresh
  BY <1>1, <1>4, MovedTo, NewCalls, ViewerAssumption
<1>6. Knows(c)'
  BY <1>4, <1>5 DEF Knows
<1>7. /\ doc' \in Prints /\ status' \in {"idle", "opening", "ready", "error"}
      /\ change' \in ChangeSet \cup {None}
      /\ UNCHANGED <<closed, attempt, refreshing, pass>>
      /\ at[c] \notin {"opening", "rendering", "acknowledging"}
  BY <1>1, <1>2, TypedFields
<1>8. PanelInv'
  BY <1>1, <1>2, <1>3, <1>4, <1>6, <1>7, AnotherMoves
<1> QED
  BY <1>2, <1>8

\* It fails.
LEMMA OpenFailsKeeps ==
    ASSUME PanelInv, WatcherInv, NEW c \in All, OpenFails(c)
    PROVE  PanelInv' /\ WatcherInv'
<1>1. /\ at[c] \in {"open", "render"} /\ Goto(c, "over") /\ status' = "error"
      /\ call' = [call EXCEPT ![c] = NewCall]
      /\ UNCHANGED <<diskVars, watcherVars, doc, change, epoch, closed, refreshing, attempt>>
  BY DEF OpenFails
<1>2. WatcherInv' /\ WatcherTyped /\ WatcherTyped' /\ UNCHANGED <<file, pass>>
      /\ Forward
  BY <1>1, WatcherStays, WatcherTypesStay DEF WatcherInv
<1>3. Onward /\ Stamped' /\ c \in Callers
  BY <1>1, <1>2, Undisturbed, WhoOpens
<1>4. /\ doc' \in Prints /\ status' \in {"idle", "opening", "ready", "error"}
      /\ change' \in ChangeSet \cup {None}
      /\ UNCHANGED <<closed, attempt, refreshing, pass>>
      /\ at[c] \notin {"opening", "rendering", "acknowledging"}
  BY <1>1, <1>2, TypedFields
<1> QED
  BY <1>1, <1>2, <1>3, <1>4, IsOver

\* The cache has opened the document: its key is that of the file there is.
LEMMA DocumentOpensKeeps ==
    ASSUME PanelInv, WatcherInv, NEW c \in All, DocumentOpens(c)
    PROVE  PanelInv' /\ WatcherInv'
<1>1. /\ at[c] = "open" /\ Goto(c, "render") /\ "render" \in Steps
      /\ call' = [call EXCEPT ![c] = [call[c] EXCEPT !.key = Fingerprint(call[c].path)]]
      /\ UNCHANGED <<diskVars, watcherVars, panelVars, closed, refreshing, attempt>>
  BY DEF DocumentOpens, Steps
<1>2. WatcherInv' /\ WatcherTyped /\ WatcherTyped' /\ UNCHANGED <<file, pass>>
      /\ Forward
  BY <1>1, WatcherStays, WatcherTypesStay DEF WatcherInv
<1>3. Onward /\ Stamped' /\ c \in Callers
  BY <1>1, <1>2, Undisturbed, WhoOpens DEF panelVars
<1>4. call[c].path \in Paths /\ call[c] \in CallSet
      /\ Fingerprint(call[c].path) \in Prints /\ Fingerprint(call[c].path) # None
  BY <1>1, <1>2, FingerprintsOfNow, TypedFields DEF PanelInv, Knows, Prints
<1> DEFINE q == [call[c] EXCEPT !.key = Fingerprint(call[c].path)]
<1>5. q \in CallSet /\ q.key # None /\ q.path \in Paths /\ call' = [call EXCEPT ![c] = q]
  BY <1>1, <1>4 DEF CallSet
<1> HIDE DEF q
<1>6. at'[c] = "render" /\ call'[c] = q /\ c # AutoRefresh
  BY <1>1, <1>3, <1>5, MovedTo, ViewerAssumption
<1>7. Knows(c)'
  BY <1>5, <1>6 DEF Knows
<1>8. /\ doc' \in Prints /\ status' \in {"idle", "opening", "ready", "error"}
      /\ change' \in ChangeSet \cup {None}
      /\ UNCHANGED <<closed, attempt, refreshing, pass>>
      /\ at[c] \notin {"opening", "rendering", "acknowledging"}
  BY <1>1, <1>2, TypedFields DEF panelVars
<1>9. PanelInv'
  BY <1>1, <1>2, <1>3, <1>5, <1>7, <1>8, AnotherMoves
<1> QED
  BY <1>2, <1>9

\* The panel shows it without a record, and points its watcher at it.
LEMMA DocumentShowsKeeps ==
    ASSUME PanelInv, WatcherInv, NEW c \in All, DocumentShows(c)
    PROVE  PanelInv' /\ WatcherInv'
<1> DEFINE step == IF filePath = call[c].path /\ watching THEN "seen" ELSE "watch"
<1>1. /\ at[c] = "render" /\ Goto(c, step) /\ status' = "ready" /\ change' = None
      /\ doc' = call[c].key
      /\ UNCHANGED <<news, watcherVars>> \/ PointAt(call[c].path)
      /\ call' = [call EXCEPT ![c].path = None, ![c].key = Fingerprint(call[c].path)]
      /\ UNCHANGED <<file, events, epoch, closed, refreshing, attempt>>
  BY DEF DocumentShows
<1>2. c \in Callers /\ c # AutoRefresh /\ call[c].path \in Paths /\ call[c].key # None
      /\ call[c] \in CallSet
  BY <1>1, WhoOpens, ViewerAssumption, TypedFields DEF PanelInv, Knows
<1>3. WatcherInv'
  <2>1. CASE UNCHANGED <<news, watcherVars>>
    BY <1>1, <2>1, WatcherStays DEF diskVars
  <2>2. CASE PointAt(call[c].path)
    BY <1>1, <1>2, <2>2, CloseWatcherKeeps DEF PointAt
  <2> QED
    BY <1>1, <2>1, <2>2
<1>4. WatcherTyped /\ WatcherTyped' /\ pass' = pass
      /\ Forward
  <2>1. (\A r \in Paths : file[r] \in Nat) /\ None \notin Paths
    BY WatcherAssumption DEF WatcherInv, WatcherTyped
  <2> QED
    BY <1>1, <1>2, <1>3, <2>1 DEF WatcherInv, watcherVars, PointAt, Forward
<1>5. /\ doc' \in Prints /\ doc' # None /\ status' \in {"idle", "opening", "ready", "error"}
      /\ change' \in ChangeSet \cup {None}
      /\ UNCHANGED <<closed, attempt, refreshing, pass>>
      /\ at[c] \notin {"opening", "rendering", "acknowledging"}
  BY <1>1, <1>2, <1>4 DEF CallSet
<1>6. Onward /\ Stamped'
  BY <1>1, <1>4, <1>5, TypedFields DEF Onward, Stamped
<1> DEFINE q == [call[c] EXCEPT !.path = None, !.key = Fingerprint(call[c].path)]
<1>7. step \in Steps /\ call' = [call EXCEPT ![c] = q] /\ q \in CallSet
  <2>1. Fingerprint(call[c].path) \in Prints
    BY <1>2, <1>4, FingerprintsOfNow DEF Prints
  <2> QED
    BY <1>1, <1>2, <2>1, TypedFields DEF Steps, CallSet
<1> HIDE DEF q
<1>8. at'[c] = step /\ step \in {"seen", "watch"}
  BY <1>1, <1>2, <1>7, MovedTo, NewCalls
<1>9. Knows(c)'
  <2>1. filePath' # None
    BY <1>1, <1>2, WatcherAssumption DEF DocumentShows, PointAt, watcherVars
  <2> QED
    BY <1>2, <1>8, <2>1 DEF Knows
<1> HIDE DEF step
<1>10. PanelInv'
  BY <1>1, <1>2, <1>4, <1>5, <1>6, <1>7, <1>9, AnotherMoves
<1> QED
  BY <1>3, <1>10

\* Its watcher is attached, with a fingerprint of the file.
LEMMA DocumentWatchedKeeps ==
    ASSUME PanelInv, WatcherInv, NEW c \in All, DocumentWatched(c)
    PROVE  PanelInv' /\ WatcherInv'
<1>1. /\ at[c] = "watch" /\ Goto(c, "seen") /\ "seen" \in Steps
      /\ BeginWatching(call[c].key)
      /\ call' = [call EXCEPT ![c].path = None, ![c].key = Current]
      /\ UNCHANGED <<file, news, panelVars, closed, refreshing, attempt>>
  BY DEF DocumentWatched, Steps
<1>2. WatcherInv'
  <2>1. filePath \in Paths /\ watching' = TRUE
    BY <1>1 DEF BeginWatching, PanelInv, Knows, WatcherInv, WatcherTyped
  <2>2. call[c].key \in Prints
    BY TypedFields DEF CallSet
  <2> QED
    BY <1>1, <2>1, <2>2, AcknowledgeKeeps DEF BeginWatching
<1>3. WatcherTyped /\ WatcherTyped' /\ UNCHANGED <<file, pass>>
      /\ Forward
  <2>1. (\A r \in Paths : file[r] \in Nat) /\ None \notin Paths
    BY WatcherAssumption DEF WatcherInv, WatcherTyped
  <2> QED
    BY <1>1, <1>2, <2>1 DEF WatcherInv, BeginWatching, Forward
<1>4. Onward /\ Stamped' /\ c \in Callers
  BY <1>1, <1>3, Undisturbed, WhoOpens DEF panelVars
<1> DEFINE q == [call[c] EXCEPT !.path = None, !.key = Current]
<1>5. at'[c] = "seen" /\ c # AutoRefresh /\ call' = [call EXCEPT ![c] = q]
      /\ q \in CallSet
  <2>1. Current \in Prints
    BY <1>3, AnswersToCurrent DEF Answers
  <2>2. call[c] \in CallSet /\ call' = [call EXCEPT ![c] = q]
    BY <1>1, TypedFields
  <2>3. q \in CallSet
    BY <2>1, <2>2 DEF CallSet
  <2> QED
    BY <1>1, <1>4, <2>2, <2>3, MovedTo, ViewerAssumption
<1> HIDE DEF q
<1>6. Knows(c)'
  BY <1>5 DEF Knows
<1>7. /\ doc' \in Prints /\ status' \in {"idle", "opening", "ready", "error"}
      /\ change' \in ChangeSet \cup {None}
      /\ UNCHANGED <<closed, attempt, refreshing, pass>>
      /\ at[c] \notin {"opening", "rendering", "acknowledging"}
  BY <1>1, <1>3, TypedFields DEF panelVars
<1>8. PanelInv'
  BY <1>1, <1>3, <1>4, <1>5, <1>6, <1>7, AnotherMoves
<1> QED
  BY <1>2, <1>8

\* And acknowledges what is shown.
LEMMA DocumentSeenKeeps ==
    ASSUME PanelInv, WatcherInv, NEW c \in All, DocumentSeen(c)
    PROVE  PanelInv' /\ WatcherInv'
<1>1. /\ at[c] = "seen" /\ Goto(c, "over") /\ Acknowledge(call[c].key)
      /\ call' = [call EXCEPT ![c] = NewCall]
      /\ UNCHANGED <<file, news, filePath, watching, timer, again, pass,
                     panelVars, closed, refreshing, attempt>>
  BY DEF DocumentSeen
<1>2. WatcherInv'
  <2>1. watching' \in BOOLEAN /\ (watching' => filePath \in Paths)
    BY <1>1 DEF WatcherInv, WatcherTyped, Pointed
  <2>2. call[c].key \in Prints
    BY TypedFields DEF CallSet
  <2> QED
    BY <1>1, <2>1, <2>2, AcknowledgeKeeps
<1>3. WatcherTyped /\ WatcherTyped' /\ UNCHANGED <<file, pass>>
      /\ Forward
  <2>1. (\A r \in Paths : file[r] \in Nat) /\ None \notin Paths
    BY WatcherAssumption DEF WatcherInv, WatcherTyped
  <2> QED
    BY <1>1, <1>2, <2>1 DEF WatcherInv, Forward
<1>4. Onward /\ Stamped' /\ c \in Callers
  BY <1>1, <1>3, Undisturbed, WhoOpens DEF panelVars
<1>5. /\ doc' \in Prints /\ status' \in {"idle", "opening", "ready", "error"}
      /\ change' \in ChangeSet \cup {None}
      /\ UNCHANGED <<closed, attempt, refreshing, pass>>
      /\ at[c] \notin {"opening", "rendering", "acknowledging"}
  BY <1>1, <1>3, TypedFields DEF panelVars
<1> QED
  BY <1>1, <1>2, <1>3, <1>4, <1>5, IsOver

\* The render joined is over: the joiner takes its answer, or renders itself.
LEMMA JoinedKeeps ==
    ASSUME PanelInv, WatcherInv, NEW c \in All, Joined(c)
    PROVE  PanelInv' /\ WatcherInv'
<1>1. at[c] = "joined" /\ UNCHANGED <<diskVars, watcherVars, panelVars, closed, attempt>>
  BY DEF Joined
<1>2. WatcherInv' /\ WatcherTyped /\ WatcherTyped' /\ UNCHANGED <<file, pass>> /\ Forward
  BY <1>1, WatcherStays, WatcherTypesStay DEF WatcherInv
<1>3. Onward /\ Stamped' /\ doc # None
  BY <1>1, <1>2, Undisturbed DEF panelVars, PanelInv, Knows
<1>4. /\ doc' \in Prints /\ status' \in {"idle", "opening", "ready", "error"}
      /\ change' \in ChangeSet \cup {None} /\ UNCHANGED <<closed, attempt, pass>>
      /\ at[c] \notin {"idle", "opening", "rendering", "acknowledging"}
  BY <1>1, <1>2, TypedFields DEF panelVars
<1>5. CASE Begin(c, epoch)
  <2>1. epoch \in Nat /\ epoch <= epoch'
    BY <1>1, TypedFields DEF panelVars
  <2> QED
    BY <1>2, <1>3, <1>4, <1>5, <2>1, BeginKeeps
<1>6. CASE /\ Goto(c, Ended(c))
           /\ call' = IF c = AutoRefresh THEN call ELSE [call EXCEPT ![c] = NewCall]
           /\ UNCHANGED refreshing
  <2>1. CASE c # AutoRefresh
    <3>1. c \in Callers /\ Goto(c, "over") /\ call' = [call EXCEPT ![c] = NewCall]
          /\ UNCHANGED <<closed, attempt, refreshing, pass>>
      BY <1>4, <1>6, <2>1 DEF Ended, All
    <3> QED
      BY <1>2, <1>3, <1>4, <3>1, IsOver
  <2>2. CASE c = AutoRefresh
    <3>1. /\ Goto(c, "returned") /\ "returned" \in Steps
          /\ call' = [call EXCEPT ![c] = call[c]] /\ call[c] \in CallSet
      BY <1>6, <2>2, TypedFields DEF Ended, Steps
    <3>2. at'[c] = "returned" /\ call'[c] = call[c]
      BY <3>1, MovedTo
    <3>3. AutoInv'
      BY <1>1, <1>2, <2>2, <3>2 DEF PanelInv, AutoInv
    <3>4. Knows(c)'
      <4>1. ~HasRecord(c)'
        BY <2>2, <3>2 DEF PanelInv, Knows, HasRecord
      <4> QED
        BY <3>2, <4>1 DEF Knows
    <3>5. attempt' \in 0..MaxRetries /\ UNCHANGED closed
          /\ (refreshing' = refreshing
              /\ at[c] \notin {"opening", "rendering", "acknowledging"})
      BY <1>4, <1>6, TypedFields
    <3> QED
      BY <1>2, <1>3, <1>4, <3>1, <3>3, <3>4, <3>5, CallerMoves
  <2> QED
    BY <2>1, <2>2
<1>7. PanelInv'
  BY <1>5, <1>6 DEF Joined
<1> QED
  BY <1>2, <1>7

\* cache.refresh answers.  The key is the file's as it is now, which is no older
\* than the edit of the record there is.
LEMMA OpenedKeeps ==
    ASSUME PanelInv, WatcherInv, NEW c \in All, Opened(c)
    PROVE  PanelInv' /\ WatcherInv'
<1>1. at[c] = "opening" /\ UNCHANGED <<diskVars, watcherVars, panelVars, closed, attempt>>
  BY DEF Opened
<1>2. WatcherInv' /\ WatcherTyped /\ WatcherTyped' /\ UNCHANGED <<file, pass>> /\ Forward
  BY <1>1, WatcherStays, WatcherTypesStay DEF WatcherInv
<1>3. Onward /\ Stamped'
  BY <1>1, <1>2, Undisturbed DEF panelVars
<1>4. /\ doc' \in Prints /\ status' \in {"idle", "opening", "ready", "error"}
      /\ change' \in ChangeSet \cup {None} /\ UNCHANGED <<closed, attempt, pass>>
      /\ at[c] # "idle"
  BY <1>1, <1>2, TypedFields DEF panelVars
<1>5. ASSUME NEW answer \in {"failed", "hopeless", "closed", "same"}, Settle(c, answer)
      PROVE  PanelInv'
  <2>1. answer \in Ends
    BY DEF Ends
  <2> QED
    BY <1>2, <1>3, <1>4, <1>5, <2>1, SettleKeeps
<1>6. CASE /\ call' = [call EXCEPT ![c].key = Fingerprint(call[c].path)]
           /\ Goto(c, "rendering") /\ UNCHANGED refreshing
  <2> DEFINE p == call[c].path
             q == [call[c] EXCEPT !.key = Fingerprint(p)]
  <2>1. /\ p \in Paths /\ call[c] \in CallSet /\ call[c].epoch <= epoch
        /\ epoch' = epoch /\ change' = change
    BY <1>1, TypedFields DEF PanelInv, Knows, panelVars
  <2>2. /\ Fingerprint(p) \in Fingerprints /\ Fingerprint(p) # None
        /\ Fingerprint(p)[1] = p /\ Fingerprint(p)[2] = file[p]
    BY <1>2, <2>1, FingerprintsOfNow
  <2>3. /\ q \in CallSet /\ q.key = Fingerprint(p) /\ q.path = p /\ q.kind = call[c].kind
        /\ q.epoch = call[c].epoch /\ call' = [call EXCEPT ![c] = q]
        /\ "rendering" \in Steps
    BY <1>6, <2>1, <2>2 DEF CallSet, Prints, Steps
  <2> HIDE DEF p, q
  <2>4. at'[c] = "rendering" /\ call'[c] = q
        /\ (c # AutoRefresh => at'[AutoRefresh] = at[AutoRefresh])
    BY <1>6, <2>3, NewCalls DEF PanelInv, PanelTyped, Goto
  <2>5. AutoInv'
    BY <1>1, <1>2, <2>4 DEF PanelInv, AutoInv
  <2>6. Knows(c)'
    <3>1. c = AutoRefresh => ~HasRecord(c)'
      BY <2>3, <2>4 DEF PanelInv, Knows, HasRecord
    <3>2. change # None /\ p = change.edit[1] => change.edit[2] <= file[p]
      <4>1. change # None => change.edit # None
        BY TypedFields, FingerprintParts DEF ChangeSet
      <4> QED
        BY <4>1 DEF PanelInv, Stamped, IsPast
    <3>3. /\ call'[c].path \in Paths /\ call'[c].key # None /\ call'[c].epoch <= epoch'
          /\ change' # None /\ call'[c].key[1] = change'.edit[1] =>
                change'.edit[2] <= call'[c].key[2]
      <4>1. call'[c].path = p /\ call'[c].key = Fingerprint(p)
            /\ call'[c].epoch = call[c].epoch
        BY <2>3, <2>4
      <4> QED
        BY <2>1, <2>2, <3>2, <4>1
    <3> QED
      BY <2>4, <3>1, <3>3 DEF Knows
  <2>7. attempt' \in 0..MaxRetries /\ UNCHANGED closed
        /\ (refreshing' \in {refreshing, c}
            /\ "rendering" \in {"opening", "rendering", "acknowledging"})
    BY <1>4, <1>6, TypedFields
  <2> QED
    BY <1>2, <1>3, <1>4, <1>6, <2>3, <2>5, <2>6, <2>7, CallerMoves
<1>7. PanelInv'
  BY <1>5, <1>6 DEF Opened, Fails
<1> QED
  BY <1>2, <1>7

\* cache.pdf answers: the record is stamped if it is the one the render began with,
\* and then the key is no older than its edit.
LEMMA RenderedKeeps ==
    ASSUME PanelInv, WatcherInv, NEW c \in All, Rendered(c)
    PROVE  PanelInv' /\ WatcherInv'
<1>1. at[c] = "rendering" /\ UNCHANGED <<diskVars, watcherVars, closed, attempt>>
  BY DEF Rendered
<1>2. WatcherInv' /\ WatcherTyped /\ WatcherTyped' /\ UNCHANGED <<file, pass>> /\ Forward
  BY <1>1, WatcherStays, WatcherTypesStay DEF WatcherInv
<1>3. CASE Fails(c) /\ UNCHANGED panelVars
  <2>1. PICK answer \in {"failed", "hopeless"} : Settle(c, answer)
    BY <1>3 DEF Fails
  <2>2. Onward /\ Stamped' /\ answer \in Ends
    BY <1>2, <1>3, Undisturbed DEF panelVars, Ends
  <2>3. /\ doc' \in Prints /\ status' \in {"idle", "opening", "ready", "error"}
        /\ change' \in ChangeSet \cup {None} /\ UNCHANGED <<closed, attempt, pass>>
        /\ at[c] # "idle"
    BY <1>1, <1>2, <1>3, TypedFields DEF panelVars
  <2> QED
    BY <1>2, <2>1, <2>2, <2>3, SettleKeeps
<1>4. CASE /\ doc' = call[c].key /\ status' = "ready"
           /\ change' = IF HasRecord(c) /\ call[c].epoch = epoch /\ change # None
                        THEN [change EXCEPT !.docKey = call[c].key]
                        ELSE change
           /\ Goto(c, "acknowledging")
           /\ call' = [call EXCEPT ![c].path = None, ![c].key = Current]
           /\ UNCHANGED <<epoch, refreshing>>
  <2>1. call[c] \in CallSet /\ call[c].key # None /\ call[c].key \in Prints
    BY <1>1, TypedFields DEF PanelInv, Knows, CallSet
  <2>2. change' = change \/
           /\ change # None /\ HasRecord(c) /\ call[c].epoch = epoch
           /\ change' = [change EXCEPT !.docKey = call[c].key]
           /\ change' \in ChangeSet /\ change'.edit = change.edit
           /\ change'.docKey = call[c].key
    BY <1>4, <2>1, TypedFields DEF ChangeSet
  <2>3. Onward
    BY <1>2, <1>4, <2>1, <2>2, TypedFields DEF Onward
  <2>4. Stamped'
    <3>1. CASE change' = change
      BY <1>2, <2>3, <3>1, StampedStays
    <3>2. CASE change' # change
      <4>1. IsPast(change.edit) /\ UNCHANGED file
            /\ (call[c].key[1] = change.edit[1] => change.edit[2] <= call[c].key[2])
        BY <1>1, <1>2, <2>2, <3>2 DEF PanelInv, Stamped, Knows
      <4> QED
        BY <2>2, <3>2, <4>1 DEF Stamped, IsPast
    <3> QED
      BY <3>1, <3>2
  <2> DEFINE q == [call[c] EXCEPT !.path = None, !.key = Current]
  <2>5. at'[c] = "acknowledging" /\ call' = [call EXCEPT ![c] = q] /\ q \in CallSet
        /\ q.kind = call[c].kind /\ call'[c] = q /\ "acknowledging" \in Steps
        /\ (c # AutoRefresh => at'[AutoRefresh] = at[AutoRefresh])
    <3>1. Current \in Prints
      BY <1>2, AnswersToCurrent DEF Answers
    <3>2. q \in CallSet /\ q.kind = call[c].kind
      BY <2>1, <3>1 DEF CallSet
    <3>3. at'[c] = "acknowledging" /\ call' = [call EXCEPT ![c] = q] /\ call'[c] = q
      BY <1>4, TypedFields DEF Goto
    <3> QED
      BY <1>4, <3>2, <3>3, NewCalls DEF PanelInv, PanelTyped, Goto, Steps
  <2> HIDE DEF q
  <2>6. AutoInv'
    BY <1>1, <1>2, <2>5 DEF PanelInv, AutoInv
  <2>7. Knows(c)'
    <3>1. c = AutoRefresh => ~HasRecord(c)'
      BY <2>5 DEF PanelInv, Knows, HasRecord
    <3> QED
      BY <2>5, <3>1 DEF Knows
  <2>8. /\ doc' \in Prints /\ status' \in {"idle", "opening", "ready", "error"}
        /\ change' \in ChangeSet \cup {None}
    BY <1>4, <2>1, <2>2, TypedFields
  <2>9. attempt' \in 0..MaxRetries /\ UNCHANGED closed
        /\ (refreshing' \in {refreshing, c}
            /\ "acknowledging" \in {"opening", "rendering", "acknowledging"})
    BY <1>1, <1>4, TypedFields
  <2> QED
    BY <1>2, <1>4, <2>1, <2>3, <2>4, <2>5, <2>6, <2>7, <2>8, <2>9, CallerMoves
<1>5. PanelInv'
  BY <1>3, <1>4 DEF Rendered
<1> QED
  BY <1>2, <1>5

\* The refresh acknowledges the file and is over.
LEMMA AcknowledgedKeeps ==
    ASSUME PanelInv, WatcherInv, NEW c \in All, Acknowledged(c)
    PROVE  PanelInv' /\ WatcherInv'
<1>1. /\ at[c] = "acknowledging" /\ Acknowledge(call[c].key) /\ Settle(c, "changed")
      /\ "changed" \in Ends
      /\ UNCHANGED <<file, news, filePath, watching, timer, again, pass,
                     panelVars, closed, attempt>>
  BY DEF Acknowledged, Ends
<1>2. WatcherInv'
  <2>1. watching' \in BOOLEAN /\ (watching' => filePath \in Paths)
    BY <1>1 DEF WatcherInv, WatcherTyped, Pointed
  <2>2. call[c].key \in Prints
    BY TypedFields DEF CallSet
  <2> QED
    BY <1>1, <2>1, <2>2, AcknowledgeKeeps
<1>3. WatcherTyped /\ WatcherTyped' /\ UNCHANGED <<file, pass>> /\ Forward
  <2>1. \A r \in Paths : file[r] \in Nat
    BY DEF WatcherInv, WatcherTyped
  <2> QED
    BY <1>1, <1>2, <2>1 DEF WatcherInv, Forward
<1>4. Onward /\ Stamped'
  BY <1>1, <1>3, Undisturbed DEF panelVars
<1>5. /\ doc' \in Prints /\ status' \in {"idle", "opening", "ready", "error"}
      /\ change' \in ChangeSet \cup {None} /\ UNCHANGED <<closed, attempt, pass>>
      /\ at[c] # "idle"
  BY <1>1, <1>3, TypedFields DEF panelVars
<1> QED
  BY <1>1, <1>2, <1>3, <1>4, <1>5, SettleKeeps

\* The watcher's refresh moves, during a delivery or back to rest.
LEMMA AutoMoves ==
    ASSUME PanelInv, WatcherTyped, WatcherTyped', UNCHANGED <<doc, change, epoch>>, Forward,
           NEW step \in {"idle", "called", "sleeping"}, NEW q \in CallSet,
           q.kind \notin {"edit", "revert"},
           Goto(AutoRefresh, step), call' = [call EXCEPT ![AutoRefresh] = q],
           step # "idle" => pass'.at = "delivering",
           at[AutoRefresh] \notin {"opening", "rendering", "acknowledging"},
           status' \in {"idle", "opening", "ready", "error"}, attempt' \in 0..MaxRetries,
           UNCHANGED <<closed, refreshing>>
    PROVE  PanelInv'
<1>1. AutoRefresh \in All /\ step \in Steps
  BY NewCalls DEF Steps
<1>2. Onward /\ Stamped'
  BY Undisturbed
<1>3. at'[AutoRefresh] = step /\ call'[AutoRefresh] = q
  BY <1>1, MovedTo
<1>4. AutoInv'
  BY <1>3 DEF AutoInv
<1>5. Knows(AutoRefresh)'
  BY <1>3 DEF Knows, HasRecord
<1>6. /\ doc' \in Prints /\ change' \in ChangeSet \cup {None} /\ UNCHANGED closed
      /\ (refreshing' = refreshing
          /\ at[AutoRefresh] \notin {"opening", "rendering", "acknowledging"})
  BY TypedFields
<1> QED
  BY <1>1, <1>2, <1>4, <1>5, <1>6, CallerMoves

\* Nothing of the panel moves, and the watcher goes on delivering if it was.
LEMMA PanelStays ==
    ASSUME PanelInv, WatcherTyped, WatcherTyped', UNCHANGED <<panelVars, flowVars>>, Forward,
           closed' \in BOOLEAN, pass.at = "delivering" => pass'.at = "delivering"
    PROVE  PanelInv'
<1>1. UNCHANGED <<doc, change, epoch, at, call, refreshing>> /\ attempt' \in 0..MaxRetries
      /\ doc' \in Prints /\ status' \in {"idle", "opening", "ready", "error"}
      /\ change' \in ChangeSet \cup {None}
  BY TypedFields DEF panelVars, flowVars
<1>2. Onward /\ Stamped'
  BY <1>1, Undisturbed
<1>3. AutoInv'
  BY <1>1 DEF PanelInv, AutoInv
<1> QED
  BY <1>1, <1>2, <1>3, NobodyMoves

\* The watcher delivers: the refresh of the panel is asked for.
LEMMA DeliverChangeKeeps ==
    ASSUME PanelInv, WatcherInv, DeliverChange
    PROVE  PanelInv' /\ WatcherInv'
<1>1. /\ Deliver /\ Goto(AutoRefresh, "called") /\ attempt' = 0
      /\ call' = [call EXCEPT ![AutoRefresh] = [NewCall EXCEPT !.kind =
                     IF status = "error" THEN "forced" ELSE "plain"]]
      /\ UNCHANGED <<panelVars, closed, refreshing>>
  BY DEF DeliverChange
<1>2. WatcherInv' /\ WatcherTyped /\ WatcherTyped' /\ UNCHANGED <<file, filePath>>
      /\ pass.at = "settled" /\ pass' = [pass EXCEPT !.at = "delivering", !.before = lastSeen]
  BY <1>1, DeliverKeeps DEF WatcherInv, Deliver, diskVars
<1>3. Forward
  BY <1>2 DEF Forward, WatcherTyped
<1>4. pass'.at = "delivering"
  BY <1>2 DEF WatcherTyped, PassSet
<1>5. at[AutoRefresh] = "idle"
  BY <1>2 DEF PanelInv, AutoInv
<1> DEFINE q == [NewCall EXCEPT !.kind = IF status = "error" THEN "forced" ELSE "plain"]
<1>6. q \in CallSet /\ q.kind \in {"forced", "plain"}
  BY NewCalls DEF NewCall, CallSet, Kinds
<1>7. call' = [call EXCEPT ![AutoRefresh] = q]
  BY <1>1
<1> HIDE DEF q
<1>8. /\ UNCHANGED <<doc, change, epoch, closed, refreshing>>
      /\ status' \in {"idle", "opening", "ready", "error"} /\ attempt' \in 0..MaxRetries
  BY <1>1, TypedFields, ViewerAssumption DEF panelVars
<1>9. PanelInv'
  BY <1>1, <1>2, <1>3, <1>4, <1>5, <1>6, <1>7, <1>8, AutoMoves
<1> QED
  BY <1>2, <1>9

\* The attempt is over: consumed, given up or put off.
LEMMA AutoReturnsKeeps ==
    ASSUME PanelInv, WatcherInv, AutoReturns
    PROVE  PanelInv' /\ WatcherInv'
<1>1. at[AutoRefresh] = "returned" /\ UNCHANGED <<diskVars, doc, change, epoch, closed, refreshing>>
      /\ pass.at = "delivering" /\ AutoRefresh \in All
      /\ call[AutoRefresh] \in CallSet /\ call[AutoRefresh].kind \notin {"edit", "revert"}
  BY NewCalls, TypedFields DEF AutoReturns, PanelInv, AutoInv, Knows, HasRecord
<1>2. ASSUME UNCHANGED filePath, WatcherInv'
      PROVE  WatcherTyped /\ WatcherTyped' /\ Forward
  BY <1>1, <1>2 DEF WatcherInv, WatcherTyped, diskVars, Forward
<1>3. CASE /\ Consumed \/ Refused
           /\ Goto(AutoRefresh, "idle") /\ attempt' = 0 /\ status' \in {status, "error"}
           /\ call' = [call EXCEPT ![AutoRefresh] = NewCall]
  <2>1. WatcherInv' /\ UNCHANGED filePath
    BY <1>1, <1>3, ConsumedKeeps, RefusedKeeps DEF Consumed, Refused
  <2>2. /\ status' \in {"idle", "opening", "ready", "error"} /\ attempt' \in 0..MaxRetries
        /\ NewCall \in CallSet /\ NewCall.kind \notin {"edit", "revert"}
    BY <1>3, TypedFields, ViewerAssumption, NewCalls
  <2>3. PanelInv'
    BY <1>1, <1>2, <1>3, <2>1, <2>2, AutoMoves
  <2> QED
    BY <2>1, <2>3
<1>4. CASE /\ attempt # MaxRetries /\ attempt' = attempt + 1
           /\ Goto(AutoRefresh, "sleeping")
           /\ call' = [call EXCEPT ![AutoRefresh].answer = None]
           /\ UNCHANGED <<watcherVars, status>>
  <2> DEFINE q == [call[AutoRefresh] EXCEPT !.answer = None]
  <2>1. WatcherInv' /\ UNCHANGED <<filePath, pass>>
    BY <1>1, <1>4, WatcherStays DEF watcherVars
  <2>2. /\ status' \in {"idle", "opening", "ready", "error"} /\ attempt' \in 0..MaxRetries
    BY <1>4, TypedFields, ViewerAssumption
  <2>3. q \in CallSet /\ q.kind \notin {"edit", "revert"}
    BY <1>1 DEF CallSet
  <2>4. call' = [call EXCEPT ![AutoRefresh] = q]
    BY <1>4
  <2> HIDE DEF q
  <2>5. PanelInv'
    BY <1>1, <1>2, <1>4, <2>1, <2>2, <2>3, <2>4, AutoMoves
  <2> QED
    BY <2>1, <2>5
<1> QED
  BY <1>3, <1>4 DEF AutoReturns

\* The retry is due.
LEMMA WakeUpKeeps ==
    ASSUME PanelInv, WatcherInv, WakeUp
    PROVE  PanelInv' /\ WatcherInv'
<1>1. at[AutoRefresh] = "sleeping" /\ Goto(AutoRefresh, "called") /\ AutoRefresh \in All
      /\ UNCHANGED <<diskVars, watcherVars, panelVars, closed, refreshing, attempt, call>>
  BY NewCalls DEF WakeUp
<1>2. WatcherInv' /\ WatcherTyped /\ WatcherTyped' /\ UNCHANGED <<file, pass>> /\ Forward
  BY <1>1, WatcherStays, WatcherTypesStay DEF WatcherInv
<1>3. call[AutoRefresh] \in CallSet /\ call' = [call EXCEPT ![AutoRefresh] = call[AutoRefresh]]
      /\ call[AutoRefresh].kind \notin {"edit", "revert"} /\ pass'.at = "delivering"
  BY <1>1, <1>2, TypedFields DEF PanelInv, AutoInv, Knows, HasRecord
<1>4. /\ UNCHANGED <<doc, change, epoch, closed, refreshing>>
      /\ status' \in {"idle", "opening", "ready", "error"} /\ attempt' \in 0..MaxRetries
  BY <1>1, TypedFields DEF panelVars
<1>5. PanelInv'
  BY <1>1, <1>2, <1>3, <1>4, AutoMoves
<1> QED
  BY <1>2, <1>5

\* The panel is closed, and a retry that sleeps is woken.
LEMMA CloseKeeps ==
    ASSUME PanelInv, WatcherInv, Close
    PROVE  PanelInv' /\ WatcherInv'
<1>1. /\ closed' = TRUE /\ CloseWatcher
      /\ at' = IF at[AutoRefresh] = "sleeping" THEN [at EXCEPT ![AutoRefresh] = "called"] ELSE at
      /\ UNCHANGED <<file, events, filePath, lastSeen, written, again, pass, handled, late,
                     panelVars, refreshing, attempt, call>>
  BY DEF Close
<1>2. WatcherInv'
  BY <1>1, CloseWatcherKeeps
<1>3. WatcherTyped /\ WatcherTyped' /\ Forward /\ UNCHANGED pass
  BY <1>1, <1>2 DEF WatcherInv, WatcherTyped, Forward
<1>4. /\ UNCHANGED <<doc, change, epoch, refreshing>> /\ closed' \in BOOLEAN
      /\ doc' \in Prints /\ status' \in {"idle", "opening", "ready", "error"}
      /\ change' \in ChangeSet \cup {None} /\ attempt' \in 0..MaxRetries
  BY <1>1, TypedFields DEF panelVars
<1>5. Onward /\ Stamped'
  BY <1>3, <1>4, Undisturbed
<1>6. CASE at[AutoRefresh] # "sleeping"
  <2>1. UNCHANGED <<at, call, refreshing>>
    BY <1>1, <1>6
  <2>2. AutoInv'
    BY <1>1, <2>1 DEF PanelInv, AutoInv
  <2>3. PanelInv'
    BY <1>3, <1>4, <1>5, <2>1, <2>2, NobodyMoves
  <2> QED
    BY <1>2, <2>3
<1>7. CASE at[AutoRefresh] = "sleeping"
  <2>1. /\ AutoRefresh \in All /\ at' \in [All -> Steps] /\ at'[AutoRefresh] = "called"
        /\ \A d \in All \ {AutoRefresh} : at'[d] = at[d] /\ call'[d] = call[d]
        /\ call' = call
    BY <1>1, <1>7, TypedFields, NewCalls DEF Steps
  <2>2. AutoInv'
    BY <1>1, <1>7, <2>1 DEF PanelInv, AutoInv
  <2>3. Knows(AutoRefresh)'
    <3>1. ~HasRecord(AutoRefresh)'
      BY <2>1 DEF PanelInv, Knows, HasRecord
    <3> QED
      BY <2>1, <3>1 DEF Knows
  <2>4. \A d \in All : Knows(d)'
    BY <1>3, <1>5, <2>1, <2>3, KnowsStays
  <2>5. PanelTyped'
    <3>1. refreshing' # None => at'[refreshing'] \in {"opening", "rendering", "acknowledging"}
      BY <1>1, <1>7, <2>1 DEF PanelInv, PanelTyped
    <3> QED
      BY <1>4, <2>1, <3>1 DEF PanelInv, PanelTyped
  <2> QED
    BY <1>2, <1>5, <2>2, <2>4, <2>5 DEF PanelInv
<1> QED
  BY <1>6, <1>7

\* Another program saves the document.
LEMMA SaveKeeps ==
    ASSUME PanelInv, WatcherInv, NEW p \in Paths, Save(p)
    PROVE  PanelInv' /\ WatcherInv'
<1>1. Write(p) /\ UNCHANGED <<watcherVars, panelVars, closed, flowVars>>
  BY Zenon DEF Save
<1>2. WatcherInv' /\ Forward /\ UNCHANGED pass
  BY <1>1, WriteKeeps DEF Forward, watcherVars
<1>3. closed' \in BOOLEAN /\ UNCHANGED <<panelVars, flowVars>>
  BY <1>1, TypedFields
<1> QED
  BY <1>2, <1>3, PanelStays DEF WatcherInv

\* The watcher is at work, and delivers nothing.
LEMMA WatchingKeeps ==
    ASSUME PanelInv, WatcherInv, Watching
    PROVE  PanelInv' /\ WatcherInv'
<1>1. UNCHANGED <<panelVars, closed, flowVars>> /\ (Fire \/ Poll \/ Drop \/ DirectoryEvent)
  BY DEF Watching
<1>2. WatcherInv'
  BY <1>1, FireKeeps, PollKeeps, DropKeeps, DirectoryEventKeeps
<1>3. UNCHANGED <<file, filePath>>
  BY <1>1 DEF Fire, Poll, Drop, DirectoryEvent, diskVars
<1>4. Forward /\ WatcherTyped /\ WatcherTyped'
  BY <1>2, <1>3 DEF Forward, WatcherInv, WatcherTyped
<1>5. pass.at = "delivering" => pass'.at = "delivering"
  <2>1. Poll \/ Drop => pass.at # "delivering"
    BY DEF Poll, Drop
  <2>2. Fire => pass.at # "delivering"
    BY DEF Fire, WatcherInv, Pointed, Settling
  <2>3. DirectoryEvent => UNCHANGED pass
    BY DEF DirectoryEvent
  <2> QED
    BY <1>1, <2>1, <2>2, <2>3
<1>6. closed' \in BOOLEAN
  BY <1>1, TypedFields
<1>7. PanelInv'
  BY <1>1, <1>4, <1>5, <1>6, PanelStays
<1> QED
  BY <1>2, <1>7
-----------------------------------------------------------------------------
(* The specification.                                                      *)

\* A panel that is new, or has opened its document.
LEMMA InitIsSound ==
    Init => IInv
<1> SUFFICES ASSUME Init
             PROVE  IInv
  OBVIOUS
<1>1. PICK shown \in Paths \cup {None} :
          /\ WatcherInit(shown) /\ doc = lastSeen
          /\ status = IF shown = None THEN "idle" ELSE "ready"
  BY DEF Init
<1>2. /\ file = [q \in Paths |-> 0] /\ news = FALSE /\ filePath = shown
      /\ watching = (shown # None) /\ lastSeen = IF shown = None THEN None ELSE <<shown, 0>>
      /\ written = FALSE /\ timer = FALSE /\ again = FALSE
      /\ pass = NoPass /\ handled = {None, lastSeen} /\ late = {} /\ events = 0
  BY <1>1 DEF WatcherInit
<1>3. file \in [Paths -> Nat] /\ \A q \in Paths : file[q] = 0
  BY <1>2
<1>4. /\ lastSeen \in Prints /\ (lastSeen # None <=> shown # None)
      /\ shown # None => /\ lastSeen \in Fingerprints
                         /\ lastSeen[1] = shown /\ lastSeen[2] = 0
  BY <1>1, <1>2, WatcherAssumption DEF Prints, Fingerprints, Versions
<1>5. /\ pass \in PassSet /\ pass.at = "none" /\ pass.previous = None /\ pass.before = None
  BY <1>2, WatcherAssumption DEF NoPass, PassSet, Prints, StableRounds
<1>6. WatcherInv
  <2>1. WatcherTyped
    <3>1. events \in 0..MaxEvents /\ late \subseteq Prints /\ handled \subseteq Prints
      BY <1>2, <1>4, WatcherAssumption DEF Prints
    <3> QED
      BY <1>1, <1>2, <1>3, <1>4, <1>5, <3>1 DEF WatcherTyped, Prints
  <2>2. Pointed
    BY <1>1, <1>2, <1>5, WatcherAssumption DEF Pointed, Settling
  <2>3. Past
    BY <1>1, <1>2, <1>3, <1>4, <1>5, WatcherAssumption DEF Past, IsPast
  <2>4. Seen
    <3>1. watching => Newest(lastSeen)
      <4>1. \A h \in handled : h # None => h = lastSeen
        BY <1>2
      <4>2. shown # None => lastSeen[2] <= lastSeen[2]
        BY <1>4
      <4> QED
        BY <1>2, <1>4, <4>1, <4>2 DEF Newest
    <3> QED
      BY <1>2, <1>5, <3>1 DEF Seen, Fresh
  <2> QED
    BY <2>1, <2>2, <2>3, <2>4 DEF WatcherInv
<1>7. /\ doc \in Prints /\ status \in {"idle", "opening", "ready", "error"}
      /\ change = None /\ epoch = 0 /\ refreshing = None /\ closed = FALSE /\ attempt = 0
      /\ at = [c \in All |-> "idle"] /\ call = [c \in All |-> NewCall]
  BY <1>1, <1>4 DEF Init
<1>8. PanelTyped
  <2>1. attempt \in 0..MaxRetries /\ epoch \in Nat
    BY <1>7, ViewerAssumption
  <2>2. at \in [All -> Steps] /\ call \in [All -> CallSet]
    BY <1>7, NewCalls DEF Steps
  <2> QED
    BY <1>7, <2>1, <2>2 DEF PanelTyped
<1>9. ASSUME NEW c \in All
      PROVE  at[c] = "idle" /\ ~HasRecord(c)
  BY <1>7, NewCalls, ViewerAssumption DEF HasRecord
<1>10. Stamped /\ AutoInv /\ \A c \in All : Knows(c)
  BY <1>7, <1>9, NewCalls DEF Stamped, AutoInv, Knows
<1> QED
  BY <1>6, <1>8, <1>10 DEF IInv, PanelInv

\* Every step keeps the invariant.
LEMMA NextKeeps ==
    IInv /\ [Next]_vars => IInv'
<1> SUFFICES ASSUME WatcherInv, PanelInv, [Next]_vars
             PROVE  WatcherInv' /\ PanelInv'
  BY DEF IInv
<1>1. CASE UNCHANGED vars
  <2>1. WatcherInv' /\ WatcherTyped /\ WatcherTyped' /\ UNCHANGED <<file, pass>> /\ Forward
    BY <1>1, WatcherStays, WatcherTypesStay DEF WatcherInv, vars
  <2>2. UNCHANGED <<panelVars, flowVars>> /\ closed' \in BOOLEAN
    BY <1>1, TypedFields DEF vars
  <2>3. PanelInv'
    BY <2>1, <2>2, PanelStays
  <2> QED
    BY <2>1, <2>3
<1>2. CASE Continues
  BY <1>2, AutoReturnsKeeps, CalledKeeps, JoinedKeeps DEF Continues, Continue
<1>3. ASSUME NEW c \in All, Answered(c)
      PROVE  WatcherInv' /\ PanelInv'
  BY <1>3, ToolRefreshesKeeps, OpenedKeeps, RenderedKeeps, AcknowledgedKeeps, OpenFailsKeeps,
     DocumentOpensKeeps, DocumentShowsKeeps, DocumentWatchedKeeps, DocumentSeenKeeps
     DEF Answered
<1>4. ASSUME NEW c \in Callers, Asked(c)
      PROVE  WatcherInv' /\ PanelInv'
  BY <1>4, ButtonKeeps, ToolWritesKeeps, OpenDocumentKeeps DEF Asked
<1>5. CASE Event
  BY <1>3, <1>4, <1>5, WatchingKeeps, DeliverChangeKeeps, WakeUpKeeps, CloseKeeps, SaveKeeps
     DEF Event
<1> QED
  BY <1>1, <1>2, <1>5 DEF Next

\* The invariant holds of every panel.
LEMMA Invariance == Spec => []IInv
<1>1. Init => IInv
  BY InitIsSound
<1>2. IInv /\ [Next]_vars => IInv'
  BY NextKeeps
<1> QED
  BY <1>1, <1>2, PTL DEF Spec

\* Every variable of the panel and of its watcher has its type.
THEOREM TypeCorrect == Spec => []TypeOK
<1>1. IInv => TypeOK
  BY TypedIsTypeOK DEF IInv, WatcherInv, PanelInv
<1> QED
  BY <1>1, Invariance, PTL

\* A change whose consumer fails stays pending: whatever an attached watcher takes
\* for seen of its file was handled, or is being delivered.
THEOREM NothingIsMissed == Spec => []SeenWasHandled
<1>1. IInv => SeenWasHandled
  BY DEF IInv, WatcherInv, WatcherTyped, Seen, Newest, SeenWasHandled
<1> QED
  BY <1>1, Invariance, PTL

\* What was handled is not delivered again: our own save does not come back as
\* somebody else's, whatever a failed delivery puts back.  The watcher has nothing for
\* seen where it is, or a stat answered late.
THEOREM NoEchoes == Spec => NoEcho
<1>1. ASSUME IInv, [Next]_vars
      PROVE  [watching /\ pass.at # "delivering" /\ pass'.at = "delivering"
                 => lastSeen' \notin handled \/ lastSeen = None
                        \/ {lastSeen, lastSeen'} \cap late' # {}]_watcherVars
  <2> SUFFICES ASSUME watching, pass.at # "delivering", pass'.at = "delivering"
               PROVE  lastSeen' \notin handled \/ lastSeen = None
                          \/ {lastSeen, lastSeen'} \cap late' # {}
    OBVIOUS
  <2>0. pass.at # "delivering" /\ pass'.at = "delivering"
    OBVIOUS
  <2>1. Deliver
    <3>1. pass' # pass
      BY <2>0
    <3>2. ~UNCHANGED vars
      BY <3>1 DEF vars, watcherVars
    <3>3. ~AutoReturns
      <4>1. AutoReturns => at[AutoRefresh] = "returned"
        BY DEF AutoReturns
      <4> QED
        BY <1>1, <2>0, <4>1 DEF IInv, PanelInv, AutoInv
    <3>4. ~Watching
      <4>1. ~Fire
        BY <2>0 DEF Fire, NoPass
      <4>2. ~Poll
        <5>1. Poll => pass'.at \in {"polling", "settled"}
          BY <1>1, PollLeaves DEF IInv
        <5> QED
          BY <2>0, <5>1
      <4>3. ~Drop
        <5>1. Drop => pass' = NoPass
          BY DEF Drop, EndPass
        <5> QED
          BY <2>0, <5>1 DEF NoPass
      <4>4. ~DirectoryEvent
        BY <3>1 DEF DirectoryEvent
      <4> QED
        BY <4>1, <4>2, <4>3, <4>4 DEF Watching
    <3>5. \A c \in All : ~Continue(c)
      BY <3>1 DEF Continue, Called, Joined, watcherVars
    <3>6. \A c \in All : ~Answered(c)
      BY <3>1 DEF Answered, ToolRefreshes, Opened, Rendered, Acknowledged, OpenFails,
                  DocumentOpens, DocumentShows, DocumentWatched, DocumentSeen, PointAt,
                  BeginWatching, watcherVars
    <3>7. \A c \in Callers : ~Asked(c)
      BY <3>1, Zenon DEF Asked, Button, ToolWrites, OpenDocument, watcherVars
    <3>8. ~WakeUp /\ ~Close /\ \A p \in Paths : ~Save(p)
      BY <3>1, Zenon DEF WakeUp, Close, Save, watcherVars
    <3> QED
      BY <1>1, <3>2, <3>3, <3>4, <3>5, <3>6, <3>7, <3>8 DEF Next, Continues, Event,
                                                           DeliverChange
  <2> QED
    BY <1>1, <2>1, DeliversNoEcho DEF IInv
<1> QED
  BY <1>1, Invariance, PTL DEF Spec, NoEcho

\* A record drawn over a render of its document is of an edit that render contains,
\* whichever refreshes overtook each other.
THEOREM OverlaysAreOnTheirEdits == Spec => []OverlayOnItsEdit
<1>1. IInv => OverlayOnItsEdit
  <2> SUFFICES ASSUME IInv, ChangeIfCurrent # None, doc[1] = change.edit[1]
               PROVE  doc[2] >= change.edit[2]
    BY DEF OverlayOnItsEdit
  <2>1. change # None /\ doc # None /\ change.docKey = doc
    BY DEF ChangeIfCurrent
  <2>2. change.edit[2] <= doc[2]
    BY <2>1 DEF IInv, PanelInv, Stamped
  <2>3. change.edit \in Fingerprints /\ doc \in Fingerprints
    BY <2>1, TypedFields DEF IInv, ChangeSet, Prints
  <2>4. change.edit[2] \in Nat /\ doc[2] \in Nat
    BY <2>3, FingerprintParts
  <2> QED
    BY <2>2, <2>4
<1> QED
  BY <1>1, Invariance, PTL
=============================================================================
