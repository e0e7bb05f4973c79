----------------------------- MODULE RenderCache -----------------------------
(***************************************************************************)
(* The render cache (src/render-cache.mjs) of one document: the state it   *)
(* keeps in #docs, the queue that serializes the document's operations,    *)
(* and the PDFs it files by cache key.                                     *)
(*                                                                         *)
(* A version is one content of the user's file.  The cache key is made of  *)
(* path, mtime and size, so a version stands for its key as well.  The     *)
(* state object made by an open is named by that call.  The Word host      *)
(* answers one command at a time: a command is one step here, answered or  *)
(* failed, and copy is the version of the working copy it has open.        *)
(* pdfFile is left out: pdf() answers from the disk with or without it.    *)
(*                                                                         *)
(* Node runs every continuation of a settled promise before it handles the *)
(* next event.  Quiet says that none is left to run.                       *)
(***************************************************************************)
EXTENDS Integers, Sequences, FiniteSets

CONSTANTS
    Calls,       \* the calls made of the cache
    Kinds,       \* what is asked of it; all of AllKinds in general
    None,
    MaxVersions, \* bound: versions of the file after the first
    MaxReplays   \* bound: times Word ends and the bridge reopens the document

\* refresh() is open(), the key that was there before compared with the answer.
Opens == {"open", "pdf"}
AllKinds == Opens \cup {"edit", "outline", "search", "close"}
Versions == 0..MaxVersions

\* What a PDF may be filed under; without a key it is called null.pdf.
Names == Versions \cup {None}

ASSUME CacheAssumption ==
    /\ Kinds \subseteq AllKinds
    /\ None \notin Calls \cup Versions /\ None \notin AllKinds
    /\ MaxVersions \in Nat /\ MaxReplays \in Nat

VARIABLES
    file,      \* the version the user's file is at
    copy,      \* the version Word has open, or None
    replays,   \* how often the bridge has reopened the document by itself
    pdfs,      \* the version each PDF on disk shows, by the key it is filed under
    docs,      \* #docs: the document's state object, or None
    states,    \* the state objects
    pc,        \* how far each call has come
    call,      \* what each call knows
    forsaken   \* history: whether #docs let go of a state object, its open having
               \* failed, with operations left in its queue

hostVars == <<copy, replays, pdfs>>
vars == <<file, hostVars, docs, states, pc, call, forsaken>>

Fresh == [key |-> None, meta |-> FALSE, pending |-> None,
          queue |-> <<>>, closing |-> FALSE]

\* kind: what was asked; of: its state object; key: the fingerprint an open took,
\* or the key of the PDF a pdf() found or exports; asked: the file's version when an open was
\* called; read: what Word's answers were read from; shown: the version in the
\* file the answer names; result: the key it names; shared: whether another
\* call's export answered it.
NewCall == [kind |-> None, of |-> None, key |-> None, asked |-> None,
            read |-> {}, shown |-> None, result |-> None,
            shared |-> FALSE]

Steps == {"idle", "queued", "behind", "dropping", "opening", "look", "sharing",
          "exporting", "pruning", "editing", "positions", "reading", "releasing",
          "done", "failed"}

TypeOK ==
    LET Maybe(S) == S \cup {None}
    IN  /\ file \in Versions /\ copy \in Maybe(Versions) /\ replays \in 0..MaxReplays
        /\ pdfs \in [Names -> Maybe(Versions)]
        /\ forsaken \in BOOLEAN
        /\ docs \in Maybe(Calls)
        /\ states \in [Calls -> [key : Maybe(Versions), meta : BOOLEAN,
                                 pending : Maybe(Calls), queue : Seq(Calls), closing : BOOLEAN]]
        /\ pc \in [Calls -> Steps]
        /\ call \in [Calls -> [kind : Maybe(Kinds), of : Maybe(Calls),
                               key : Maybe(Versions), asked : Maybe(Versions),
                               read : SUBSET Versions,
                               shown : Maybe(Versions), result : Maybe(Versions),
                               shared : BOOLEAN]]

Init ==
    /\ file = 0 /\ copy = None /\ replays = 0
    /\ pdfs = [k \in Names |-> None]
    /\ forsaken = FALSE
    /\ docs = None
    /\ states = [s \in Calls |-> Fresh]
    /\ pc = [c \in Calls |-> "idle"]
    /\ call = [c \in Calls |-> NewCall]
-----------------------------------------------------------------------------
(* The queue of a state object.                                            *)

\* A call whose operation is the one that runs.
AtHead(c) == /\ call[c].of # None
             /\ states[call[c].of].queue # <<>>
             /\ Head(states[call[c].of].queue) = c

\* A continuation that runs before the next event: a pdf() whose open has
\* answered, a closer whose turn has come, an open behind a closer that is done.
Runnable(c) ==
    \/ pc[c] = "look"
    \/ pc[c] = "queued" /\ call[c].kind = "close" /\ AtHead(c)
    \/ pc[c] = "behind" /\ states[call[c].of].queue = <<>>

Quiet == \A c \in Calls : ~Runnable(c)

\* #require: the state of an open document that is not closing.
IsOpen(s) == s # None /\ states[s].meta /\ ~states[s].closing

\* As Enqueue, with no refusal at the choke point.
EnqueueAlways(c, s) ==
    /\ pc' = [pc EXCEPT ![c] = "queued"]
    /\ states' = [states EXCEPT ![s].queue = Append(@, c)]

\* #enqueueDocumentOperation: refuses to extend the chain of a closing document.
Enqueue(c, s) ==
    IF states[s].closing
    THEN /\ pc' = [pc EXCEPT ![c] = "failed"]
         /\ UNCHANGED states
    ELSE /\ pc' = [pc EXCEPT ![c] = "queued"]
         /\ states' = [states EXCEPT ![s].queue = Append(@, c)]

\* As Leave, but an operation that fails leaves the chain rejected.
LeaveUnlessFailed(c, how) ==
    /\ pc' = [pc EXCEPT ![c] = how]
    /\ states' = IF how = "failed" THEN states
                 ELSE [states EXCEPT ![call[c].of].queue = Tail(@)]

\* The operation of c is over, and the next of its document may run.
Leave(c, how) ==
    /\ pc' = [pc EXCEPT ![c] = how]
    /\ states' = [states EXCEPT ![call[c].of].queue = Tail(@)]

Goto(c, step) == pc' = [pc EXCEPT ![c] = step]

Asked(kind, s) ==
    [NewCall EXCEPT !.kind = kind, !.of = s,
                    !.asked = IF kind \in Opens THEN file ELSE None]

\* A read command of the host.  Word may have ended: the bridge then replays the
\* open it remembers, which copies the file again, before it asks once more.
HostReads ==
    /\ copy # None
    /\ \/ UNCHANGED <<copy, replays>>
       \/ /\ replays < MaxReplays
          /\ replays' = replays + 1
          /\ copy' = file

\* closeDocument() answers, or it fails and the failure is swallowed.
HostCloses == copy' \in {copy, None} /\ UNCHANGED replays
-----------------------------------------------------------------------------
(* open(), which pdf() begins with.                                        *)

\* #stateFor registers a state; a closing one is waited for.
Enter(c, asked) ==
    LET s == IF docs = None THEN c ELSE docs
        closing == docs # None /\ states[docs].closing
    IN  /\ docs' = s
        /\ call' = [call EXCEPT ![c] = [asked EXCEPT !.of = s]]
        /\ Goto(c, IF closing THEN "behind" ELSE "queued")
        /\ states' = IF closing THEN states
                     ELSE [states EXCEPT ![s].queue = Append(@, c)]

Open(c) ==
    /\ pc[c] = "idle"
    /\ \E kind \in Kinds \cap Opens : Enter(c, Asked(kind, None))
    /\ UNCHANGED <<file, hostVars, forsaken>>

\* The closer is done: open() starts over.
OpenAgain(c) ==
    /\ pc[c] = "behind" /\ states[call[c].of].queue = <<>>
    /\ call[c].kind # "close"
    /\ Enter(c, call[c])
    /\ UNCHANGED <<file, hostVars, forsaken>>

\* What the caller of open() does with its answer.
Answered(c) == IF call[c].kind = "pdf" THEN "look" ELSE "done"

\* As Fingerprint, but an open document is taken for an unchanged one.
FingerprintOnce(c) ==
    LET s == states[call[c].of]
    IN  /\ pc[c] = "queued" /\ AtHead(c) /\ call[c].kind \in Opens
        /\ IF s.meta
           THEN /\ Leave(c, Answered(c))
                /\ call' = [call EXCEPT ![c].result = s.key]
           ELSE /\ Goto(c, "opening")
                /\ call' = [call EXCEPT ![c].key = file]
                /\ UNCHANGED states
        /\ UNCHANGED <<file, hostVars, docs, forsaken>>

\* #fingerprint finds no file, the key the state already has, or another one.
Fingerprint(c) ==
    LET s == states[call[c].of]
        same == s.key = file /\ s.meta
    IN  /\ pc[c] = "queued" /\ AtHead(c) /\ call[c].kind \in Opens
        /\ \/ /\ Leave(c, "failed")
              /\ UNCHANGED call
           \/ /\ same
              /\ Leave(c, Answered(c))
              /\ call' = [call EXCEPT ![c].result = file]
           \/ /\ ~same
              /\ Goto(c, IF s.key \in {None, file} THEN "opening" ELSE "dropping")
              /\ call' = [call EXCEPT ![c].key = file]
              /\ UNCHANGED states
        /\ UNCHANGED <<file, hostVars, docs, forsaken>>

\* A changed file: the old working copy goes first.
Drop(c) ==
    /\ pc[c] = "dropping"
    /\ HostCloses
    /\ Goto(c, "opening")
    /\ UNCHANGED <<file, pdfs, docs, states, call, forsaken>>

\* As HostOpens, with the key assigned before the host has answered.
HostOpensKeyFirst(c) ==
    LET s == call[c].of
    IN  /\ pc[c] = "opening"
        /\ \/ copy' = file /\ pc' = [pc EXCEPT ![c] = Answered(c)]
           \/ copy' = copy /\ pc' = [pc EXCEPT ![c] = "failed"]
        /\ states' = [states EXCEPT ![s].key = call[c].key, ![s].queue = Tail(@),
                                    ![s].meta = @ \/ pc'[c] # "failed"]
        /\ UNCHANGED <<file, replays, pdfs, docs, call, forsaken>>

\* openDocument() copies the file as it is now, or fails.  A document that has not
\* been opened is forgotten then, with whatever is queued for it.
HostOpens(c) ==
    LET s == call[c].of
    IN  /\ pc[c] = "opening"
        /\ \/ /\ copy' = file
              /\ pc' = [pc EXCEPT ![c] = Answered(c)]
              /\ states' = [states EXCEPT ![s].key = call[c].key, ![s].meta = TRUE,
                                          ![s].queue = Tail(@)]
              /\ call' = [call EXCEPT ![c].result = call[c].key,
                                      ![c].key = None]
              /\ UNCHANGED <<docs, forsaken>>
           \/ /\ Leave(c, "failed")
              /\ docs' = IF states[s].meta THEN docs ELSE None
              /\ forsaken' = (forsaken \/ (~states[s].meta /\ Len(states[s].queue) > 1))
              /\ UNCHANGED <<copy, call>>
        /\ UNCHANGED <<file, replays, pdfs>>
-----------------------------------------------------------------------------
(* pdf().                                                                  *)

\* The calls an export answers: its own and those that wait for it.
Sharing(c) == {c} \cup {d \in Calls : pc[d] = "sharing" /\ call[d].of = call[c].of}

\* The state is looked up again.  A PDF on disk under its key is the answer; an
\* export under way is shared, whatever key it writes under.
Look(c) ==
    LET s == docs
        key == states[s].key
    IN  /\ pc[c] = "look"
        /\ \/ /\ ~IsOpen(s)
              /\ Goto(c, "failed")
              /\ UNCHANGED <<states, call>>
           \/ /\ IsOpen(s) /\ pdfs[key] # None
              /\ call' = [call EXCEPT ![c].result = key, ![c].key = key,
                                      ![c].shown = pdfs[key]]
              /\ Goto(c, "done")
              /\ UNCHANGED states
           \/ /\ IsOpen(s) /\ pdfs[key] = None
              /\ states[s].pending # None
              /\ call' = [call EXCEPT ![c].of = s, ![c].shared = TRUE]
              /\ Goto(c, "sharing")
              /\ UNCHANGED states
           \/ /\ IsOpen(s) /\ pdfs[key] = None
              /\ states[s].pending = None
              /\ states' = [states EXCEPT ![s].pending = c]
              /\ call' = [call EXCEPT ![c].of = s, ![c].key = key]
              /\ Goto(c, "exporting")
        /\ UNCHANGED <<file, hostVars, docs, forsaken>>

\* exportPdf() writes what Word has open under the key it was asked with.
Export(c) ==
    LET s == call[c].of
    IN  /\ pc[c] = "exporting"
        /\ \/ /\ HostReads
              /\ pdfs' = [pdfs EXCEPT ![call[c].key] = copy']
              /\ Goto(c, "pruning")
              /\ UNCHANGED states
           \/ /\ states' = [states EXCEPT ![s].pending = None]
              /\ pc' = [d \in Calls |-> IF d \in Sharing(c) THEN "failed" ELSE pc[d]]
              /\ UNCHANGED hostVars
        /\ UNCHANGED <<file, docs, call, forsaken>>

\* #pruneOldPdfs keeps the PDF of the state's key; then the export has answered.
Prune(c) ==
    LET s == call[c].of
        kept == [k \in Names |-> IF k = states[s].key THEN pdfs[k] ELSE None]
    IN  /\ pc[c] = "pruning"
        /\ \E left \in {kept, pdfs} :
              /\ pdfs' = left
              /\ call' = [d \in Calls |->
                             IF d \in Sharing(c)
                             THEN [call[d] EXCEPT !.result = states[s].key,
                                                  !.shown = left[call[c].key]]
                             ELSE call[d]]
        /\ states' = [states EXCEPT ![s].pending = None]
        /\ pc' = [d \in Calls |-> IF d \in Sharing(c) THEN "done" ELSE pc[d]]
        /\ UNCHANGED <<file, copy, replays, docs, forsaken>>
-----------------------------------------------------------------------------
(* editDocument() and revertDocument(), outline(), search() and close().   *)

\* An edit of a document nobody has open is not queued.
Edit(c) ==
    /\ pc[c] = "idle" /\ "edit" \in Kinds
    /\ call' = [call EXCEPT ![c] = Asked("edit", docs)]
    /\ IF docs = None
       THEN Goto(c, "editing") /\ UNCHANGED states
       ELSE Enqueue(c, docs)
    /\ UNCHANGED <<file, hostVars, docs, forsaken>>

\* The editor changes the file, or refuses.  After a change #invalidateState
\* forgets the key before it closes the working copy.
EditorRuns(c) ==
    LET s == call[c].of
    IN  /\ call[c].kind = "edit"
        /\ \/ pc[c] = "editing"
           \/ pc[c] = "queued" /\ AtHead(c)
        /\ \/ /\ file < MaxVersions
              /\ file' = file + 1
              /\ IF s = None
                 THEN Goto(c, "done") /\ UNCHANGED states
                 ELSE /\ states' = [states EXCEPT ![s].key = None]
                      /\ Goto(c, "releasing")
           \/ /\ IF s = None
                 THEN Goto(c, "failed") /\ UNCHANGED states
                 ELSE Leave(c, "failed")
              /\ UNCHANGED file
        /\ UNCHANGED <<hostVars, docs, call, forsaken>>

\* The working copy is released after an edit or for a close.
Release(c) ==
    /\ pc[c] = "releasing"
    /\ HostCloses
    /\ Leave(c, "done")
    /\ UNCHANGED <<file, pdfs, docs, call, forsaken>>

\* outline(), search(), text() and info() require an open document; only the
\* outline, which asks twice, is queued.
Outline(c) ==
    /\ pc[c] = "idle" /\ "outline" \in Kinds
    /\ call' = [call EXCEPT ![c] = Asked("outline", docs)]
    /\ IF IsOpen(docs)
       THEN Enqueue(c, docs)
       ELSE Goto(c, "failed") /\ UNCHANGED states
    /\ UNCHANGED <<file, hostVars, docs, forsaken>>

Search(c) ==
    /\ pc[c] = "idle" /\ "search" \in Kinds
    /\ call' = [call EXCEPT ![c] = Asked("search", docs)]
    /\ Goto(c, IF IsOpen(docs) THEN "reading" ELSE "failed")
    /\ UNCHANGED <<file, hostVars, docs, states, forsaken>>

\* As Read, with the outline's turn over after its first question.
ReadApart(c) ==
    LET first == call[c].kind = "outline" /\ pc[c] = "queued" /\ AtHead(c)
        last == pc[c] \in {"positions", "reading"}
    IN  /\ first \/ last
        /\ HostReads
        /\ call' = [call EXCEPT ![c].read = @ \cup {copy'}]
        /\ IF first THEN Leave(c, "positions") ELSE Goto(c, "done") /\ UNCHANGED states
        /\ UNCHANGED <<file, pdfs, docs, forsaken>>

\* One answer of the host to the outline's markup, its positions, or a search.
Read(c) ==
    LET first == call[c].kind = "outline" /\ pc[c] = "queued" /\ AtHead(c)
        last == pc[c] \in {"positions", "reading"}
        over(how) == IF call[c].kind = "outline" THEN Leave(c, how)
                     ELSE Goto(c, how) /\ UNCHANGED states
    IN  /\ first \/ last
        /\ \/ /\ HostReads
              /\ call' = [call EXCEPT ![c].read = @ \cup {copy'}]
              /\ IF first THEN Goto(c, "positions") /\ UNCHANGED states ELSE over("done")
           \/ /\ over("failed")
              /\ UNCHANGED <<copy, replays, call>>
        /\ UNCHANGED <<file, pdfs, docs, forsaken>>

\* close(): nothing is open, somebody closes already, or this call does.
Close(c) ==
    /\ pc[c] = "idle" /\ "close" \in Kinds
    /\ call' = [call EXCEPT ![c] = Asked("close", docs)]
    /\ IF docs = None
       THEN Goto(c, "done") /\ UNCHANGED states
       ELSE IF states[docs].closing
       THEN Goto(c, "behind") /\ UNCHANGED states
       ELSE /\ states' = [states EXCEPT ![docs].closing = TRUE,
                                        ![docs].queue = Append(@, c)]
            /\ Goto(c, "queued")
    /\ UNCHANGED <<file, hostVars, docs, forsaken>>

\* A repeated close is answered with the first.
CloseAgain(c) ==
    /\ pc[c] = "behind" /\ states[call[c].of].queue = <<>>
    /\ call[c].kind = "close"
    /\ Goto(c, "done")
    /\ UNCHANGED <<file, hostVars, docs, states, call, forsaken>>

\* The closer's turn: the document is forgotten before Word lets go of it.
Forget(c) ==
    /\ pc[c] = "queued" /\ AtHead(c) /\ call[c].kind = "close"
    /\ docs' = None
    /\ Goto(c, "releasing")
    /\ UNCHANGED <<file, hostVars, states, call, forsaken>>
-----------------------------------------------------------------------------
\* Another program saves the document.
Save == /\ file < MaxVersions
        /\ file' = file + 1
        /\ UNCHANGED <<hostVars, docs, states, pc, call, forsaken>>

Ask(c) == Open(c) \/ Edit(c) \/ Outline(c) \/ Search(c) \/ Close(c)

Continue(c) == OpenAgain(c) \/ CloseAgain(c) \/ Look(c) \/ Forget(c)

Event(c) == \/ Fingerprint(c) \/ Drop(c) \/ HostOpens(c) \/ Export(c) \/ Prune(c)
            \/ EditorRuns(c) \/ Release(c) \/ Read(c)

Next == \/ \E c \in Calls : Continue(c)
        \/ Quiet /\ (Save \/ \E c \in Calls : Ask(c) \/ Event(c))

Spec == Init /\ [][Next]_vars

\* Continuations run, and the file system, the editor and the host's commands,
\* which have deadlines, answer; nobody need ask anything.
FairSpec == /\ Spec
            /\ WF_vars(\E c \in Calls : Continue(c))
            /\ \A c \in Calls : WF_vars(Quiet /\ Event(c))
-----------------------------------------------------------------------------
\* A PDF filed under a key shows the version the key is of, or a newer one: the
\* fingerprint is taken first, and what Word has open only gets newer.
NeverOlder == \A k \in Versions : pdfs[k] = None \/ pdfs[k] >= k

\* "Re-checks the file on disk": the key that answers open() and refresh(), and a
\* pdf() that found or made its own file, is not older than the call, nor is the
\* PDF shown.  Only a file #pruneOldPdfs has removed shows nothing.  It does not
\* hold of a pdf() that was answered by the export of another call, or with null.pdf:
\* a pdf() whose document was forgotten may look at another state, without a key.
AnswerIsFresh ==
    \A c \in Calls :
        pc[c] = "done" /\ call[c].kind \in Opens /\ ~call[c].shared =>
            /\ call[c].result = None \/ call[c].result >= call[c].asked
            /\ call[c].key = None \/ call[c].shown = None \/ call[c].shown >= call[c].asked

\* The closer is the last operation of its document: nothing joins the chain
\* behind it, which the wait of open() for a closing document relies on.
CloserIsLast ==
    \A s \in Calls : \A i \in 1..Len(states[s].queue) :
        call[states[s].queue[i]].kind = "close" => i = Len(states[s].queue)

\* The two halves of an outline, its markup and the positions of its headings,
\* are read from one working copy, as long as Word does not end by itself, and no
\* state object goes on beside the one there is.
OutlineIsOneDocument ==
    replays = 0 /\ ~forsaken =>
        \A c \in Calls : call[c].kind = "outline" /\ pc[c] = "done" =>
            Cardinality(call[c].read) = 1

\* "Serializes one document's operations": an open and an outline never run beside
\* another one.  Does not hold once a state object is forsaken: what is left in its
\* queue runs beside the queue of the state that the next open registers.
OneOperationAtATime ==
    \A c, d \in Calls : {pc[c], pc[d]} \subseteq {"dropping", "opening", "positions"} => c = d

\* Every call is answered or refused.
EveryCallSettles ==
    \A c \in Calls : pc[c] # "idle" ~> pc[c] \in {"done", "failed"}
=============================================================================
