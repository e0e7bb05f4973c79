------------------------------ MODULE PanelServer ------------------------------
(***************************************************************************)
(* What the servers of the panels answer from files (src/server.mjs): the  *)
(* pdf.js worker, put together from its parts (src/vendor-assets.mjs), the *)
(* vendored files, the Word icon (src/word/word-icon.mjs) and the PDF of   *)
(* the document on show.  Beside them run the vendoring script             *)
(* (tools/vendor-pdfjs.mjs), the render cache and the browser's cache.     *)
(*                                                                         *)
(* A vendored file is known by the version it is of, a PDF by the render   *)
(* key in its name.  A digest stands for what it is the digest of, so an   *)
(* ETag is the body it came with.                                          *)
(***************************************************************************)
EXTENDS Integers, Sequences, SequencesExt

CONSTANTS
    Requests,       \* the requests of a page
    None,
    Failed,         \* the outcome of a load of the worker that failed
    Torn,           \* what a read finds in a file that is being written
    Versions,       \* the versions of pdf.js that are vendored
    Parts,          \* the names of the parts, in their order
    Renders,        \* the render keys
    SizeOf,         \* the size of the PDF of each render
    Numbers,        \* the numbers a Range header gives
    Infinity,       \* more digits than Number() can tell from infinity
    MaxVendorings,  \* bound: runs of the vendoring script
    MaxOpenings     \* bound: renders the panel comes to show

\* An inclusive range, or a suffix: a header without a first number.  Headers that
\* are malformed or name several ranges are None, as one that is absent.
Ranges == [first : Numbers \cup {None, Infinity}, last : Numbers \cup {None, Infinity}]
Files == {"main", "manifest"} \cup ToSet(Parts)

ASSUME ServerAssumption ==
    /\ Numbers \subseteq Nat /\ SizeOf \in [Renders -> Nat]
    /\ MaxVendorings \in Nat /\ MaxOpenings \in Nat
    /\ Parts \in Seq(ToSet(Parts)) /\ Parts # <<>>
    /\ "clear" \notin Files /\ {None, Torn, Failed} \cap Versions = {}
    /\ {None, Infinity} \cap Numbers = {} /\ None # Infinity /\ None \notin Renders
    /\ \A v \in Versions : [i \in DOMAIN Parts |-> <<Parts[i], v>>] \notin {None, Failed}

VARIABLES
    dir,        \* the version each vendored file is of, Torn or None
    script,     \* what the vendoring script has yet to do
    version,    \* the version it vendors
    vendorings,
    load,       \* the worker's entry of workerPromises
    icon,       \* pending of the icon's source: none, running, png or absent
    doc,        \* the render the panel shows, or None
    openings,
    pdfs,       \* the PDFs there are
    stored,     \* what the browser keeps
    request     \* the requests

vendorVars == <<dir, script, version, vendorings>>
panelVars == <<doc, openings, pdfs>>
vars == <<vendorVars, load, icon, panelVars, stored, request>>

\* step: where the request waits; sound: whether a worker that was asked for
\* afresh had a whole directory all the while; sent: If-None-Match; found: the
\* PDF there was and its size.
NewRequest == [kind |-> None, step |-> "idle", sound |-> FALSE, sent |-> None,
               url |-> None, range |-> None, found |-> None, size |-> 0,
               status |-> 0, body |-> None, bytes |-> {}]

NoLoad == [step |-> "none", manifest |-> None, joined |-> <<>>, outcome |-> None]

Init ==
    /\ dir \in {[f \in Files |-> v] : v \in Versions}
    /\ script = <<>> /\ version = None /\ vendorings = 0
    /\ load = NoLoad /\ icon = "none"
    /\ doc = None /\ openings = 0 /\ pdfs = {}
    /\ stored = [worker |-> None, icon |-> None, pdf |-> [k \in Renders |-> None]]
    /\ request = [r \in Requests |-> NewRequest]
-----------------------------------------------------------------------------
(* The vendoring script: everything goes, then the files are written one   *)
(* after the other, the manifest last.                                     *)

Whole(v) == [i \in DOMAIN Parts |-> <<Parts[i], v>>]

\* Nobody who asked before can say that the directory was whole all the while.
Disturb == request' = [r \in Requests |-> [request[r] EXCEPT !.sound = FALSE]]

StartVendoring ==
    /\ script = <<>> /\ vendorings < MaxVendorings
    /\ vendorings' = vendorings + 1
    /\ version' \in Versions
    /\ script' = <<"clear", "main">> \o Parts \o <<"manifest">>
    /\ Disturb
    /\ UNCHANGED <<dir, load, icon, panelVars, stored>>

VendorStep ==
    /\ script # <<>>
    /\ script' = Tail(script)
    /\ dir' = IF Head(script) = "clear" THEN [f \in Files |-> None]
              ELSE [dir EXCEPT ![Head(script)] = version]
    /\ UNCHANGED <<version, vendorings, load, icon, panelVars, stored, request>>

\* The script fails, or is stopped: what it has done so far stays, a part of its last
\* step with it.
VendoringFails ==
    /\ script # <<>>
    /\ script' = <<>>
    /\ \/ UNCHANGED dir
       \/ /\ Head(script) = "clear"
          /\ \E gone \in SUBSET Files :
                dir' = [f \in Files |-> IF f \in gone THEN None ELSE dir[f]]
       \/ /\ Head(script) # "clear"
          /\ dir' = [dir EXCEPT ![Head(script)] = Torn]
    /\ UNCHANGED <<version, vendorings, load, icon, panelVars, stored, request>>

\* What a read of a file may find.
Found(file) ==
    {dir[file]} \cup (IF script # <<>> /\ Head(script) \in {"clear", file}
                      THEN {Torn, None} ELSE {})
-----------------------------------------------------------------------------
(* Requests and their answers.                                             *)

Asked(r, kind, step) == [request[r] EXCEPT !.kind = kind, !.step = step]

Refused(q, status) == [q EXCEPT !.step = "answered", !.status = status]

\* 200 with the body, or 304 to a browser whose copy has the same ETag.
Validated(q, body) ==
    [q EXCEPT !.step = "answered", !.body = body,
              !.status = IF q.sent = body THEN 304 ELSE 200]

\* The answer to a request for the worker, once the promise it has is settled.
WorkerAnswer(q, outcome) ==
    IF outcome = Failed THEN Refused(q, 500) ELSE Validated(q, outcome)

\* A body that was sent replaces what the browser keeps of this URL.
Keeps(what, q) == stored' = IF q.status = 200 THEN [stored EXCEPT ![what] = q.body]
                            ELSE stored
-----------------------------------------------------------------------------
(* The worker.                                                             *)

\* loadWorker() joins the promise there is, or begins to read.
AskWorker(r) ==
    /\ request[r].step = "idle"
    /\ \E sent \in {None, stored.worker} :
          LET whole == script = <<>> /\ \E v \in Versions : dir = [f \in Files |-> v]
              joins == load # NoLoad /\ load.outcome = None
              q == [Asked(r, "worker", "loading") EXCEPT !.sent = sent,
                                                         !.sound = whole /\ ~joins]
          IN  \/ /\ load = NoLoad
                 /\ load' = [NoLoad EXCEPT !.step = "manifest"]
                 /\ request' = [request EXCEPT ![r] = q]
                 /\ UNCHANGED stored
              \/ /\ joins
                 /\ request' = [request EXCEPT ![r] = q]
                 /\ UNCHANGED <<load, stored>>
              \/ /\ load # NoLoad /\ load.outcome # None
                 /\ LET a == WorkerAnswer(q, load.outcome)
                    IN  request' = [request EXCEPT ![r] = a] /\ Keeps("worker", a)
                 /\ UNCHANGED load
    /\ UNCHANGED <<vendorVars, icon, panelVars>>

\* Everyone who waits for the worker is answered.
Settle(outcome) ==
    /\ request' = [r \in Requests |->
                      IF request[r].kind = "worker" /\ request[r].step = "loading"
                      THEN WorkerAnswer(request[r], outcome) ELSE request[r]]
    /\ stored' = IF outcome = Failed THEN stored
                 ELSE [stored EXCEPT !.worker = outcome]

\* As LoadFails, but the failure is kept.
LoadFailsForGood ==
    /\ load' = [NoLoad EXCEPT !.step = "ended", !.outcome = Failed]
    /\ Settle(Failed)

\* A failed load is forgotten, so the next request reads again.
LoadFails ==
    /\ load' = NoLoad
    /\ Settle(Failed)

\* A manifest that is not JSON or is not there fails the load.
ReadManifest ==
    /\ load.step = "manifest"
    /\ \E v \in Found("manifest") :
          IF v \in Versions
          THEN /\ load' = [load EXCEPT !.step = "parts", !.manifest = v]
               /\ UNCHANGED <<stored, request>>
          ELSE LoadFails
    /\ UNCHANGED <<vendorVars, icon, panelVars>>

\* As Matches, but only the bytes are counted.
MatchesInSize(joined, v) == \A i \in DOMAIN joined : joined[i][2] # Torn

\* The digest of the parts is the one the manifest records.
Matches(joined, v) == joined = Whole(v)

\* The parts are read one by one, in the order of the manifest; versions are cut
\* into as many parts of the same size, which the byte count does not tell apart.
ReadPart ==
    /\ load.step = "parts"
    /\ LET part == Parts[Len(load.joined) + 1]
       IN  \E v \in Found(part) :
              LET joined == Append(load.joined, <<part, v>>)
              IN  \/ /\ v = None
                     /\ LoadFails
                  \/ /\ v # None /\ Len(joined) < Len(Parts)
                     /\ load' = [load EXCEPT !.joined = joined]
                     /\ UNCHANGED <<stored, request>>
                  \/ /\ v # None /\ Len(joined) = Len(Parts)
                     /\ ~Matches(joined, load.manifest)
                     /\ LoadFails
                  \/ /\ v # None /\ Len(joined) = Len(Parts)
                     /\ Matches(joined, load.manifest)
                     /\ load' = [NoLoad EXCEPT !.step = "ended", !.outcome = joined]
                     /\ Settle(joined)
    /\ UNCHANGED <<vendorVars, icon, panelVars>>

\* The other vendored files are read for every request: what is there is sent.
ServeFile(r) ==
    /\ request[r].step = "idle"
    /\ \E v \in Found("main") :
          LET q == Asked(r, "file", "answered")
          IN  request' = [request EXCEPT ![r] =
                  IF v = None THEN Refused(q, 500)
                  ELSE [q EXCEPT !.status = 200, !.body = v]]
    /\ UNCHANGED <<vendorVars, load, icon, panelVars, stored>>
-----------------------------------------------------------------------------
(* The Word icon.                                                          *)

IconAnswer(q, outcome) == IF outcome = "absent" THEN Refused(q, 404)
                          ELSE Validated(q, outcome)

\* get(): one extraction, whose promise is kept whatever comes of it.
AskIcon(r) ==
    /\ request[r].step = "idle"
    /\ \E sent \in {None, stored.icon} :
          LET q == [Asked(r, "icon", "extracting") EXCEPT !.sent = sent]
              a == IconAnswer(q, icon)
          IN  \/ /\ icon \in {"none", "running"}
                 /\ icon' = "running"
                 /\ request' = [request EXCEPT ![r] = q]
                 /\ UNCHANGED stored
              \/ /\ icon \in {"png", "absent"}
                 /\ request' = [request EXCEPT ![r] = a] /\ Keeps("icon", a)
                 /\ UNCHANGED icon
    /\ UNCHANGED <<vendorVars, load, panelVars>>

\* The extractor prints a PNG, or anything else, fails, or is aborted in the end.
ExtractorEnds ==
    /\ icon = "running"
    /\ icon' \in {"png", "absent"}
    /\ request' = [r \in Requests |->
                      IF request[r].kind = "icon" /\ request[r].step = "extracting"
                      THEN IconAnswer(request[r], icon') ELSE request[r]]
    /\ stored' = IF icon' = "png" THEN [stored EXCEPT !.icon = "png"] ELSE stored
    /\ UNCHANGED <<vendorVars, load, panelVars>>
-----------------------------------------------------------------------------
(* The PDF.                                                                *)

Smaller(a, b) == IF a < b THEN a ELSE b
Unsatisfiable == [start |-> 0, end |-> -1]

\* As ParseByteRange, with a suffix taken for the first bytes.
ParseByteRangeFromZero(range, size) ==
    LET last == IF range.last = None \/ range.last = Infinity THEN size - 1
                ELSE Smaller(range.last, size - 1)
        first == IF range.first = None THEN 0 ELSE range.first
    IN  IF first = Infinity \/ first >= size \/ last < first
        THEN Unsatisfiable ELSE [start |-> first, end |-> last]

\* The last bytes.
SuffixRange(wanted, size) ==
    IF wanted \in {0, Infinity} \/ size = 0 THEN Unsatisfiable
    ELSE [start |-> IF wanted < size THEN size - wanted ELSE 0, end |-> size - 1]

\* The bytes from first, to last if it is given.
BoundedRange(first, last, size) ==
    LET end == IF last \in {None, Infinity} THEN size - 1 ELSE Smaller(last, size - 1)
    IN  IF first = Infinity \/ first >= size \/ end < first THEN Unsatisfiable
        ELSE [start |-> first, end |-> end]

ParseByteRange(range, size) ==
    IF range.first = None THEN SuffixRange(range.last, size)
    ELSE BoundedRange(range.first, range.last, size)

\* A page asks for the URL of a render it was told of, unless the browser has it and
\* answers from its copy: PDFs are kept as immutable.  Only a document that is on show is served,
\* whichever render the URL names.
AskPdf(r) ==
    /\ request[r].step = "idle"
    /\ \E url \in Renders :
          LET q == [Asked(r, "pdf", "rendering") EXCEPT !.url = url, !.found = doc]
          IN  request' = [request EXCEPT ![r] =
                  IF stored.pdf[url] # None
                  THEN [q EXCEPT !.step = "answered", !.status = 200,
                                 !.found = None, !.body = stored.pdf[url]]
                  ELSE IF doc = None THEN Refused(q, 404) ELSE q]
    /\ UNCHANGED <<vendorVars, load, icon, panelVars, stored>>

\* cache.pdf() has the PDF of the document that was on show, or fails.
CacheAnswers(r) ==
    /\ request[r].step = "rendering"
    /\ \/ /\ pdfs' = pdfs \cup {request[r].found}
          /\ request' = [request EXCEPT ![r].step = "stat"]
       \/ /\ request' = [request EXCEPT ![r] = Refused(@, 500)]
          /\ UNCHANGED pdfs
    /\ UNCHANGED <<vendorVars, load, icon, doc, openings, stored>>

\* A header that says nothing asks for the whole file.
Headers == {None} \cup (Ranges \ {[first |-> None, last |-> None]})

\* stat() gives the size; the Range header is looked at and the head of the answer
\* written.
Stat(r) ==
    LET q == request[r]
        size == SizeOf[q.found]
    IN  /\ q.step = "stat"
        /\ \/ /\ q.found \notin pdfs
              /\ request' = [request EXCEPT ![r] = Refused(q, 500)]
           \/ /\ q.found \in pdfs
              /\ \E range \in Headers :
                    request' = [request EXCEPT ![r] =
                       IF range # None /\ ParseByteRange(range, size) = Unsatisfiable
                       THEN [Refused(q, 416) EXCEPT !.range = range, !.size = size]
                       ELSE [q EXCEPT !.step = "reading", !.range = range, !.size = size,
                                      !.status = IF range = None THEN 200 ELSE 206]]
        /\ UNCHANGED <<vendorVars, load, icon, panelVars, stored>>

\* The file is sent.  If it is gone by now its stream fails, and nobody listens for
\* that.
Read(r) ==
    LET q == request[r]
        part == IF q.range = None THEN [start |-> 0, end |-> q.size - 1]
                ELSE ParseByteRange(q.range, q.size)
    IN  /\ q.step = "reading"
        /\ IF q.found \in pdfs
           THEN /\ request' = [request EXCEPT ![r].step = "answered", ![r].body = q.found,
                                              ![r].bytes = part.start..part.end]
                /\ stored' = IF q.range = None
                             THEN [stored EXCEPT !.pdf[q.url] = q.found] ELSE stored
           ELSE /\ request' = [request EXCEPT ![r].step = "unheard"]
                /\ UNCHANGED stored
        /\ UNCHANGED <<vendorVars, load, icon, panelVars>>

\* The panel shows another render, or one it has shown before.
Shows ==
    /\ openings < MaxOpenings
    /\ openings' = openings + 1
    /\ doc' \in Renders \ {doc}
    /\ UNCHANGED <<vendorVars, load, icon, pdfs, stored, request>>

\* The cache prunes the PDFs of renders that are over, and those of a document that
\* is closed.
Goes ==
    /\ \E k \in pdfs : pdfs' = pdfs \ {k}
    /\ UNCHANGED <<vendorVars, load, icon, doc, openings, stored, request>>
-----------------------------------------------------------------------------
Answers(r) == CacheAnswers(r) \/ Stat(r) \/ Read(r)

Next ==
    \/ \E r \in Requests : AskWorker(r) \/ ServeFile(r) \/ AskIcon(r) \/ AskPdf(r) \/ Answers(r)
    \/ ReadManifest \/ ReadPart \/ ExtractorEnds
    \/ StartVendoring \/ VendorStep \/ VendoringFails
    \/ Shows \/ Goes

Spec == Init /\ [][Next]_vars
-----------------------------------------------------------------------------
Answered(kind) == {r \in Requests : request[r].kind = kind /\ request[r].step = "answered"}

\* A worker is never patched together: whatever the script does while the parts are
\* read, a page gets all parts of one version in their order, or a refusal, and a
\* copy that is confirmed by its ETag is whole as well.
WorkerIsWhole ==
    \A r \in Answered("worker") :
        request[r].status # 500 => \E v \in Versions : request[r].body = Whole(v)

\* "A failed load must not be cached": a worker asked for when no load is under way,
\* of a directory that is whole and stays so, is served.
FailureIsNotRemembered ==
    \A r \in Answered("worker") : request[r].sound => request[r].status # 500

\* The bytes a header asks for.
Wanted(range, size) ==
    {p \in 0..(size - 1) :
        IF range.first = None THEN range.last = Infinity \/ p >= size - range.last
        ELSE /\ range.first # Infinity /\ p >= range.first
             /\ range.last \in {None, Infinity} \/ p <= range.last}

\* A range gets just the bytes it asks for, a suffix those at the end of the file,
\* and a refusal when there are none.  A suffix with too many digits to be a number
\* is refused as well.
RangesAreExact ==
    \A r \in Answered("pdf") :
        LET q == request[r]
            empty == q.range # None /\ Wanted(q.range, q.size) = {}
            endless == q.range # None /\ q.range.first = None /\ q.range.last = Infinity
        IN  /\ q.status = 206 => q.bytes = Wanted(q.range, q.size) /\ q.bytes # {}
            /\ q.status = 416 => empty \/ endless

\* Does not hold: the URL names a render, the bytes are those of the render that is
\* on show when the request arrives, and the browser keeps them for a year.
PdfUrlNamesItsRender ==
    \A r \in Answered("pdf") : request[r].body \in {None, request[r].url}

\* Does not hold: a PDF that goes between stat() and the stream ends the process.
StreamsAreHeard == \A r \in Requests : request[r].step # "unheard"
=============================================================================
