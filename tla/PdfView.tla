-------------------------------- MODULE PdfView --------------------------------
(***************************************************************************)
(* The rendering surface of a panel (src/ui/pdf-view.mjs) and its zoom     *)
(* controls (syncZoom in src/ui/app.js): loads that overtake each other,   *)
(* pages painted one await at a time while the reader zooms, the panel is  *)
(* resized and a change record is drawn over the pages.                    *)
(*                                                                         *)
(* A document is named by the load that fetched it.  Scales are the levels *)
(* from MIN_SCALE (1) to MAX_SCALE (MaxScale); a panel is what it makes of *)
(* the two fits, 0 while it has no size.  pdf.js rejects what is asked of  *)
(* a destroyed document and what is cancelled, and paints what is left.    *)
(***************************************************************************)
EXTENDS Integers, Sequences

CONSTANTS
    MaxLoads,    \* bound: how often load() is called
    MaxEpochs,   \* bound: loads and re-scales
    PageCount,   \* pages of every document
    MaxScale,
    UnitScale,   \* the level a document opens at in a panel without a size
    Panels,      \* the sizes a panel can have: [width |-> fit, height |-> fit]
    Records,     \* the change records: [page |-> page, on |-> pages with its text]
    None

ASSUME ViewAssumption ==
    /\ {MaxLoads, MaxEpochs, PageCount, MaxScale} \subseteq Nat \ {0}
    /\ UnitScale \in 1..MaxScale
    /\ Panels \subseteq [width : 0..MaxScale, height : 0..MaxScale]
    /\ None \notin Records

VARIABLES
    generation,   \* #generation: the latest load
    epoch,        \* #epoch
    load,         \* how far each load has come
    doc,          \* #doc: the load whose document is shown, or 0
    open,         \* the documents pdf.js holds
    pages,        \* #pages
    observing,    \* whether the two observers are attached
    panel,        \* the size of the panel
    unreported,   \* whether the ResizeObserver has yet to report that size
    scale, fitMode,
    paints,       \* the paints under way
    change,       \* #change
    overlay,      \* the pages that carry a marker
    controls      \* what the zoom cluster says

scaleVars == <<epoch, scale, fitMode>>
pageVars == <<pages, paints, change, overlay>>
vars == <<generation, load, doc, open, observing, panel, unreported, scaleVars,
          pageVars, controls>>

Loads == 1..MaxLoads
PageNumbers == 1..PageCount
Scales == 1..MaxScale
LoadSteps == {"none", "tearing", "fetching", "fitting", "measuring",
              "shown", "superseded", "failed"}

\* measured: whether its proxy is there; layer: the scale of its text layer.
Placeholder == [measured |-> FALSE, rendered |-> FALSE, visible |-> FALSE,
                items |-> FALSE, bitmap |-> None, layer |-> None]

\* Types; markers are on pages that exist.
TypeOK ==
    /\ generation \in 0..MaxLoads /\ epoch \in 0..MaxEpochs
    /\ load \in [Loads -> LoadSteps]
    /\ doc \in 0..MaxLoads /\ open \subseteq Loads
    /\ Len(pages) \in {0, PageCount}
    /\ \A n \in DOMAIN pages :
           pages[n] \in [measured : BOOLEAN, rendered : BOOLEAN, visible : BOOLEAN,
                         items : BOOLEAN, bitmap : Scales \cup {None},
                         layer : Scales \cup {None}]
    /\ {observing, unreported} \subseteq BOOLEAN /\ panel \in Panels
    /\ scale \in Scales /\ fitMode \in {"width", "height", None}
    /\ paints \subseteq [page : PageNumbers, of : Loads, epoch : 0..MaxEpochs,
                         scale : Scales, step : {"render", "text", "layer"}]
    /\ change \in Records \cup {None} /\ overlay \subseteq DOMAIN pages
    /\ controls \in [loaded : BOOLEAN, zoomIn : BOOLEAN, zoomOut : BOOLEAN,
                     mode : {"width", "height", None}]

\* syncZoom(): the controls of a view with this document, scale and fit.
Controls(d, s, mode) ==
    [loaded |-> d # 0, zoomIn |-> d # 0 /\ s < MaxScale, zoomOut |-> d # 0 /\ s > 1,
     mode |-> IF d # 0 THEN mode ELSE None]

Init ==
    /\ generation = 0 /\ epoch = 0
    /\ load = [l \in Loads |-> "none"]
    /\ doc = 0 /\ open = {}
    /\ pages = <<>> /\ paints = {} /\ change = None /\ overlay = {}
    /\ observing = FALSE /\ unreported = FALSE
    /\ panel \in Panels
    /\ scale = UnitScale /\ fitMode = "width"
    /\ controls = Controls(0, UnitScale, None)
-----------------------------------------------------------------------------
(* The change overlay.                                                     *)

\* candidatePages(): the reported page, and the one before it when there is text
\* to find.
CandidatePages(r) ==
    IF r.on = {} THEN {r.page} ELSE {r.page - 1, r.page} \ {0}

\* planChangeMarks(): the candidates the text was found on; failing that the
\* reported page, once every candidate can be searched.
PlanChangeMarks(r, ps) ==
    LET candidates == CandidatePages(r) \cap DOMAIN ps
        found == {n \in candidates : ps[n].items /\ n \in r.on}
        searchable == r.on = {} \/ \A n \in candidates : ps[n].items
    IN  IF r = None \/ ps = <<>> THEN {}
        ELSE IF found # {} THEN found
        ELSE IF searchable THEN {r.page} \cap DOMAIN ps ELSE {}

ApplyChange(r, ps) == overlay' = IF r = None THEN {} ELSE PlanChangeMarks(r, ps)
-----------------------------------------------------------------------------
(* Painting.                                                               *)

\* #renderPage begins on the pages in which, as ps has them: an unpainted page
\* that is measured is claimed, and its canvas is cleared.
Unpainted(ps, which) == {n \in which : ps[n].measured /\ ~ps[n].rendered}

Claimed(ps, which) ==
    [n \in DOMAIN ps |-> IF n \in Unpainted(ps, which)
                         THEN [ps[n] EXCEPT !.rendered = TRUE, !.bitmap = None]
                         ELSE ps[n]]

Started(ps, which, e, s) ==
    {[page |-> n, of |-> doc, epoch |-> e, scale |-> s, step |-> "render"] :
        n \in Unpainted(ps, which)}

\* As Uncancelled, with nothing cancelled.
KeptPainting == paints

\* Cancelling ends a rendering and a text layer; a text extraction goes on.
Uncancelled == {p \in paints : p.step = "text"}

\* As Reset, with the page resized only.
Resized(page) == [page EXCEPT !.layer = None]

\* #resetPage: what was extracted stays.
Reset(page) == [page EXCEPT !.rendered = FALSE, !.layer = None]

\* As Matters, by the reported page.
IsReported(n) == change # None /\ n = change.page

\* A page painted after the record may have to be marked.
Matters(n) == change # None /\ n \in CandidatePages(change)

\* The page's paint goes on if nothing has changed what it would produce.
Live(p) == p.epoch = epoch

Advance(p) ==
    LET n == p.page
        rest == paints \ {p}
    IN  /\ p \in paints
        /\ IF Live(p)
           THEN \/ /\ p.step = "render"
                   /\ pages' = [pages EXCEPT ![n].bitmap = p.scale]
                   /\ paints' = rest \cup {[p EXCEPT !.step = "text"]}
                   /\ UNCHANGED overlay
                \/ /\ p.step = "text"
                   /\ pages' = [pages EXCEPT ![n].items = TRUE, ![n].layer = None]
                   /\ paints' = rest \cup {[p EXCEPT !.step = "layer"]}
                   /\ UNCHANGED overlay
                \/ /\ p.step = "layer"
                   /\ pages' = [pages EXCEPT ![n].layer = p.scale]
                   /\ paints' = rest
                   /\ IF Matters(n)
                      THEN ApplyChange(change, pages)
                      ELSE UNCHANGED overlay
           ELSE /\ paints' = rest
                /\ UNCHANGED <<pages, overlay>>
        /\ UNCHANGED <<generation, load, doc, open, observing, panel, unreported,
                       scaleVars, change, controls>>

\* The IntersectionObserver reports a page that comes into view or leaves it.
Intersect(n) ==
    LET seen == [pages EXCEPT ![n].visible = ~@]
        which == IF seen[n].visible THEN {n} ELSE {}
    IN  /\ observing
        /\ pages' = Claimed(seen, which)
        /\ paints' = paints \cup Started(seen, which, epoch, scale)
        /\ UNCHANGED <<generation, load, doc, open, observing, panel, unreported,
                       scaleVars, change, overlay, controls>>
-----------------------------------------------------------------------------
(* Scale.                                                                  *)

\* #fitScaleFor; 0 stands for null.
FitScaleFor(mode) == IF mode = "height" THEN panel.height ELSE panel.width

\* As Rescaled, with nobody told.
RescaledSilently(s, mode) ==
    LET empty == [n \in DOMAIN pages |-> Reset(pages[n])]
        inView == {n \in DOMAIN pages : pages[n].visible}
    IN  /\ epoch < MaxEpochs
        /\ scale' = s /\ epoch' = epoch + 1
        /\ pages' = Claimed(empty, inView)
        /\ paints' = Uncancelled \cup Started(empty, inView, epoch + 1, s)
        /\ ApplyChange(change, empty)
        /\ UNCHANGED controls

\* #rescale: every page is reset and sized, the overlay drawn anew and what is
\* in view painted; then the controls are told.
Rescaled(s, mode) ==
    LET empty == [n \in DOMAIN pages |-> Reset(pages[n])]
        inView == {n \in DOMAIN pages : pages[n].visible}
    IN  /\ epoch < MaxEpochs
        /\ scale' = s /\ epoch' = epoch + 1
        /\ pages' = Claimed(empty, inView)
        /\ paints' = Uncancelled \cup Started(empty, inView, epoch + 1, s)
        /\ ApplyChange(change, empty)
        /\ controls' = Controls(doc, s, mode)

\* A page that is not measured yet has no proxy to size it by: the press throws
\* with the scale and the epoch moved and the controls as they were.
Throws(s) ==
    /\ epoch < MaxEpochs
    /\ scale' = s /\ epoch' = epoch + 1
    /\ UNCHANGED <<pages, paints, overlay, controls>>

Rescale(s, mode, pressed) ==
    IF s = scale \/ pages = <<>>
    THEN /\ controls' = IF pressed THEN Controls(doc, scale, mode) ELSE controls
         /\ UNCHANGED <<epoch, scale, pages, paints, overlay>>
    ELSE IF \A n \in DOMAIN pages : pages[n].measured
    THEN Rescaled(s, mode)
    ELSE Throws(s)

\* The scale a standing fit asks for, or the scale there is.
Refitted(mode) ==
    IF doc = 0 \/ mode = None \/ pages = <<>> THEN scale
    ELSE IF ~pages[1].measured \/ FitScaleFor(mode) = 0 THEN scale
    ELSE FitScaleFor(mode)

unscaledVars == <<generation, load, doc, open, observing, panel, change>>

\* The zoom buttons leave the fit, the fit buttons set it.
ZoomIn ==
    /\ controls.zoomIn
    /\ fitMode' = None
    /\ Rescale(IF scale < MaxScale THEN scale + 1 ELSE scale, None, TRUE)
    /\ UNCHANGED <<unscaledVars, unreported>>

ZoomOut ==
    /\ controls.zoomOut
    /\ fitMode' = None
    /\ Rescale(IF scale > 1 THEN scale - 1 ELSE scale, None, TRUE)
    /\ UNCHANGED <<unscaledVars, unreported>>

Fit(mode) ==
    /\ controls.loaded
    /\ fitMode' = mode
    /\ Rescale(Refitted(mode), mode, TRUE)
    /\ UNCHANGED <<unscaledVars, unreported>>

\* The panel is resized; the ResizeObserver reports it, and a first size when it
\* is attached.
Resize ==
    /\ panel' \in Panels \ {panel}
    /\ unreported' = TRUE
    /\ UNCHANGED <<generation, load, doc, open, observing, scaleVars, pageVars, controls>>

Refit ==
    /\ observing /\ unreported
    /\ unreported' = FALSE
    /\ Rescale(Refitted(fitMode), fitMode, FALSE)
    /\ UNCHANGED <<unscaledVars, fitMode>>
-----------------------------------------------------------------------------
(* load().                                                                 *)

\* The next load: what is shown is torn down at once, its document destroyed.
Load ==
    /\ generation < MaxLoads /\ epoch < MaxEpochs
    /\ generation' = generation + 1 /\ epoch' = epoch + 1
    /\ load' = [load EXCEPT ![generation + 1] = IF doc = 0 THEN "fetching" ELSE "tearing"]
    /\ observing' = FALSE
    /\ pages' = <<>> /\ paints' = Uncancelled /\ overlay' = {}
    /\ doc' = 0 /\ open' = open \ {doc}
    /\ UNCHANGED <<panel, unreported, scale, fitMode, change, controls>>

TornDown(l) ==
    /\ load[l] = "tearing"
    /\ load' = [load EXCEPT ![l] = "fetching"]
    /\ UNCHANGED <<generation, doc, open, observing, panel, unreported, scaleVars,
                   pageVars, controls>>

\* As Fetched, with the document that was overtaken dropped.
FetchedDropped(l) ==
    /\ load[l] = "fetching"
    /\ open' = open \cup {l}
    /\ IF l = generation
       THEN /\ doc' = l /\ fitMode' = "width"
            /\ load' = [load EXCEPT ![l] = "fitting"]
       ELSE /\ load' = [load EXCEPT ![l] = "superseded"]
            /\ UNCHANGED <<doc, fitMode>>
    /\ UNCHANGED <<generation, observing, panel, unreported, epoch, scale, pageVars, controls>>

\* The document arrives; one that was overtaken is destroyed.
Fetched(l) ==
    /\ load[l] = "fetching"
    /\ IF l = generation
       THEN /\ doc' = l /\ open' = open \cup {l}
            /\ fitMode' = "width"
            /\ load' = [load EXCEPT ![l] = "fitting"]
            /\ UNCHANGED controls
       ELSE /\ load' = [load EXCEPT ![l] = "superseded"]
            /\ controls' = Controls(doc, scale, fitMode)
            /\ UNCHANGED <<doc, open, fitMode>>
    /\ UNCHANGED <<generation, observing, panel, unreported, epoch, scale, pageVars>>

\* The load throws, and showPdf() syncs the controls: the fetch failed, or the
\* document was destroyed under a page that was asked for.
LoadFails(l) ==
    /\ \/ load[l] = "fetching"
       \/ load[l] \in {"fitting", "measuring"} /\ l \notin open
    /\ load' = [load EXCEPT ![l] = "failed"]
    /\ controls' = Controls(doc, scale, fitMode)
    /\ UNCHANGED <<generation, doc, open, observing, panel, unreported, scaleVars, pageVars>>

\* The first page is there: the scale is the fit's, and the placeholders follow.
Fitted(l) ==
    /\ load[l] = "fitting" /\ l \in open
    /\ scale' = IF panel.width = 0 THEN UnitScale ELSE panel.width
    /\ pages' = pages \o [n \in PageNumbers |-> Placeholder]
    /\ load' = [load EXCEPT ![l] = "measuring"]
    /\ UNCHANGED <<generation, doc, open, observing, panel, unreported, epoch,
                   fitMode, paints, change, overlay, controls>>

\* A page has its proxy; after the last the observers are attached, the overlay
\* is drawn and showPdf() syncs the controls and sets the record there is now.
Measured(l, n) ==
    /\ load[l] = "measuring" /\ l \in open
    /\ ~pages[n].measured
    /\ pages' = [pages EXCEPT ![n].measured = TRUE]
    /\ IF \E m \in PageNumbers \ {n} : ~pages[m].measured
       THEN UNCHANGED <<load, observing, unreported, change, overlay, controls>>
       ELSE /\ load' = [load EXCEPT ![l] = "shown"]
            /\ observing' = TRUE /\ unreported' = TRUE
            /\ change' \in Records \cup {None}
            /\ ApplyChange(change', pages)
            /\ controls' = Controls(doc, scale, fitMode)
    /\ UNCHANGED <<generation, doc, open, panel, scaleVars, paints>>

\* setChange() on the document there is: a push without a new render, or the
\* reader's dismissal.
SetChange ==
    /\ change' \in (Records \cup {None}) \ {change}
    /\ ApplyChange(change', pages)
    /\ UNCHANGED <<generation, load, doc, open, observing, panel, unreported,
                   scaleVars, pages, paints, controls>>
-----------------------------------------------------------------------------
Loading(l) == \/ TornDown(l) \/ Fetched(l) \/ LoadFails(l) \/ Fitted(l)
              \/ \E n \in PageNumbers : Measured(l, n)

Reader == ZoomIn \/ ZoomOut \/ Fit("width") \/ Fit("height") \/ Resize
          \/ \E n \in DOMAIN pages : Intersect(n)

Next == \/ Load \/ SetChange \/ Refit \/ Reader
        \/ \E l \in Loads : Loading(l)
        \/ \E p \in paints : Advance(p)

Spec == Init /\ [][Next]_vars
-----------------------------------------------------------------------------
Loaded == generation # 0 /\ load[generation] = "shown"

\* pdf.js holds the document that is shown and no other: a load that is overtaken
\* at whichever await destroys what it fetched.
NoDocumentLeaks == open = {doc} \ {0}

\* A canvas is rendered to by one paint at a time, which pdf.js insists on.
OnePaintPerCanvas ==
    \A p, q \in paints : p.page = q.page /\ p.of = q.of /\ p.step # "text" /\ q.step # "text"
                           => p = q

\* Once nothing paints, a painted page has the bitmap and the text layer of the
\* current scale, and every page in view is painted: no stale, soft or blank page.
PagesAreSharp ==
    paints = {} => \A n \in DOMAIN pages :
        /\ pages[n].rendered => /\ pages[n].items
                                /\ pages[n].bitmap = scale /\ pages[n].layer = scale
        /\ pages[n].visible => pages[n].rendered

\* Once nothing paints, the markers are those the plan makes of the record and of
\* all the text extracted so far, pages painted after the record included.
OverlayIsThePlan ==
    paints = {} /\ Loaded => overlay = IF change = None THEN {}
                                       ELSE PlanChangeMarks(change, pages)

\* The zoom buttons say what the view does whenever no load is under way, whoever
\* moved the scale.
ControlsAreTrue ==
    Loaded => controls = Controls(doc, scale, fitMode)
=============================================================================
