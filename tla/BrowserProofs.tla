------------------------------ MODULE BrowserProofs ------------------------------
(***************************************************************************)
(* Proofs about the browser.  First PdfView, for every number of loads,    *)
(* epochs, pages and levels of scale, and for all panels and change        *)
(* records; then ViewerApp, the page around that view.                     *)
(*                                                                         *)
(* In PdfView everything follows the latest load: how far it has come says *)
(* what is shown, what is observed and which pages there are.  A paint of  *)
(* an older epoch is extracting text and will change nothing; a paint of   *)
(* this epoch is alone on its page, and stands for what the page still     *)
(* lacks.                                                                  *)
(***************************************************************************)
EXTENDS PdfView, ViewerApp, SequenceTheorems, TLAPS

PageSet ==
    [measured : BOOLEAN, rendered : BOOLEAN, visible : BOOLEAN, items : BOOLEAN,
     bitmap : Scales \cup {None}, layer : Scales \cup {None}]

PaintSet ==
    [page : PageNumbers, of : Loads, epoch : 0..MaxEpochs, scale : Scales,
     step : {"render", "text", "layer"}]

ControlSet ==
    [loaded : BOOLEAN, zoomIn : BOOLEAN, zoomOut : BOOLEAN, mode : {"width", "height", None}]

Typed ==
    /\ generation \in 0..MaxLoads /\ epoch \in 0..MaxEpochs
    /\ load \in [Loads -> LoadSteps]
    /\ doc \in 0..MaxLoads /\ open \subseteq Loads
    /\ pages = <<>> \/ pages \in [PageNumbers -> PageSet]
    /\ observing \in BOOLEAN /\ unreported \in BOOLEAN /\ panel \in Panels
    /\ scale \in Scales /\ fitMode \in {"width", "height", None}
    /\ paints \subseteq PaintSet
    /\ change \in Records \cup {None} /\ overlay \subseteq DOMAIN pages
    /\ controls \in ControlSet

\* How far the latest load has come.
Stage == IF generation = 0 THEN "none" ELSE load[generation]

\* Its document is shown once it is there, and is the one pdf.js holds; its pages
\* follow, and are observed and all measured at the end, not before, and unpainted
\* until then.
Surface ==
    /\ doc = IF Stage \in {"fitting", "measuring", "shown"} THEN generation ELSE 0
    /\ open = {doc} \ {0}
    /\ IF Stage \in {"measuring", "shown"} THEN pages \in [PageNumbers -> PageSet]
       ELSE pages = <<>>
    /\ observing <=> Stage = "shown"
    /\ Stage = "shown" => \A n \in DOMAIN pages : pages[n].measured
    /\ Stage = "measuring" =>
          /\ \E n \in DOMAIN pages : ~pages[n].measured
          /\ \A n \in DOMAIN pages : ~pages[n].rendered /\ ~pages[n].visible

\* A paint is of this epoch, then it paints the page that claimed it at the scale
\* there is; or it is extracting text in vain.
Owned(p) ==
    /\ p.epoch <= epoch
    /\ ~Live(p) => p.step = "text"
    /\ Live(p) => /\ Stage = "shown" /\ p.of = doc /\ p.scale = scale
                  /\ pages[p.page].rendered

Alone == \A p, q \in paints : Live(p) /\ Live(q) /\ p.page = q.page => p = q

\* A page has all of this scale.
Sharp(n) == pages[n].items /\ pages[n].bitmap = scale /\ pages[n].layer = scale

\* p is painting page n, and the page has what was painted before.
Painting(p, n) ==
    /\ Live(p) /\ p.page = n
    /\ p.step \in {"text", "layer"} => pages[n].bitmap = scale
    /\ p.step = "layer" => pages[n].items

\* A page that claims to be painted is, or somebody is painting it; what is in view
\* claims to be.
Progress ==
    \A n \in DOMAIN pages :
        /\ pages[n].rendered => Sharp(n) \/ \E p \in paints : Painting(p, n)
        /\ pages[n].visible => pages[n].rendered

\* The markers are those of the plan, or a paint that matters will draw them.
Plan(r, ps) == IF r = None THEN {} ELSE PlanChangeMarks(r, ps)

Marked ==
    Stage = "shown" =>
        \/ overlay = Plan(change, pages)
        \/ \E p \in paints : Live(p) /\ p.step = "layer" /\ Matters(p.page)

Told == Stage = "shown" => controls = Controls(doc, scale, fitMode)

IInv ==
    /\ Typed /\ Surface
    /\ \A p \in paints : Owned(p)
    /\ Alone /\ Progress /\ Marked /\ Told
-----------------------------------------------------------------------------
(* The operators.                                                          *)

\* The ranges are not empty, and their members are numbers.
LEMMA Bounds ==
    /\ MaxLoads \in Nat \ {0} /\ MaxEpochs \in Nat \ {0} /\ PageCount \in Nat \ {0}
    /\ MaxScale \in Nat \ {0} /\ UnitScale \in Scales
    /\ 1 \in PageNumbers /\ PageNumbers # {} /\ None \notin Records
    /\ \A l \in Loads : l \in Nat /\ l # 0
BY ViewAssumption DEF Scales, PageNumbers, Loads

\* There are pages when the pages are there.
LEMMA PagesThere ==
    ASSUME NEW ps \in [PageNumbers -> PageSet]
    PROVE  ps # <<>> /\ DOMAIN ps = PageNumbers
<1>1. DOMAIN ps = PageNumbers
  OBVIOUS
<1>2. DOMAIN <<>> = {}
  OBVIOUS
<1> QED
  BY <1>1, <1>2, Bounds

\* The plan goes by the text of the candidate pages only.
LEMMA PlanGoesByText ==
    ASSUME NEW r, NEW ps \in [PageNumbers -> PageSet], NEW qs \in [PageNumbers -> PageSet],
           \A n \in CandidatePages(r) \cap PageNumbers : ps[n].items = qs[n].items
    PROVE  Plan(r, ps) = Plan(r, qs)
<1>1. ps # <<>> /\ qs # <<>> /\ DOMAIN ps = PageNumbers /\ DOMAIN qs = PageNumbers
  BY PagesThere
<1> DEFINE candidates == CandidatePages(r) \cap PageNumbers
           found(x) == {n \in candidates : x[n].items /\ n \in r.on}
           searchable(x) == r.on = {} \/ \A n \in candidates : x[n].items
<1>2. found(ps) = found(qs) /\ (searchable(ps) <=> searchable(qs))
  OBVIOUS
<1>3. \A x \in {ps, qs} : Plan(r, x) =
         IF r = None THEN {} ELSE IF found(x) # {} THEN found(x)
         ELSE IF searchable(x) THEN {r.page} \cap PageNumbers ELSE {}
  BY <1>1 DEF Plan, PlanChangeMarks
<1> HIDE DEF found, searchable
<1> QED
  BY <1>2, <1>3

\* And marks pages that exist.
LEMMA PlanMarksPages ==
    ASSUME NEW r, NEW ps
    PROVE  Plan(r, ps) \subseteq DOMAIN ps
BY DEF Plan, PlanChangeMarks

\* The overlay that is drawn is that of the plan.
LEMMA AppliesPlan ==
    ASSUME NEW r, NEW ps, ApplyChange(r, ps)
    PROVE  overlay' = Plan(r, ps)
BY DEF ApplyChange, Plan

\* Pages that are claimed lose their bitmap, and nothing else changes.
LEMMA ClaimedPages ==
    ASSUME NEW ps \in [PageNumbers -> PageSet], NEW which \in SUBSET PageNumbers
    PROVE  LET qs == Claimed(ps, which)
           IN  /\ qs \in [PageNumbers -> PageSet]
               /\ \A n \in PageNumbers :
                     /\ qs[n].measured = ps[n].measured /\ qs[n].items = ps[n].items
                     /\ qs[n].visible = ps[n].visible
                     /\ n \in Unpainted(ps, which) => qs[n].rendered
                     /\ n \notin Unpainted(ps, which) => qs[n] = ps[n]
<1>1. DOMAIN ps = PageNumbers
  OBVIOUS
<1>2. Claimed(ps, which) =
         [n \in PageNumbers |-> IF n \in Unpainted(ps, which)
                                THEN [ps[n] EXCEPT !.rendered = TRUE, !.bitmap = None]
                                ELSE ps[n]]
  BY <1>1 DEF Claimed
<1>3. ASSUME NEW n \in PageNumbers
      PROVE  LET q == [ps[n] EXCEPT !.rendered = TRUE, !.bitmap = None]
             IN  /\ q \in PageSet /\ q.rendered /\ q.measured = ps[n].measured
                 /\ q.items = ps[n].items /\ q.visible = ps[n].visible
  <2>1. ps[n] \in PageSet
    OBVIOUS
  <2> QED
    BY <2>1 DEF PageSet
<1> HIDE DEF Claimed
<1> QED
  BY <1>2, <1>3

\* The paints that begin, one per page that was claimed.
LEMMA StartedPaints ==
    ASSUME NEW ps \in [PageNumbers -> PageSet], NEW which \in SUBSET PageNumbers,
           NEW e \in 0..MaxEpochs, NEW s \in Scales, doc \in Loads
    PROVE  /\ Started(ps, which, e, s) \subseteq PaintSet
           /\ \A p \in Started(ps, which, e, s) :
                 /\ p.page \in Unpainted(ps, which) /\ p.epoch = e /\ p.scale = s
                 /\ p.of = doc /\ p.step = "render"
           /\ \A p, q \in Started(ps, which, e, s) : p.page = q.page => p = q
           /\ \A n \in Unpainted(ps, which) :
                 \E p \in Started(ps, which, e, s) : p.page = n
<1> DEFINE paint(n) == [page |-> n, of |-> doc, epoch |-> e, scale |-> s, step |-> "render"]
<1>1. Started(ps, which, e, s) = {paint(n) : n \in Unpainted(ps, which)}
  BY DEF Started
<1>2. Unpainted(ps, which) \subseteq PageNumbers
  BY DEF Unpainted
<1>3. \A n \in PageNumbers :
         /\ paint(n) \in PaintSet /\ paint(n).page = n /\ paint(n).epoch = e
         /\ paint(n).scale = s /\ paint(n).of = doc /\ paint(n).step = "render"
  BY DEF PaintSet
<1> HIDE DEF paint, Started
<1> QED
  BY <1>1, <1>2, <1>3

\* What the controls say of a view is of their type.
LEMMA ControlsTyped ==
    ASSUME NEW d \in Nat, NEW s \in Scales, NEW mode \in {"width", "height", None}
    PROVE  Controls(d, s, mode) \in ControlSet
<1>1. s \in Nat /\ MaxScale \in Nat
  BY Bounds DEF Scales
<1> QED
  BY <1>1 DEF Controls, ControlSet

\* The type invariant, field by field.
LEMMA TypedIsTypeOK ==
    Typed => TypeOK
<1> SUFFICES ASSUME Typed
             PROVE  TypeOK
  OBVIOUS
<1>1. Len(pages) \in {0, PageCount} /\ \A n \in DOMAIN pages : pages[n] \in PageSet
  <2>1. CASE pages = <<>>
    BY <2>1
  <2>2. CASE pages \in [PageNumbers -> PageSet]
    <3>1. pages \in Seq(PageSet) /\ DOMAIN pages = 1..PageCount
      BY <2>2, Bounds DEF PageNumbers
    <3>2. Len(pages) = PageCount
      BY <3>1, Bounds
    <3> QED
      BY <2>2, <3>2
  <2> QED
    BY <2>1, <2>2 DEF Typed
<1> QED
  BY <1>1 DEF Typed, TypeOK, PageSet, PaintSet, ControlSet

\* What is known once the document is shown, and as long as it is not.
LEMMA OnceShown ==
    ASSUME Typed, Surface, Stage = "shown"
    PROVE  /\ doc = generation /\ doc \in Loads /\ generation # 0 /\ load[generation] = "shown"
           /\ pages \in [PageNumbers -> PageSet] /\ DOMAIN pages = PageNumbers
           /\ pages # <<>> /\ \A n \in PageNumbers : pages[n].measured
BY PagesThere, Bounds DEF Typed, Surface, Stage, Loads

\* Nothing is painted then.
LEMMA BeforeShown ==
    ASSUME IInv, Stage # "shown", NEW p \in paints
    PROVE  ~Live(p) /\ p.step = "text"
BY DEF IInv, Owned
-----------------------------------------------------------------------------
(* Painting.                                                               *)

\* A paint of this epoch moves on, or is done, and its page with it.
LEMMA PaintMoves ==
    ASSUME IInv, NEW p \in paints, Live(p),
           NEW moved \in SUBSET PaintSet, paints' = (paints \ {p}) \cup moved,
           \A q \in moved : q.page = p.page /\ q.of = p.of /\ q.epoch = p.epoch
                            /\ q.scale = p.scale,
           \A q, r \in moved : q = r,
           NEW page \in PageSet, pages' = [pages EXCEPT ![p.page] = page],
           page.measured = pages[p.page].measured, page.rendered = pages[p.page].rendered,
           page.visible = pages[p.page].visible,
           Sharp(p.page)' \/ (\E q \in paints' : Painting(q, p.page)'),
           Marked', overlay' \subseteq PageNumbers,
           UNCHANGED <<generation, load, doc, open, observing, panel, unreported,
                       scaleVars, change, controls>>
    PROVE  IInv'
<1>1. /\ Stage = "shown" /\ p \in PaintSet /\ p.page \in PageNumbers /\ p.of = doc
      /\ p.scale = scale /\ p.epoch = epoch /\ pages[p.page].rendered
  BY DEF IInv, Owned, Typed, Live, PaintSet
<1>2. /\ pages \in [PageNumbers -> PageSet] /\ DOMAIN pages = PageNumbers
      /\ \A n \in PageNumbers : pages[n].measured
  BY <1>1, OnceShown DEF IInv
<1>3. /\ pages' \in [PageNumbers -> PageSet] /\ DOMAIN pages' = PageNumbers
      /\ pages'[p.page] = page
      /\ \A n \in PageNumbers \ {p.page} : pages'[n] = pages[n]
      /\ \A n \in PageNumbers : /\ pages'[n].measured
                                /\ pages'[n].rendered = pages[n].rendered
                                /\ pages'[n].visible = pages[n].visible
  BY <1>1, <1>2
<1>4. Stage' = Stage /\ scale' = scale /\ epoch' = epoch /\ doc' = doc
  BY DEF Stage, scaleVars
<1>5. Typed'
  BY <1>3 DEF IInv, Typed, scaleVars
<1>6. Surface'
  BY <1>1, <1>3, <1>4 DEF IInv, Surface
<1>7. ASSUME NEW q \in paints'
      PROVE  Owned(q)'
  <2>1. CASE q \in paints
    <3>1. Owned(q) /\ q.page \in PageNumbers
      BY <2>1 DEF IInv, Typed, PaintSet
    <3> QED
      BY <1>3, <1>4, <3>1 DEF Owned, Live
  <2>2. CASE q \in moved
    <3>1. q.page = p.page /\ q.of = doc /\ q.epoch = epoch /\ q.scale = scale
      BY <1>1, <2>2
    <3>2. epoch \in Nat
      BY DEF IInv, Typed
    <3> QED
      BY <1>1, <1>3, <1>4, <3>1, <3>2 DEF Owned, Live
  <2> QED
    BY <2>1, <2>2
<1>8. Alone'
  <2>1. ASSUME NEW q \in paints', NEW r \in paints', q.epoch = epoch, r.epoch = epoch,
               q.page = r.page
        PROVE  q = r
    <3>1. \A x \in paints \ {p} : x.epoch = epoch => x.page # p.page
      BY DEF IInv, Alone, Live
    <3>2. CASE q \in paints \ {p} /\ r \in paints \ {p}
      BY <2>1, <3>2 DEF IInv, Alone, Live
    <3>3. CASE q \in moved \/ r \in moved
      BY <2>1, <3>1, <3>3
    <3> QED
      BY <3>2, <3>3
  <2> QED
    BY <1>4, <2>1 DEF Alone, Live
<1>9. Progress'
  <2>1. ASSUME NEW n \in PageNumbers, pages[n].rendered
        PROVE  Sharp(n)' \/ \E q \in paints' : Painting(q, n)'
    <3>1. CASE n = p.page
      BY <3>1
    <3>2. CASE n # p.page
      <4>1. CASE Sharp(n)
        BY <1>3, <1>4, <3>2, <4>1 DEF Sharp
      <4>2. ASSUME NEW q \in paints, Painting(q, n)
            PROVE  q \in paints' /\ Painting(q, n)'
        BY <1>3, <1>4, <3>2, <4>2 DEF Painting, Live
      <4> QED
        BY <1>2, <2>1, <4>1, <4>2 DEF IInv, Progress
    <3> QED
      BY <3>1, <3>2
  <2>2. \A n \in PageNumbers : pages'[n].visible => pages'[n].rendered
    BY <1>2, <1>3 DEF IInv, Progress
  <2> QED
    BY <1>3, <2>1, <2>2 DEF Progress
<1>10. Told'
  BY <1>4 DEF IInv, Told, scaleVars
<1> QED
  BY <1>5, <1>6, <1>7, <1>8, <1>9, <1>10 DEF IInv

\* A paint whose epoch is over goes, and changes nothing.
LEMMA StalePaintGoes ==
    ASSUME IInv, NEW p \in paints, ~Live(p), paints' = paints \ {p},
           UNCHANGED <<generation, load, doc, open, observing, panel, unreported,
                       scaleVars, pages, change, overlay, controls>>
    PROVE  IInv'
<1>1. Stage' = Stage /\ scale' = scale /\ epoch' = epoch
  BY DEF Stage, scaleVars
<1>2. Typed' /\ Surface' /\ Told'
  BY <1>1 DEF IInv, Typed, Surface, Told, scaleVars
<1>3. \A q \in paints' : Owned(q)'
  BY <1>1 DEF IInv, Owned, Live
<1>4. Alone'
  BY <1>1 DEF IInv, Alone, Live
<1>5. Progress'
  <2>1. \A n : Sharp(n)' = Sharp(n)
    BY <1>1 DEF Sharp
  <2>2. \A n : \A q \in paints : Painting(q, n) => q \in paints' /\ Painting(q, n)'
    BY <1>1 DEF Painting, Live
  <2> QED
    BY <2>1, <2>2 DEF IInv, Progress
<1>6. Marked'
  BY <1>1 DEF IInv, Marked, Live, Matters
<1> QED
  BY <1>2, <1>3, <1>4, <1>5, <1>6 DEF IInv

\* As the text of a page arrives, or its layer is drawn, the overlay is right or a
\* paint that matters is on its way.
LEMMA AdvanceKeeps ==
    ASSUME IInv, NEW p \in paints, Advance(p)
    PROVE  IInv'
<1>1. CASE ~Live(p)
  BY <1>1, StalePaintGoes DEF Advance
<1> SUFFICES ASSUME Live(p)
             PROVE  IInv'
  BY <1>1
<1> DEFINE n == p.page
<1>2. /\ Stage = "shown" /\ p \in PaintSet /\ n \in PageNumbers
      /\ p.scale = scale /\ p.epoch = epoch /\ pages[n].rendered /\ p.scale \in Scales
  BY DEF IInv, Owned, Typed, Live, PaintSet
<1>3. /\ pages \in [PageNumbers -> PageSet] /\ DOMAIN pages = PageNumbers
      /\ pages[n] \in PageSet /\ pages # <<>>
  BY <1>2, OnceShown DEF IInv
<1>4. /\ UNCHANGED <<generation, load, doc, open, observing, panel, unreported,
                     scaleVars, change, controls>>
      /\ Stage' = Stage /\ scale' = scale /\ epoch' = epoch
  BY DEF Advance, Stage, scaleVars
<1>5. Sharp(n) \/ Painting(p, n)
  <2>1. \A q \in paints : Painting(q, n) => q = p
    BY DEF IInv, Alone, Painting
  <2> QED
    BY <1>2, <1>3, <2>1 DEF IInv, Progress
<1>6. CASE /\ p.step = "render" /\ pages' = [pages EXCEPT ![n].bitmap = p.scale]
           /\ paints' = (paints \ {p}) \cup {[p EXCEPT !.step = "text"]}
           /\ UNCHANGED overlay
  <2> DEFINE page == [pages[n] EXCEPT !.bitmap = p.scale]
             q == [p EXCEPT !.step = "text"]
  <2>1. /\ page \in PageSet /\ page.measured = pages[n].measured /\ page.bitmap = scale
        /\ page.rendered = pages[n].rendered /\ page.visible = pages[n].visible
        /\ page.items = pages[n].items /\ page.layer = pages[n].layer
        /\ pages' = [pages EXCEPT ![n] = page] /\ pages'[n] = page
    BY <1>2, <1>3, <1>6 DEF PageSet
  <2>2. /\ q \in PaintSet /\ q.page = n /\ q.of = p.of /\ q.epoch = p.epoch
        /\ q.scale = p.scale /\ q.step = "text"
    BY <1>2 DEF PaintSet
  <2> HIDE DEF page, q, n
  <2>3. q \in paints' /\ Painting(q, n)'
    BY <1>2, <1>4, <1>6, <2>1, <2>2 DEF Painting, Live, q
  <2>4. Marked'
    <3>1. \A m \in PageNumbers : pages'[m].items = pages[m].items
      BY <1>2, <1>3, <2>1
    <3>2. pages' \in [PageNumbers -> PageSet]
      BY <1>2, <1>3, <2>1
    <3>3. Plan(change', pages') = Plan(change, pages)
      BY <1>3, <1>4, <3>1, <3>2, PlanGoesByText
    <3>4. \A r \in paints : Live(r) /\ r.step = "layer" /\ Matters(r.page) =>
              r \in paints' /\ Live(r)' /\ Matters(r.page)'
      BY <1>4, <1>6 DEF Live, Matters
    <3> QED
      BY <1>2, <1>4, <1>6, <3>3, <3>4 DEF IInv, Marked
  <2>5. paints' = (paints \ {p}) \cup {q} /\ overlay' \subseteq PageNumbers
    BY <1>3, <1>6 DEF IInv, Typed, q
  <2> QED
    BY <1>4, <2>1, <2>2, <2>3, <2>4, <2>5, PaintMoves DEF n
<1>7. CASE /\ p.step = "text" /\ pages' = [pages EXCEPT ![n].items = TRUE, ![n].layer = None]
           /\ paints' = (paints \ {p}) \cup {[p EXCEPT !.step = "layer"]}
           /\ UNCHANGED overlay
  <2> DEFINE page == [pages[n] EXCEPT !.items = TRUE, !.layer = None]
             q == [p EXCEPT !.step = "layer"]
  <2>1. /\ page \in PageSet /\ page.measured = pages[n].measured
        /\ page.bitmap = pages[n].bitmap
        /\ page.rendered = pages[n].rendered /\ page.visible = pages[n].visible
        /\ page.items /\ pages' = [pages EXCEPT ![n] = page] /\ pages'[n] = page
    BY <1>2, <1>3, <1>7 DEF PageSet
  <2>2. /\ q \in PaintSet /\ q.page = n /\ q.of = p.of /\ q.epoch = p.epoch
        /\ q.scale = p.scale /\ q.step = "layer"
    BY <1>2 DEF PaintSet
  <2> HIDE DEF page, q, n
  <2>3. q \in paints' /\ Painting(q, n)' /\ Live(q)'
    <3>1. pages[n].bitmap = scale
      BY <1>5, <1>7 DEF Sharp, Painting
    <3> QED
      BY <1>2, <1>4, <1>7, <2>1, <2>2, <3>1 DEF Painting, Live, q
  <2>4. Marked'
    <3>1. CASE Matters(n)
      <4>1. Matters(q.page)'
        BY <1>4, <2>2, <3>1 DEF Matters, n
      <4> QED
        BY <2>2, <2>3, <4>1 DEF Marked
    <3>2. CASE ~Matters(n)
      <4>1. pages' \in [PageNumbers -> PageSet]
            /\ \A m \in PageNumbers \ {n} : pages'[m].items = pages[m].items
        BY <1>2, <1>3, <2>1
      <4>2. Plan(change', pages') = Plan(change, pages)
        <5>1. CASE change = None
          BY <1>4, <5>1 DEF Plan
        <5>2. CASE change # None
          <6>1. n \notin CandidatePages(change)
            BY <3>2, <5>2 DEF Matters
          <6> QED
            BY <1>3, <1>4, <4>1, <6>1, PlanGoesByText
        <5> QED
          BY <5>1, <5>2
      <4>3. \A r \in paints : Live(r) /\ r.step = "layer" /\ Matters(r.page) =>
                r \in paints' /\ Live(r)' /\ Matters(r.page)'
        BY <1>4, <1>7 DEF Live, Matters
      <4> QED
        BY <1>2, <1>4, <1>7, <4>2, <4>3 DEF IInv, Marked
    <3> QED
      BY <3>1, <3>2
  <2>5. paints' = (paints \ {p}) \cup {q} /\ overlay' \subseteq PageNumbers
    BY <1>3, <1>7 DEF IInv, Typed, q
  <2> QED
    BY <1>4, <2>1, <2>2, <2>3, <2>4, <2>5, PaintMoves DEF n
<1>8. CASE /\ p.step = "layer" /\ pages' = [pages EXCEPT ![n].layer = p.scale]
           /\ paints' = paints \ {p}
           /\ IF Matters(n) THEN ApplyChange(change, pages) ELSE UNCHANGED overlay
  <2> DEFINE page == [pages[n] EXCEPT !.layer = p.scale]
  <2>1. /\ page \in PageSet /\ page.measured = pages[n].measured
        /\ page.bitmap = pages[n].bitmap /\ page.layer = scale
        /\ page.rendered = pages[n].rendered /\ page.visible = pages[n].visible
        /\ page.items = pages[n].items
        /\ pages' = [pages EXCEPT ![n] = page] /\ pages'[n] = page
    BY <1>2, <1>3, <1>8 DEF PageSet
  <2> HIDE DEF page, n
  <2>2. Sharp(n)'
    <3>1. pages[n].bitmap = scale /\ pages[n].items
      BY <1>5, <1>8 DEF Sharp, Painting
    <3> QED
      BY <1>4, <2>1, <3>1 DEF Sharp
  <2>3. /\ \A m \in PageNumbers : pages'[m].items = pages[m].items
        /\ pages' \in [PageNumbers -> PageSet]
    BY <1>2, <1>3, <2>1
  <2>4. Plan(change', pages') = Plan(change, pages)
    BY <1>3, <1>4, <2>3, PlanGoesByText
  <2>5. Marked' /\ overlay' \subseteq PageNumbers
    <3>1. CASE Matters(n)
      <4>1. overlay' = Plan(change, pages)
        BY <1>8, <3>1, AppliesPlan
      <4> QED
        BY <1>3, <2>4, <4>1, PlanMarksPages DEF Marked
    <3>2. CASE ~Matters(n)
      <4>1. \A r \in paints : Live(r) /\ r.step = "layer" /\ Matters(r.page) =>
                r \in paints' /\ Live(r)' /\ Matters(r.page)'
        BY <1>4, <1>8, <3>2 DEF Live, Matters, n
      <4>2. overlay' = overlay
        BY <1>8, <3>2
      <4> QED
        BY <1>2, <1>3, <1>4, <2>4, <4>1, <4>2 DEF IInv, Marked, Typed
    <3> QED
      BY <3>1, <3>2
  <2>6. paints' = (paints \ {p}) \cup {} /\ {} \in SUBSET PaintSet
    BY <1>8
  <2> QED
    BY <1>4, <2>1, <2>2, <2>5, <2>6, PaintMoves DEF n
<1> QED
  BY <1>6, <1>7, <1>8 DEF Advance

\* Pages are claimed, and a paint begins on each: the paints that go on are those of
\* pages that were claimed before.
LEMMA ClaimsKeep ==
    ASSUME IInv, Stage = "shown",
           UNCHANGED <<generation, load, doc, open, observing, panel>>,
           NEW ps \in [PageNumbers -> PageSet], NEW which \in SUBSET PageNumbers,
           NEW kept \in SUBSET PaintSet,
           epoch' \in 0..MaxEpochs, scale' \in Scales, unreported' \in BOOLEAN,
           fitMode' \in {"width", "height", None}, change' \in Records \cup {None},
           controls' \in ControlSet, overlay' \subseteq PageNumbers, Marked', Told',
           pages' = Claimed(ps, which),
           paints' = kept \cup Started(ps, which, epoch', scale'),
           \A n \in PageNumbers : ps[n].measured,
           \A q \in kept : /\ q.epoch <= epoch'
                           /\ q.epoch # epoch' => q.step = "text"
                           /\ q.epoch = epoch' => q.of = doc /\ q.scale = scale'
                                                  /\ ps[q.page].rendered,
           \A q, r \in kept : q.epoch = epoch' /\ r.epoch = epoch' /\ q.page = r.page => q = r,
           \A n \in PageNumbers : ps[n].rendered =>
              \/ ps[n].items /\ ps[n].bitmap = scale' /\ ps[n].layer = scale'
              \/ \E q \in kept : /\ q.epoch = epoch' /\ q.page = n
                                 /\ q.step \in {"text", "layer"} => ps[n].bitmap = scale'
                                 /\ q.step = "layer" => ps[n].items,
           \A n \in PageNumbers : ps[n].visible => ps[n].rendered \/ n \in which
    PROVE  IInv'
<1> DEFINE fresh == Started(ps, which, epoch', scale')
           claimed == Unpainted(ps, which)
<1>1. doc \in Loads /\ doc = generation
  BY OnceShown DEF IInv
<1>2. /\ pages' \in [PageNumbers -> PageSet] /\ DOMAIN pages' = PageNumbers
      /\ \A n \in PageNumbers :
            /\ pages'[n].measured = ps[n].measured /\ pages'[n].items = ps[n].items
            /\ pages'[n].visible = ps[n].visible
            /\ n \in claimed => pages'[n].rendered
            /\ n \notin claimed => pages'[n] = ps[n]
  BY ClaimedPages
<1>3. /\ fresh \subseteq PaintSet
      /\ \A p \in fresh : /\ p.page \in claimed /\ p.epoch = epoch' /\ p.scale = scale'
                          /\ p.of = doc /\ p.step = "render"
      /\ \A p, q \in fresh : p.page = q.page => p = q
      /\ \A n \in claimed : \E p \in fresh : p.page = n
  <2>1. PICK e \in 0..MaxEpochs, s \in Scales : e = epoch' /\ s = scale'
    OBVIOUS
  <2>2. fresh = Started(ps, which, e, s)
    BY <2>1
  <2> HIDE DEF fresh, claimed
  <2>3. /\ Started(ps, which, e, s) \subseteq PaintSet
        /\ \A p \in Started(ps, which, e, s) :
              /\ p.page \in claimed /\ p.epoch = e /\ p.scale = s
              /\ p.of = doc /\ p.step = "render"
        /\ \A p, q \in Started(ps, which, e, s) : p.page = q.page => p = q
        /\ \A n \in claimed : \E p \in Started(ps, which, e, s) : p.page = n
    BY <1>1, StartedPaints DEF claimed
  <2> QED
    BY <2>1, <2>2, <2>3
<1>4. paints' = kept \cup fresh /\ Stage' = "shown" /\ doc' = doc /\ epoch' \in Nat
  BY DEF Stage
<1>5. \A n \in claimed : n \in PageNumbers /\ ~ps[n].rendered
  BY DEF Unpainted
<1>6. \A n \in PageNumbers : n \in which /\ ~ps[n].rendered => n \in claimed
  BY DEF Unpainted
<1> HIDE DEF fresh, claimed
<1>7. Typed'
  BY <1>2, <1>3, <1>4 DEF IInv, Typed
<1>8. Surface'
  BY <1>2, <1>4 DEF IInv, Surface
<1>9. ASSUME NEW q \in paints'
      PROVE  Owned(q)'
  <2>1. CASE q \in kept
    <3>1. q.epoch = epoch' => pages'[q.page].rendered
      <4>1. q.page \in PageNumbers
        BY <2>1 DEF PaintSet
      <4> QED
        BY <1>2, <2>1, <4>1
    <3> QED
      BY <1>4, <2>1, <3>1 DEF Owned, Live
  <2>2. CASE q \in fresh
    <3>1. pages'[q.page].rendered
      BY <1>2, <1>3, <1>5, <2>2
    <3> QED
      BY <1>3, <1>4, <2>2, <3>1 DEF Owned, Live
  <2> QED
    BY <1>4, <2>1, <2>2
<1>10. Alone'
  <2>1. \A q \in kept : q.epoch = epoch' => q.page \notin claimed
    BY <1>5
  <2>2. ASSUME NEW q \in paints', NEW r \in paints', q.epoch = epoch', r.epoch = epoch',
               q.page = r.page
        PROVE  q = r
    BY <1>3, <1>4, <2>1, <2>2
  <2> QED
    BY <2>2 DEF Alone, Live
<1>11. Progress'
  <2>1. ASSUME NEW n \in PageNumbers, pages'[n].rendered
        PROVE  Sharp(n)' \/ \E q \in paints' : Painting(q, n)'
    <3>1. CASE n \in claimed
      <4>1. PICK p \in fresh : p.page = n
        BY <1>3, <3>1
      <4>2. Painting(p, n)' /\ p \in paints'
        BY <1>3, <1>4, <4>1 DEF Painting, Live
      <4> QED
        BY <4>2
    <3>2. CASE n \notin claimed
      <4>1. pages'[n] = ps[n]
        BY <1>2, <3>2
      <4>2. CASE ps[n].items /\ ps[n].bitmap = scale' /\ ps[n].layer = scale'
        BY <4>1, <4>2 DEF Sharp
      <4>3. ASSUME NEW q \in kept, q.epoch = epoch', q.page = n,
                   q.step \in {"text", "layer"} => ps[n].bitmap = scale',
                   q.step = "layer" => ps[n].items
            PROVE  q \in paints' /\ Painting(q, n)'
        BY <1>4, <4>1, <4>3 DEF Painting, Live
      <4> QED
        BY <2>1, <4>1, <4>2, <4>3
    <3> QED
      BY <3>1, <3>2
  <2>2. \A n \in PageNumbers : pages'[n].visible => pages'[n].rendered
    BY <1>2, <1>6
  <2> QED
    BY <1>2, <2>1, <2>2 DEF Progress
<1> QED
  BY <1>7, <1>8, <1>9, <1>10, <1>11 DEF IInv

\* A page comes into view, and is claimed unless it is painted, or leaves it.
LEMMA IntersectKeeps ==
    ASSUME IInv, NEW n \in DOMAIN pages, Intersect(n)
    PROVE  IInv'
<1> DEFINE seen == [pages EXCEPT ![n].visible = ~@]
           which == IF seen[n].visible THEN {n} ELSE {}
<1>1. /\ observing /\ pages' = Claimed(seen, which)
      /\ paints' = paints \cup Started(seen, which, epoch, scale)
      /\ UNCHANGED <<generation, load, doc, open, observing, panel, unreported,
                     scaleVars, change, overlay, controls>>
  BY DEF Intersect
<1>2. /\ Stage = "shown" /\ pages \in [PageNumbers -> PageSet] /\ n \in PageNumbers
      /\ DOMAIN pages = PageNumbers /\ \A m \in PageNumbers : pages[m].measured
  BY <1>1, OnceShown DEF IInv, Surface
<1>3. pages[n] \in PageSet
  BY <1>2
<1> DEFINE page == [pages[n] EXCEPT !.visible = ~@]
<1>4. /\ page \in PageSet /\ page.measured = pages[n].measured
      /\ page.rendered = pages[n].rendered /\ page.items = pages[n].items
      /\ page.bitmap = pages[n].bitmap /\ page.layer = pages[n].layer
  BY <1>3 DEF PageSet
<1>5. seen = [pages EXCEPT ![n] = page]
  BY <1>2
<1> HIDE DEF page, seen
<1>6. /\ seen \in [PageNumbers -> PageSet] /\ which \in SUBSET PageNumbers
      /\ seen[n] = page /\ \A m \in PageNumbers \ {n} : seen[m] = pages[m]
      /\ \A m \in PageNumbers :
            /\ seen[m].measured = pages[m].measured /\ seen[m].rendered = pages[m].rendered
            /\ seen[m].items = pages[m].items /\ seen[m].bitmap = pages[m].bitmap
            /\ seen[m].layer = pages[m].layer
  BY <1>2, <1>4, <1>5
<1>7. \A m \in PageNumbers : seen[m].visible => seen[m].rendered \/ m \in which
  BY <1>2, <1>6 DEF IInv, Progress
<1> HIDE DEF which
<1>8. epoch' = epoch /\ scale' = scale /\ fitMode' = fitMode /\ Stage' = Stage
  BY <1>1 DEF scaleVars, Stage
<1>9. \A m \in PageNumbers : seen[m].rendered =>
         \/ seen[m].items /\ seen[m].bitmap = scale' /\ seen[m].layer = scale'
         \/ \E q \in paints : /\ q.epoch = epoch' /\ q.page = m
                              /\ q.step \in {"text", "layer"} => seen[m].bitmap = scale'
                              /\ q.step = "layer" => seen[m].items
  BY <1>2, <1>6, <1>8 DEF IInv, Progress, Sharp, Painting, Live
<1>10. \A q \in paints : /\ q.epoch <= epoch'
                         /\ q.epoch # epoch' => q.step = "text"
                         /\ q.epoch = epoch' => q.of = doc /\ q.scale = scale'
                                                /\ seen[q.page].rendered
  <2>1. \A q \in paints : q.page \in PageNumbers
    BY DEF IInv, Typed, PaintSet
  <2> QED
    BY <1>6, <1>8, <2>1 DEF IInv, Owned, Live
<1>11. \A q, r \in paints : q.epoch = epoch' /\ r.epoch = epoch' /\ q.page = r.page => q = r
  BY <1>8 DEF IInv, Alone, Live
<1>12. Marked'
  <2>1. /\ pages' \in [PageNumbers -> PageSet]
        /\ \A m \in PageNumbers : pages'[m].items = pages[m].items
    BY <1>1, <1>6, ClaimedPages
  <2>2. Plan(change', pages') = Plan(change, pages)
    BY <1>1, <1>2, <2>1, PlanGoesByText
  <2>3. \A p \in paints : Live(p) /\ p.step = "layer" /\ Matters(p.page) =>
            p \in paints' /\ Live(p)' /\ Matters(p.page)'
    BY <1>1, <1>8 DEF Live, Matters
  <2> QED
    BY <1>1, <1>8, <2>2, <2>3 DEF IInv, Marked
<1>13. Told'
  BY <1>1, <1>8 DEF IInv, Told
<1>14. /\ epoch' \in 0..MaxEpochs /\ scale' \in Scales /\ unreported' \in BOOLEAN
       /\ fitMode' \in {"width", "height", None} /\ change' \in Records \cup {None}
       /\ controls' \in ControlSet /\ overlay' \subseteq PageNumbers /\ paints \in SUBSET PaintSet
       /\ paints' = paints \cup Started(seen, which, epoch', scale')
       /\ \A m \in PageNumbers : seen[m].measured
  BY <1>1, <1>2, <1>6, <1>8 DEF IInv, Typed
<1> QED
  BY <1>1, <1>2, <1>6, <1>7, <1>9, <1>10, <1>11, <1>12, <1>13, <1>14, ClaimsKeep
-----------------------------------------------------------------------------
(* Scale.                                                                  *)

\* Every page is reset, sized and painted again.
LEMMA RescaledKeeps ==
    ASSUME IInv, NEW s \in Scales, NEW mode \in {"width", "height", None},
           pages # <<>>, \A n \in DOMAIN pages : pages[n].measured, Stage = "shown",
           Rescaled(s, mode), fitMode' = mode, unreported' \in BOOLEAN, UNCHANGED unscaledVars
    PROVE  IInv'
<1> DEFINE empty == [n \in DOMAIN pages |-> Reset(pages[n])]
           inView == {n \in DOMAIN pages : pages[n].visible}
<1>1. /\ epoch < MaxEpochs /\ scale' = s /\ epoch' = epoch + 1
      /\ pages' = Claimed(empty, inView)
      /\ paints' = Uncancelled \cup Started(empty, inView, epoch + 1, s)
      /\ overlay' = Plan(change, empty) /\ controls' = Controls(doc, s, mode)
  BY AppliesPlan DEF Rescaled
<1>2. /\ pages \in [PageNumbers -> PageSet] /\ DOMAIN pages = PageNumbers
      /\ \A m \in PageNumbers : pages[m].measured
      /\ doc \in Loads
  BY OnceShown DEF IInv
<1>3. \A n \in PageNumbers :
         LET q == Reset(pages[n])
         IN  /\ q \in PageSet /\ ~q.rendered /\ q.items = pages[n].items
             /\ q.measured = pages[n].measured /\ q.visible = pages[n].visible
  BY <1>2 DEF Reset, PageSet
<1>4. /\ empty \in [PageNumbers -> PageSet] /\ inView \in SUBSET PageNumbers
      /\ \A n \in PageNumbers :
            /\ ~empty[n].rendered /\ empty[n].items = pages[n].items /\ empty[n].measured
            /\ empty[n].visible => n \in inView
  BY <1>2, <1>3
<1> HIDE DEF empty, inView
<1>5. /\ epoch' \in 0..MaxEpochs /\ epoch \in Nat /\ epoch' = epoch + 1
      /\ scale' \in Scales /\ doc \in Nat
  BY <1>1, Bounds DEF IInv, Typed
<1>6. Uncancelled \subseteq paints /\ \A q \in Uncancelled : q.step = "text"
  BY DEF Uncancelled
<1>7. \A q \in Uncancelled : q.epoch <= epoch' /\ q.epoch # epoch' /\ q.step = "text"
  <2>1. \A q \in Uncancelled : q.epoch \in Nat /\ q.epoch <= epoch
    BY <1>6 DEF IInv, Owned, Typed, PaintSet
  <2> QED
    BY <1>5, <1>6, <2>1
<1>8. UNCHANGED <<generation, load, doc, open, observing, panel, change>> /\ Stage' = Stage
  BY DEF unscaledVars, Stage
<1>9. Marked'
  <2>1. /\ pages' \in [PageNumbers -> PageSet]
        /\ \A n \in PageNumbers : pages'[n].items = empty[n].items
    BY <1>1, <1>4, ClaimedPages
  <2>2. Plan(change', pages') = Plan(change, empty)
    BY <1>4, <1>8, <2>1, PlanGoesByText
  <2> QED
    BY <1>1, <2>2 DEF Marked
<1>10. Told'
  BY <1>1, <1>8 DEF Told
<1>11. controls' \in ControlSet
  BY <1>1, <1>5, ControlsTyped
<1>12. overlay' \subseteq PageNumbers
  <2>1. DOMAIN empty = PageNumbers
    BY <1>4
  <2> QED
    BY <1>1, <2>1, PlanMarksPages
<1>13. /\ paints' = Uncancelled \cup Started(empty, inView, epoch', scale')
       /\ Uncancelled \in SUBSET PaintSet /\ change' \in Records \cup {None}
  BY <1>1, <1>6, <1>8 DEF IInv, Typed
<1> QED
  BY <1>1, <1>4, <1>5, <1>7, <1>8, <1>9, <1>10, <1>11, <1>12, <1>13, ClaimsKeep

\* A page is not measured yet: the scale and the epoch move, and nothing paints.
LEMMA ThrowsKeeps ==
    ASSUME IInv, NEW s \in Scales, Stage # "shown", Throws(s),
           fitMode' \in {"width", "height", None}, unreported' \in BOOLEAN,
           UNCHANGED unscaledVars
    PROVE  IInv'
<1>1. /\ epoch < MaxEpochs /\ scale' = s /\ epoch' = epoch + 1
      /\ UNCHANGED <<pages, paints, overlay, controls>>
      /\ UNCHANGED <<generation, load, doc, open, observing, panel, change>>
      /\ Stage' = Stage
  BY DEF Throws, unscaledVars, Stage
<1>2. epoch' \in 0..MaxEpochs /\ epoch \in Nat
  BY <1>1, Bounds DEF IInv, Typed
<1>3. Typed'
  BY <1>1, <1>2 DEF IInv, Typed
<1>4. Surface' /\ Marked' /\ Told'
  BY <1>1 DEF IInv, Surface, Marked, Told
<1>5. \A p \in paints : p.epoch \in Nat /\ p.epoch < epoch' /\ p.step = "text"
  BY <1>1, <1>2, BeforeShown DEF IInv, Owned, Typed, PaintSet
<1>6. (\A p \in paints : Owned(p))' /\ Alone'
  BY <1>1, <1>2, <1>5 DEF Owned, Alone, Live
<1>7. Progress'
  <2>1. \A n \in DOMAIN pages : ~pages[n].rendered /\ ~pages[n].visible
    BY DEF IInv, Surface
  <2> QED
    BY <1>1, <2>1 DEF Progress
<1> QED
  BY <1>3, <1>4, <1>6, <1>7 DEF IInv

\* The scale stays, and what the controls say is true.
LEMMA SameScaleKeeps ==
    ASSUME IInv, fitMode' \in {"width", "height", None}, unreported' \in BOOLEAN,
           panel' \in Panels,
           UNCHANGED <<generation, load, doc, open, observing, change, epoch, scale, pages,
                       paints, overlay>>,
           controls' \in ControlSet, Told'
    PROVE  IInv'
<1>1. Stage' = Stage
  BY DEF Stage
<1>2. Typed' /\ Surface'
  BY <1>1 DEF IInv, Typed, Surface
<1>3. (\A p \in paints : Owned(p))' /\ Alone'
  BY <1>1 DEF IInv, Owned, Alone, Live
<1>4. Progress'
  BY DEF IInv, Progress, Sharp, Painting, Live
<1>5. Marked'
  BY <1>1 DEF IInv, Marked, Live, Matters
<1> QED
  BY <1>2, <1>3, <1>4, <1>5 DEF IInv

\* #rescale, whichever way it goes.
LEMMA RescaleKeeps ==
    ASSUME IInv, NEW s \in Scales, NEW mode \in {"width", "height", None},
           NEW pressed \in BOOLEAN, Rescale(s, mode, pressed), fitMode' = mode,
           pressed \/ mode = fitMode, unreported' \in BOOLEAN, UNCHANGED unscaledVars
    PROVE  IInv'
<1>1. UNCHANGED <<generation, load, doc, open, observing, panel, change>> /\ Stage' = Stage
  BY DEF unscaledVars, Stage
<1>2. CASE s = scale \/ pages = <<>>
  <2>1. /\ controls' = IF pressed THEN Controls(doc, scale, mode) ELSE controls
        /\ UNCHANGED <<epoch, scale, pages, paints, overlay>>
    BY <1>2 DEF Rescale
  <2>2. doc \in Nat /\ scale \in Scales /\ controls \in ControlSet /\ panel \in Panels
    BY Bounds DEF IInv, Typed
  <2>3. controls' \in ControlSet
    BY <2>1, <2>2, ControlsTyped
  <2>4. Told'
    BY <1>1, <2>1 DEF IInv, Told
  <2> QED
    BY <1>1, <2>1, <2>2, <2>3, <2>4, SameScaleKeeps
<1>3. CASE ~(s = scale \/ pages = <<>>) /\ \A n \in DOMAIN pages : pages[n].measured
  <2>1. Rescaled(s, mode) /\ pages # <<>> /\ Stage = "shown"
    BY <1>3 DEF Rescale, IInv, Surface
  <2> QED
    BY <1>3, <2>1, RescaledKeeps
<1>4. CASE ~(s = scale \/ pages = <<>>) /\ \E n \in DOMAIN pages : ~pages[n].measured
  <2>1. Throws(s) /\ Stage # "shown"
    BY <1>4 DEF Rescale, IInv, Surface
  <2> QED
    BY <2>1, ThrowsKeeps
<1> QED
  BY <1>2, <1>3, <1>4

\* A fit asks for a level there is.
LEMMA RefittedToScale ==
    ASSUME Typed, NEW mode
    PROVE  Refitted(mode) \in Scales
<1>1. panel \in [width : 0..MaxScale, height : 0..MaxScale] /\ scale \in Scales
  BY ViewAssumption DEF Typed
<1>2. FitScaleFor(mode) \in 0..MaxScale
  BY <1>1 DEF FitScaleFor
<1>3. FitScaleFor(mode) # 0 => FitScaleFor(mode) \in Scales
  BY <1>2, Bounds DEF Scales
<1> QED
  BY <1>1, <1>3 DEF Refitted

\* The zoom buttons, the fit buttons and the ResizeObserver.
LEMMA ScalingKeeps ==
    ASSUME IInv, ZoomIn \/ ZoomOut \/ Fit("width") \/ Fit("height") \/ Refit
    PROVE  IInv'
<1>1. scale \in 1..MaxScale /\ MaxScale \in Nat /\ unreported \in BOOLEAN /\ Typed
      /\ fitMode \in {"width", "height", None}
  BY Bounds DEF IInv, Typed, Scales
<1>2. CASE ZoomIn
  <2>1. (IF scale < MaxScale THEN scale + 1 ELSE scale) \in Scales
    BY <1>1 DEF Scales
  <2> QED
    BY <1>1, <1>2, <2>1, RescaleKeeps DEF ZoomIn
<1>3. CASE ZoomOut
  <2>1. (IF scale > 1 THEN scale - 1 ELSE scale) \in Scales
    BY <1>1 DEF Scales
  <2> QED
    BY <1>1, <1>3, <2>1, RescaleKeeps DEF ZoomOut
<1>4. ASSUME NEW mode \in {"width", "height"}, Fit(mode)
      PROVE  IInv'
  <2>1. Refitted(mode) \in Scales
    BY <1>1, RefittedToScale
  <2> QED
    BY <1>1, <1>4, <2>1, RescaleKeeps DEF Fit
<1>5. CASE Refit
  <2>1. Refitted(fitMode) \in Scales
    BY <1>1, RefittedToScale
  <2> QED
    BY <1>1, <1>5, <2>1, RescaleKeeps DEF Refit
<1> QED
  BY <1>2, <1>3, <1>4, <1>5

\* The panel is resized.
LEMMA ResizeKeeps ==
    ASSUME IInv, Resize
    PROVE  IInv'
<1>1. /\ panel' \in Panels /\ unreported' \in BOOLEAN
      /\ UNCHANGED <<generation, load, doc, open, observing, change, epoch, scale, pages,
                     paints, overlay, fitMode, controls>>
  BY DEF Resize, scaleVars, pageVars
<1>2. fitMode' \in {"width", "height", None} /\ controls' \in ControlSet
  BY <1>1 DEF IInv, Typed
<1>3. Told'
  BY <1>1 DEF IInv, Told, Stage
<1> QED
  BY <1>1, <1>2, <1>3, SameScaleKeeps
-----------------------------------------------------------------------------
(* Loads.                                                                  *)

\* While nothing is shown there is nothing to be painted, marked or told: a step
\* that leaves the view in such a stage has only the surface to keep.
LEMMA UnshownKeeps ==
    ASSUME Typed', Surface', (Stage # "shown")', paints' \subseteq PaintSet,
           \A p \in paints' : p.epoch < epoch' /\ p.step = "text"
    PROVE  IInv'
<1>1. \A p \in paints' : p.epoch \in Nat
  BY DEF PaintSet
<1>2. (\A p \in paints : Owned(p))' /\ Alone'
  BY <1>1 DEF Owned, Alone, Live, Typed
<1>3. Progress'
  <2>1. \A n \in DOMAIN pages' : ~pages'[n].rendered /\ ~pages'[n].visible
    BY DEF Surface
  <2> QED
    BY <2>1 DEF Progress
<1>4. Marked' /\ Told'
  BY DEF Marked, Told
<1> QED
  BY <1>2, <1>3, <1>4 DEF IInv

\* The paints that are left while nothing is shown are of epochs that are over.
LEMMA OldPaints ==
    ASSUME IInv, Stage # "shown"
    PROVE  \A p \in paints : p.epoch < epoch /\ p.step = "text"
BY BeforeShown DEF IInv, Owned, Live, Typed, PaintSet

\* The next load tears down what is shown.
LEMMA LoadKeeps ==
    ASSUME IInv, Load
    PROVE  IInv'
<1>1. /\ generation < MaxLoads /\ epoch < MaxEpochs
      /\ generation' = generation + 1 /\ epoch' = epoch + 1
      /\ load' = [load EXCEPT ![generation + 1] = IF doc = 0 THEN "fetching" ELSE "tearing"]
      /\ observing' = FALSE /\ pages' = <<>> /\ paints' = Uncancelled /\ overlay' = {}
      /\ doc' = 0 /\ open' = open \ {doc}
      /\ UNCHANGED <<panel, unreported, scale, fitMode, change, controls>>
  BY DEF Load
<1>2. /\ generation' \in Loads /\ generation' # 0 /\ generation' \in 0..MaxLoads
      /\ epoch' \in 0..MaxEpochs /\ epoch \in Nat
  BY <1>1, Bounds DEF IInv, Typed, Loads
<1>3. Stage' \in {"fetching", "tearing"} /\ load' \in [Loads -> LoadSteps]
  BY <1>1, <1>2 DEF IInv, Typed, Stage, LoadSteps
<1>4. Typed'
  <2>1. paints' \subseteq PaintSet
    BY <1>1 DEF IInv, Typed, Uncancelled
  <2>2. open' \subseteq Loads /\ doc' \in 0..MaxLoads
    BY <1>1, Bounds DEF IInv, Typed
  <2>3. overlay' \subseteq DOMAIN pages'
    BY <1>1
  <2>4. /\ observing' \in BOOLEAN /\ unreported' \in BOOLEAN /\ panel' \in Panels
        /\ scale' \in Scales /\ fitMode' \in {"width", "height", None}
        /\ change' \in Records \cup {None} /\ controls' \in ControlSet
    BY <1>1 DEF IInv, Typed
  <2> QED
    BY <1>1, <1>2, <1>3, <2>1, <2>2, <2>3, <2>4 DEF Typed
<1>5. Surface'
  BY <1>1, <1>3 DEF IInv, Surface
<1>6. paints' \subseteq PaintSet /\ \A p \in paints' : p.epoch < epoch' /\ p.step = "text"
  <2>1. \A p \in paints : p \in PaintSet /\ p.epoch <= epoch /\ p.epoch \in Nat
    BY DEF IInv, Typed, Owned, PaintSet
  <2> QED
    BY <1>1, <1>2, <2>1 DEF Uncancelled
<1> QED
  BY <1>3, <1>4, <1>5, <1>6, UnshownKeeps

\* A load that is not the latest comes to its end, or the latest one's document has
\* been torn down: nothing of the view changes but what the controls say of it.
LEMMA OtherLoadKeeps ==
    ASSUME IInv, NEW l \in Loads, NEW step \in LoadSteps,
           load' = [load EXCEPT ![l] = step],
           \/ l # generation
           \/ {load[l], step} \subseteq {"none", "tearing", "fetching", "superseded", "failed"},
           controls' \in {controls, Controls(doc, scale, fitMode)},
           UNCHANGED <<generation, doc, open, observing, panel, unreported, scaleVars, pageVars>>
    PROVE  IInv'
<1>1. \/ Stage' = Stage
      \/ {Stage, Stage'} \subseteq {"none", "tearing", "fetching", "superseded", "failed"}
  BY DEF IInv, Typed, Stage
<1>2. Stage' = "shown" <=> Stage = "shown"
  BY <1>1
<1>3. load' \in [Loads -> LoadSteps] /\ controls' \in ControlSet
  <2>1. doc \in Nat /\ scale \in Scales /\ fitMode \in {"width", "height", None}
    BY Bounds DEF IInv, Typed
  <2> QED
    BY <2>1, ControlsTyped DEF IInv, Typed
<1>4. Typed'
  BY <1>3 DEF IInv, Typed, scaleVars, pageVars
<1>5. Surface'
  BY <1>1 DEF IInv, Surface, pageVars
<1>6. (\A p \in paints : Owned(p))' /\ Alone'
  BY <1>2 DEF IInv, Owned, Alone, Live, scaleVars, pageVars
<1>7. Progress'
  BY DEF IInv, Progress, Sharp, Painting, Live, scaleVars, pageVars
<1>8. Marked'
  BY <1>2 DEF IInv, Marked, Live, Matters, scaleVars, pageVars
<1>9. Told'
  BY <1>2 DEF IInv, Told, scaleVars
<1> QED
  BY <1>4, <1>5, <1>6, <1>7, <1>8, <1>9 DEF IInv

\* The old document is torn down.
LEMMA TornDownKeeps ==
    ASSUME IInv, NEW l \in Loads, TornDown(l)
    PROVE  IInv'
BY OtherLoadKeeps DEF TornDown, LoadSteps

\* The document arrives, and is shown or destroyed.
LEMMA FetchedKeeps ==
    ASSUME IInv, NEW l \in Loads, Fetched(l)
    PROVE  IInv'
<1>1. CASE l # generation
  BY <1>1, OtherLoadKeeps DEF Fetched, LoadSteps, scaleVars
<1>2. CASE l = generation
  <2>1. /\ load[l] = "fetching" /\ doc' = l /\ open' = open \cup {l} /\ fitMode' = "width"
        /\ load' = [load EXCEPT ![l] = "fitting"]
        /\ UNCHANGED <<generation, observing, panel, unreported, epoch, scale, pageVars, controls>>
    BY <1>2 DEF Fetched
  <2>2. /\ generation # 0 /\ Stage = "fetching" /\ Stage' = "fitting" /\ l \in 0..MaxLoads
        /\ load' \in [Loads -> LoadSteps]
    BY <1>2, <2>1, Bounds DEF Stage, IInv, Typed, LoadSteps
  <2>3. Typed'
    BY <2>1, <2>2 DEF IInv, Typed, pageVars
  <2>4. Surface'
    BY <1>2, <2>1, <2>2 DEF IInv, Surface, pageVars
  <2>5. paints' \subseteq PaintSet /\ \A p \in paints' : p.epoch < epoch' /\ p.step = "text"
    BY <2>1, <2>2, OldPaints DEF IInv, Typed, pageVars
  <2> QED
    BY <2>2, <2>3, <2>4, <2>5, UnshownKeeps
<1> QED
  BY <1>1, <1>2

\* The load throws: the fetch failed, or it was overtaken.
LEMMA LoadFailsKeeps ==
    ASSUME IInv, NEW l \in Loads, LoadFails(l)
    PROVE  IInv'
<1>1. l # generation \/ load[l] = "fetching"
  BY Bounds DEF LoadFails, IInv, Surface, Stage
<1> QED
  BY <1>1, OtherLoadKeeps DEF LoadFails, LoadSteps

\* The first page is there, and the placeholders follow.
LEMMA FittedKeeps ==
    ASSUME IInv, NEW l \in Loads, Fitted(l)
    PROVE  IInv'
<1>1. /\ load[l] = "fitting" /\ l \in open
      /\ scale' = IF panel.width = 0 THEN UnitScale ELSE panel.width
      /\ pages' = pages \o [n \in PageNumbers |-> Placeholder]
      /\ load' = [load EXCEPT ![l] = "measuring"]
      /\ UNCHANGED <<generation, doc, open, observing, panel, unreported, epoch,
                     fitMode, paints, change, overlay, controls>>
  BY DEF Fitted
<1>2. /\ l = doc /\ l = generation /\ generation # 0 /\ Stage = "fitting" /\ pages = <<>>
      /\ Stage' = "measuring" /\ load' \in [Loads -> LoadSteps]
  BY <1>1, Bounds DEF IInv, Surface, Stage, Typed, LoadSteps
<1>3. Placeholder \in PageSet
      /\ ~Placeholder.measured /\ ~Placeholder.rendered /\ ~Placeholder.visible
  BY DEF Placeholder, PageSet
<1>4. pages' = [n \in PageNumbers |-> Placeholder]
  <2> DEFINE blank == [n \in PageNumbers |-> Placeholder]
  <2>1. blank \in Seq(PageSet)
    BY <1>3, Bounds DEF PageNumbers
  <2> HIDE DEF blank
  <2>2. <<>> \o blank = blank
    BY <2>1
  <2> QED
    BY <1>1, <1>2, <2>2 DEF blank
<1>5. /\ pages' \in [PageNumbers -> PageSet] /\ DOMAIN pages' = PageNumbers
      /\ \A n \in PageNumbers :
            ~pages'[n].measured /\ ~pages'[n].rendered /\ ~pages'[n].visible
  BY <1>3, <1>4
<1>6. scale' \in Scales
  <2>1. panel.width \in 0..MaxScale
    BY ViewAssumption DEF IInv, Typed
  <2> QED
    BY <1>1, <2>1, Bounds DEF Scales
<1>7. Typed'
  BY <1>1, <1>2, <1>5, <1>6 DEF IInv, Typed
<1>8. Surface'
  BY <1>1, <1>2, <1>5, Bounds DEF IInv, Surface
<1>9. paints' \subseteq PaintSet /\ \A p \in paints' : p.epoch < epoch' /\ p.step = "text"
  BY <1>1, <1>2, OldPaints DEF IInv, Typed
<1> QED
  BY <1>2, <1>7, <1>8, <1>9, UnshownKeeps

\* A page is measured; after the last the document is shown, marked and told of.
LEMMA MeasuredKeeps ==
    ASSUME IInv, NEW l \in Loads, NEW n \in PageNumbers, Measured(l, n)
    PROVE  IInv'
<1>1. /\ load[l] = "measuring" /\ l \in open /\ ~pages[n].measured
      /\ pages' = [pages EXCEPT ![n].measured = TRUE]
      /\ UNCHANGED <<generation, doc, open, panel, scaleVars, paints>>
  BY DEF Measured
<1>2. /\ l = doc /\ l = generation /\ generation # 0 /\ Stage = "measuring"
      /\ pages \in [PageNumbers -> PageSet] /\ DOMAIN pages = PageNumbers
      /\ \A m \in PageNumbers : ~pages[m].rendered /\ ~pages[m].visible
  BY <1>1, Bounds DEF IInv, Surface, Stage
<1>3. /\ pages' \in [PageNumbers -> PageSet] /\ DOMAIN pages' = PageNumbers
      /\ pages'[n].measured
      /\ \A m \in PageNumbers \ {n} : pages'[m].measured = pages[m].measured
      /\ \A m \in PageNumbers : /\ ~pages'[m].rendered /\ ~pages'[m].visible
                                /\ pages'[m].items = pages[m].items
  <2> DEFINE page == [pages[n] EXCEPT !.measured = TRUE]
  <2>1. pages[n] \in PageSet
    BY <1>2
  <2>2. /\ page \in PageSet /\ page.measured /\ page.rendered = pages[n].rendered
        /\ page.visible = pages[n].visible /\ page.items = pages[n].items
    BY <2>1 DEF PageSet
  <2>3. pages' = [pages EXCEPT ![n] = page]
    BY <1>1
  <2> HIDE DEF page
  <2> QED
    BY <1>2, <2>2, <2>3
<1>4. paints' \subseteq PaintSet /\ \A p \in paints' : p.epoch < epoch' /\ p.step = "text"
  BY <1>1, <1>2, OldPaints DEF IInv, Typed, scaleVars
<1>5. CASE \E m \in PageNumbers \ {n} : ~pages[m].measured
  <2>1. UNCHANGED <<load, observing, unreported, change, overlay, controls>>
    BY <1>5 DEF Measured
  <2>2. Stage' = "measuring"
    BY <1>1, <1>2, <2>1 DEF Stage
  <2>3. Typed'
    BY <1>1, <1>2, <1>3, <2>1 DEF IInv, Typed, scaleVars
  <2>4. Surface'
    BY <1>1, <1>2, <1>3, <1>5, <2>1, <2>2 DEF IInv, Surface
  <2> QED
    BY <1>4, <2>2, <2>3, <2>4, UnshownKeeps
<1>6. CASE ~\E m \in PageNumbers \ {n} : ~pages[m].measured
  <2>1. /\ load' = [load EXCEPT ![l] = "shown"] /\ observing' = TRUE /\ unreported' = TRUE
        /\ change' \in Records \cup {None} /\ overlay' = Plan(change', pages)
        /\ controls' = Controls(doc, scale, fitMode)
    BY <1>6, AppliesPlan DEF Measured
  <2>2. Stage' = "shown" /\ load' \in [Loads -> LoadSteps]
    BY <1>1, <1>2, <2>1 DEF Stage, IInv, Typed, LoadSteps
  <2>3. overlay' \subseteq PageNumbers
    BY <1>2, <2>1, PlanMarksPages
  <2>4. controls' \in ControlSet
    <3>1. doc \in Nat /\ scale \in Scales /\ fitMode \in {"width", "height", None}
      BY Bounds DEF IInv, Typed
    <3> QED
      BY <2>1, <3>1, ControlsTyped
  <2>5. Typed'
    BY <1>1, <1>3, <2>1, <2>2, <2>3, <2>4 DEF IInv, Typed, scaleVars
  <2>6. Surface'
    BY <1>1, <1>2, <1>3, <1>6, <2>1, <2>2 DEF IInv, Surface
  <2>7. (\A p \in paints : Owned(p))' /\ Alone'
    <3>1. \A p \in paints' : p.epoch \in Nat
      BY <1>4 DEF PaintSet
    <3> QED
      BY <1>4, <3>1, <2>5 DEF Owned, Alone, Live, Typed
  <2>8. Progress'
    BY <1>3 DEF Progress
  <2>9. Marked'
    <3>1. Plan(change', pages') = Plan(change', pages)
      BY <1>2, <1>3, PlanGoesByText
    <3> QED
      BY <2>1, <3>1 DEF Marked
  <2>10. Told'
    BY <1>1, <2>1 DEF Told, scaleVars
  <2> QED
    BY <2>5, <2>6, <2>7, <2>8, <2>9, <2>10 DEF IInv
<1> QED
  BY <1>5, <1>6

\* A record is set, or dismissed, on the pages there are.
LEMMA SetChangeKeeps ==
    ASSUME IInv, SetChange
    PROVE  IInv'
<1>1. /\ change' \in Records \cup {None} /\ overlay' = Plan(change', pages)
      /\ UNCHANGED <<generation, load, doc, open, observing, panel, unreported,
                     scaleVars, pages, paints, controls>>
      /\ Stage' = Stage
  BY AppliesPlan DEF SetChange, Stage
<1>2. overlay' \subseteq DOMAIN pages'
  BY <1>1, PlanMarksPages
<1>3. Typed' /\ Surface'
  BY <1>1, <1>2 DEF IInv, Typed, Surface, scaleVars
<1>4. (\A p \in paints : Owned(p))' /\ Alone'
  BY <1>1 DEF IInv, Owned, Alone, Live, scaleVars
<1>5. Progress'
  BY <1>1 DEF IInv, Progress, Sharp, Painting, Live, scaleVars
<1>6. Marked' /\ Told'
  BY <1>1 DEF IInv, Marked, Told, scaleVars
<1> QED
  BY <1>3, <1>4, <1>5, <1>6 DEF IInv
-----------------------------------------------------------------------------
(* The theorems.                                                           *)

\* A view without a document is in the invariant.
LEMMA InitIsSound ==
    ASSUME Init
    PROVE  IInv
<1>1. generation = 0 /\ doc = 0 /\ epoch = 0 /\ 0 \in 0..MaxLoads /\ 0 \in 0..MaxEpochs
  BY Bounds DEF Init
<1>2. Stage = "none"
  BY <1>1 DEF Stage
<1>3. controls \in ControlSet
  BY Bounds, ControlsTyped DEF Init
<1>4. Typed
  BY <1>1, <1>3, Bounds DEF Init, Typed, LoadSteps
<1>5. Surface
  BY <1>1, <1>2 DEF Init, Surface
<1>6. (\A p \in paints : Owned(p)) /\ Alone
  BY DEF Init, Alone
<1>7. Progress
  BY DEF Init, Progress
<1>8. Marked /\ Told
  BY <1>2 DEF Marked, Told
<1> QED
  BY <1>4, <1>5, <1>6, <1>7, <1>8 DEF IInv

\* What leaves everything as it is.
LEMMA StutterKeeps ==
    ASSUME IInv, UNCHANGED vars
    PROVE  IInv'
<1>1. UNCHANGED <<generation, load, doc, open, observing, panel, unreported, change, epoch,
                  scale, fitMode, pages, paints, overlay, controls>>
  BY DEF vars, scaleVars, pageVars
<1>2. Told' /\ controls' \in ControlSet /\ panel' \in Panels /\ unreported' \in BOOLEAN
      /\ fitMode' \in {"width", "height", None}
  BY <1>1 DEF IInv, Typed, Told, Stage
<1> QED
  BY <1>1, <1>2, SameScaleKeeps

\* Every step keeps the invariant.
LEMMA NextKeeps ==
    ASSUME IInv, [Next]_vars
    PROVE  IInv'
<1>1. CASE Load
  BY <1>1, LoadKeeps
<1>2. CASE SetChange
  BY <1>2, SetChangeKeeps
<1>3. CASE ZoomIn \/ ZoomOut \/ Fit("width") \/ Fit("height") \/ Refit
  BY <1>3, ScalingKeeps
<1>4. CASE Resize
  BY <1>4, ResizeKeeps
<1>5. ASSUME NEW n \in DOMAIN pages, Intersect(n)
      PROVE  IInv'
  BY <1>5, IntersectKeeps
<1>6. ASSUME NEW l \in Loads, Loading(l)
      PROVE  IInv'
  BY <1>6, TornDownKeeps, FetchedKeeps, LoadFailsKeeps, FittedKeeps, MeasuredKeeps DEF Loading
<1>7. ASSUME NEW p \in paints, Advance(p)
      PROVE  IInv'
  BY <1>7, AdvanceKeeps
<1>8. CASE UNCHANGED vars
  BY <1>8, StutterKeeps
<1> QED
  BY <1>1, <1>2, <1>3, <1>4, <1>5, <1>6, <1>7, <1>8 DEF Next, Reader

\* It holds in every state of a behaviour.
LEMMA Invariance == Spec => []IInv
BY InitIsSound, NextKeeps, PTL DEF Spec

\* Every variable keeps its type, and markers are on pages that exist.
THEOREM TypeCorrect == Spec => []TypeOK
<1>1. IInv => TypeOK
  BY TypedIsTypeOK DEF IInv
<1> QED
  BY <1>1, Invariance, PTL

\* pdf.js holds the document that is shown and no other, whichever awaits the loads
\* that were overtaken came back from.
THEOREM DocumentsDoNotLeak == Spec => []NoDocumentLeaks
<1>1. IInv => NoDocumentLeaks
  BY DEF IInv, Surface, NoDocumentLeaks
<1> QED
  BY <1>1, Invariance, PTL

\* A canvas is rendered to by one paint at a time: what is not extracting text is of
\* this epoch, and a paint of this epoch is alone on its page.
THEOREM CanvasesAreNotShared == Spec => []OnePaintPerCanvas
<1>1. IInv => OnePaintPerCanvas
  BY DEF IInv, Owned, Alone, OnePaintPerCanvas
<1> QED
  BY <1>1, Invariance, PTL

\* Once nothing paints, every page in view is painted, and what is painted has the
\* bitmap and the text layer of the scale there is.
THEOREM PagesEndSharp == Spec => []PagesAreSharp
<1>1. IInv => PagesAreSharp
  BY DEF IInv, Progress, Sharp, PagesAreSharp
<1> QED
  BY <1>1, Invariance, PTL

\* Once nothing paints, the markers are those the plan makes of the record and of the
\* text extracted so far.
THEOREM OverlaysFollowThePlan == Spec => []OverlayIsThePlan
<1>1. IInv => OverlayIsThePlan
  BY DEF IInv, Marked, Plan, Stage, Loaded, OverlayIsThePlan
<1> QED
  BY <1>1, Invariance, PTL

\* The zoom cluster says what the view does whenever a document is shown.
THEOREM ControlsTellTheTruth == Spec => []ControlsAreTrue
<1>1. IInv => ControlsAreTrue
  BY DEF IInv, Told, Stage, Loaded, ControlsAreTrue
<1> QED
  BY <1>1, Invariance, PTL
-----------------------------------------------------------------------------
(***************************************************************************)
(* Proofs about ViewerApp, the page around that view, for every number of  *)
(* renders, failures, loads, outlines, outages and messages.               *)
(*                                                                         *)
(* What is on its way is of one piece with what the page has: the last     *)
(* event that carries a state carries the server's, or the page has it; no *)
(* event lacks a document when one before it, or the page, had one.        *)
(***************************************************************************)
-----------------------------------------------------------------------------
EventSet == [type : Events, state : States]
LoadSet == [url : Renders, step : {"loading", "ended"}]
TimerSet == [what : {"grace", "deadline"}, epoch : Epochs, outage : 0..MaxOutages]

\* What the status line may say, which is apart from the rest.
Lines == {"", "error", "opening", "rendering", "loadError", "toast", "reconnecting", "lost"}

LineTyped == line \in Lines

\* An event whose state the page applies.
Carries(e) == e.type # "rendering"

\* Once everything on its way is handled the page has the server's state; nothing is on
\* its way while the connection is down.
StreamInv ==
    /\ source # "open" => Len(channel) = 0
    /\ source = "open" =>
        \/ state = server /\ \A i \in 1..Len(channel) : ~Carries(channel[i])
        \/ \E i \in 1..Len(channel) :
              /\ Carries(channel[i]) /\ channel[i].state = server
              /\ \A j \in (i + 1)..Len(channel) : ~Carries(channel[j])

\* Nothing that comes later is without a document when something before had one.
DocsInv ==
    /\ loadedUrl # 0 \/ loadedFor # 0 => state.doc # 0
    /\ state.doc # 0 =>
           /\ server.doc # 0
           /\ \A i \in 1..Len(channel) : channel[i].state.doc # 0
    /\ \A i \in 1..Len(channel) : channel[i].state.doc # 0 =>
           /\ server.doc # 0
           /\ \A j \in i..Len(channel) : channel[j].state.doc # 0

\* The last load is of the render that was asked for, which is the state's.
LoadInv ==
    loadedUrl # 0 =>
        /\ Len(loads) # 0 /\ loads[Len(loads)].url = loadedUrl
        /\ loads[Len(loads)].step = "ended" => view = loadedUrl
        /\ state.status # "error" => loadedUrl = state.doc

\* A timer whose epoch is the present one is of the outage that lasts.
TimerInv ==
    /\ down /\ ~finished => source = "connecting"
    /\ \A t \in timers : /\ t.epoch <= outageEpoch
                         /\ t.epoch = outageEpoch /\ down => t.outage = outage

\* The types of everything but the line.
PageTyped ==
    /\ server \in States /\ failures \in 0..MaxFailures
    /\ channel \in Seq(EventSet)
    /\ source \in {"none", "connecting", "open", "closed"}
    /\ outage \in 0..MaxOutages
    /\ state \in States \cup {Unknown}
    /\ loadedUrl \in Renders /\ view \in Renders
    /\ loads \in Seq(LoadSet)
    /\ sidebar \in BOOLEAN /\ loadedFor \in Renders
    /\ outline \in {"nothing", "loading", "headings", "error"}
    /\ fetches \in Seq({"asked", "ended"})
    /\ toasts \in 0..MaxToasts
    /\ {down, finished, owned} \subseteq BOOLEAN /\ outageEpoch \in Epochs
    /\ timers \subseteq TimerSet
    /\ owned => down \/ finished

\* The inductive invariant of the page.
AInv ==
    /\ PageTyped
    /\ StreamInv /\ DocsInv /\ LoadInv /\ OpenOutlineFollows
    /\ TimerInv /\ OutageHasADeadline
-----------------------------------------------------------------------------
\* The types are those and the line's.
LEMMA TypedPage == AppTypeOK <=> PageTyped /\ LineTyped
  BY Zenon DEF AppTypeOK, PageTyped, LineTyped, Lines, EventSet, LoadSet, TimerSet

\* What is pushed arrives at the end of the stream, or nowhere.
LEMMA Broadcasts ==
    ASSUME channel \in Seq(EventSet), NEW types \in Seq(Events), NEW s \in States,
           Broadcast(types, s)
    PROVE  /\ channel' \in Seq(EventSet)
           /\ source # "open" => channel' = channel
           /\ source = "open" =>
                /\ Len(channel') = Len(channel) + Len(types)
                /\ \A i \in 1..Len(channel') :
                      channel'[i] = IF i <= Len(channel) THEN channel[i]
                                    ELSE [type |-> types[i - Len(channel)], state |-> s]
<1> DEFINE new == [i \in DOMAIN types |-> [type |-> types[i], state |-> s]]
<1>1. /\ Len(types) \in Nat /\ DOMAIN types = 1..Len(types)
      /\ \A i \in 1..Len(types) : types[i] \in Events
  BY LenProperties, ElementOfSeq
<1>2. new \in [1..Len(types) -> EventSet]
  BY <1>1 DEF EventSet
<1>3. new \in Seq(EventSet) /\ Len(new) = Len(types)
  BY <1>1, <1>2
<1>4. \A i \in 1..Len(types) : new[i] = [type |-> types[i], state |-> s]
  BY <1>1
<1>5. channel' = IF source = "open" THEN channel \o new ELSE channel
  BY DEF Broadcast
<1> HIDE DEF new
<1>6. Len(channel) \in Nat
  BY LenProperties
<1>7. /\ channel \o new \in Seq(EventSet)
      /\ Len(channel \o new) = Len(channel) + Len(new)
      /\ \A i \in 1..(Len(channel) + Len(new)) :
            (channel \o new)[i] = IF i <= Len(channel) THEN channel[i]
                                  ELSE new[i - Len(channel)]
  BY <1>3, ConcatProperties
<1>8. CASE source # "open"
  BY <1>5, <1>8
<1>9. CASE source = "open"
  <2>1. channel' = channel \o new
    BY <1>5, <1>9
  <2>2. ASSUME NEW i \in 1..(Len(channel) + Len(types))
        PROVE  (channel \o new)[i] = IF i <= Len(channel) THEN channel[i]
                                     ELSE [type |-> types[i - Len(channel)], state |-> s]
    <3>1. CASE i <= Len(channel)
      BY <1>1, <1>3, <1>6, <1>7, <3>1
    <3>2. CASE ~(i <= Len(channel))
      <4>1. i - Len(channel) \in 1..Len(types)
        BY <1>1, <1>6, <3>2
      <4> QED BY <1>1, <1>3, <1>4, <1>6, <1>7, <3>2, <4>1
    <3> QED BY <3>1, <3>2
  <2> QED BY <1>3, <1>7, <1>9, <2>1, <2>2
<1> QED BY <1>8, <1>9
\* A push leaves the page alone, and what it carries comes last.
LEMMA PushKeeps ==
    ASSUME AInv, NEW s \in States, NEW types \in Seq(Events),
           Pushes(types, s), failures' \in 0..MaxFailures,
           server.doc # 0 => s.doc # 0,
           \/ Len(types) # 0 /\ types[Len(types)] # "rendering"
           \/ s = server /\ \A i \in 1..Len(types) : types[i] = "rendering"
    PROVE  AInv'
<1>1. /\ server' = s /\ Broadcast(types, s)
      /\ UNCHANGED <<state, loadedUrl, loads, view, sidebar, loadedFor, outline, fetches,
                     toasts, source, outage, down, outageEpoch, finished, owned, timers>>
  BY DEF Pushes, viewVars, outlineVars, monitorVars
<1>2. channel \in Seq(EventSet) /\ PageTyped
  BY DEF AInv, PageTyped, EventSet
<1>3. /\ channel' \in Seq(EventSet)
      /\ source # "open" => channel' = channel
      /\ source = "open" =>
           /\ Len(channel') = Len(channel) + Len(types)
           /\ \A i \in 1..Len(channel') :
                 channel'[i] = IF i <= Len(channel) THEN channel[i]
                               ELSE [type |-> types[i - Len(channel)], state |-> s]
  BY <1>1, <1>2, Broadcasts
<1>4. Len(channel) \in Nat /\ Len(types) \in Nat
  BY <1>2, LenProperties
<1>5. PageTyped'
  BY <1>1, <1>2, <1>3 DEF PageTyped
<1>at. ASSUME source = "open", NEW i \in 1..Len(channel')
      PROVE  IF i <= Len(channel) THEN channel'[i] = channel[i]
             ELSE channel'[i].type = types[i - Len(channel)] /\ channel'[i].state = s
  <2>1. CASE i <= Len(channel)
    BY <1>3, <1>at, <2>1
  <2>2. CASE ~(i <= Len(channel))
    <3>1. channel'[i] = [type |-> types[i - Len(channel)], state |-> s]
      BY <1>3, <1>at, <2>2
    <3> QED BY <2>2, <3>1
  <2> QED BY <2>1, <2>2
<1>within. source = "open" => 1..Len(channel) \subseteq 1..Len(channel')
  BY <1>3, <1>4
<1>6. StreamInv'
  <2>1. CASE source # "open"
    BY <1>1, <1>3, <2>1 DEF AInv, StreamInv
  <2>2. CASE source = "open" /\ Len(types) # 0 /\ types[Len(types)] # "rendering"
    <3> DEFINE i == Len(channel) + Len(types)
    <3>1. i \in 1..Len(channel') /\ channel'[i] = [type |-> types[Len(types)], state |-> s]
      <4>1. i \in 1..Len(channel') /\ ~(i <= Len(channel)) /\ i - Len(channel) = Len(types)
        BY <1>3, <1>4, <2>2
      <4> QED BY <1>3, <2>2, <4>1
    <3>2. Carries(channel'[i]) /\ channel'[i].state = server'
      BY <1>1, <2>2, <3>1 DEF Carries
    <3>3. (i + 1)..Len(channel') = {}
      BY <1>3, <1>4, <2>2
    <3> QED BY <1>1, <2>2, <3>1, <3>2, <3>3 DEF StreamInv
  <2>3. CASE source = "open" /\ s = server /\ \A i \in 1..Len(types) : types[i] = "rendering"
    <3>1. ASSUME NEW i \in 1..Len(channel'), i > Len(channel)
          PROVE  ~Carries(channel'[i])
      <4>1. i - Len(channel) \in 1..Len(types) /\ ~(i <= Len(channel))
        BY <1>3, <1>4, <2>3, <3>1
      <4>2. channel'[i].type = types[i - Len(channel)]
        BY <1>at, <2>3, <4>1
      <4> QED BY <2>3, <4>1, <4>2 DEF Carries
    <3>2. \A i \in 1..Len(channel) : i \in 1..Len(channel') /\ channel'[i] = channel[i]
      <4>1. SUFFICES ASSUME NEW i \in 1..Len(channel)
                     PROVE  i \in 1..Len(channel') /\ channel'[i] = channel[i]
        OBVIOUS
      <4>2. i \in 1..Len(channel') /\ i <= Len(channel)
        BY <1>4, <1>within, <2>3
      <4> QED BY <1>at, <2>3, <4>2
    <3>3. CASE state = server /\ \A i \in 1..Len(channel) : ~Carries(channel[i])
      <4>1. \A i \in 1..Len(channel') : ~Carries(channel'[i])
        BY <1>4, <3>1, <3>2, <3>3
      <4> QED BY <1>1, <2>3, <3>3, <4>1 DEF StreamInv
    <3>4. CASE \E i \in 1..Len(channel) :
                  /\ Carries(channel[i]) /\ channel[i].state = server
                  /\ \A j \in (i + 1)..Len(channel) : ~Carries(channel[j])
      <4>1. PICK i \in 1..Len(channel) :
                  /\ Carries(channel[i]) /\ channel[i].state = server
                  /\ \A j \in (i + 1)..Len(channel) : ~Carries(channel[j])
        BY <3>4
      <4>2. ASSUME NEW j \in (i + 1)..Len(channel') PROVE ~Carries(channel'[j])
        <5>1. CASE j <= Len(channel)
          BY <1>4, <3>2, <4>1, <5>1
        <5>2. CASE j > Len(channel)
          BY <1>4, <3>1, <4>1, <5>2
        <5> QED BY <1>4, <5>1, <5>2
      <4>3. i \in 1..Len(channel') /\ Carries(channel'[i]) /\ channel'[i].state = server'
        BY <1>1, <2>3, <3>2, <4>1
      <4> QED BY <1>1, <2>3, <4>2, <4>3 DEF StreamInv
    <3> QED BY <2>3, <3>3, <3>4 DEF AInv, StreamInv
  <2> QED BY <2>1, <2>2, <2>3
<1>7. DocsInv'
  <2>1. CASE source # "open"
    BY <1>1, <1>3, <2>1 DEF AInv, DocsInv
  <2>2. CASE source = "open"
    <3>1. \A i \in 1..Len(channel') :
             IF i <= Len(channel) THEN channel'[i] = channel[i]
             ELSE channel'[i].state = s
      BY <1>at, <2>2
    <3>2. state.doc # 0 \/ loadedUrl # 0 \/ loadedFor # 0 =>
             s.doc # 0 /\ \A i \in 1..Len(channel') : channel'[i].state.doc # 0
      BY <1>4, <3>1 DEF AInv, DocsInv
    <3>3. ASSUME NEW i \in 1..Len(channel'), channel'[i].state.doc # 0
          PROVE  s.doc # 0 /\ \A j \in i..Len(channel') : channel'[j].state.doc # 0
      BY <1>3, <1>4, <2>2, <3>1, <3>3 DEF AInv, DocsInv
    <3> QED BY <1>1, <3>2, <3>3 DEF AInv, DocsInv
  <2> QED BY <2>1, <2>2
<1>8. LoadInv' /\ OpenOutlineFollows' /\ TimerInv' /\ OutageHasADeadline'
  BY <1>1 DEF AInv, LoadInv, OpenOutlineFollows, TimerInv, OutageHasADeadline,
              Current
<1> QED BY <1>5, <1>6, <1>7, <1>8 DEF AInv

\* The server's moves are pushes.
LEMMA ServerMovesKeep ==
    ASSUME AInv, ServerMoves
    PROVE  AInv'
<1>1. PageTyped /\ {MaxRenders, MaxFailures} \subseteq Nat
  BY AppAssumption DEF AInv
<1>2. server \in [doc : 0..MaxRenders, status : {"idle", "opening", "ready", "error"}]
      /\ failures \in 0..MaxFailures
  BY <1>1 DEF PageTyped, States, Renders
<1> DEFINE once == <<"state">>
           twice == <<"state", "reloaded">>
           note == <<"rendering">>
<1>3. /\ once \in Seq(Events) /\ Len(once) = 1 /\ once[1] = "state"
      /\ twice \in Seq(Events) /\ Len(twice) = 2 /\ twice[2] = "reloaded"
      /\ note \in Seq(Events) /\ Len(note) = 1 /\ note[1] = "rendering"
  BY DEF Events
<1> DEFINE next == [doc |-> server.doc + 1, status |-> "ready"]
           opening == [server EXCEPT !.status = "opening"]
           failed == [server EXCEPT !.status = "error"]
<1>4. opening \in States /\ failed \in States /\ server \in States
  BY <1>2 DEF States, Renders
<1>5. opening.doc = server.doc /\ failed.doc = server.doc
  BY <1>2
<1>6. server.doc < MaxRenders => next \in States /\ next.doc # 0
  BY <1>1, <1>2 DEF States, Renders
<1>7. CASE Opening
  <2>1. Pushes(once, opening) /\ failures' = failures
    BY <1>7 DEF Opening
  <2> HIDE DEF once, twice, note, next, opening, failed
  <2> QED BY <1>2, <1>3, <1>4, <1>5, <2>1, PushKeeps
<1>8. CASE Opened
  <2>1. Pushes(once, next) /\ failures' = failures /\ server.doc < MaxRenders
    BY <1>8 DEF Opened
  <2> HIDE DEF once, twice, note, next, opening, failed
  <2> QED BY <1>2, <1>3, <1>6, <2>1, PushKeeps
<1>9. CASE Announces
  <2>1. Pushes(note, server) /\ failures' = failures
    BY <1>9 DEF Announces
  <2> HIDE DEF once, twice, note, next, opening, failed
  <2> QED BY <1>2, <1>3, <1>4, <2>1, PushKeeps
<1>10. CASE Refreshed
  <2>1. Pushes(twice, next) /\ failures' = failures /\ server.doc < MaxRenders
    BY <1>10 DEF Refreshed
  <2> HIDE DEF once, twice, note, next, opening, failed
  <2>2. Len(twice) # 0 /\ twice[Len(twice)] # "rendering"
    BY <1>3
  <2> QED BY <1>2, <1>3, <1>6, <2>1, <2>2, PushKeeps
<1>11. CASE Fails
  <2>1. Pushes(once, failed) /\ failures' \in 0..MaxFailures
    BY <1>1, <1>2, <1>11 DEF Fails
  <2> HIDE DEF once, twice, note, next, opening, failed
  <2> QED BY <1>2, <1>3, <1>4, <1>5, <2>1, PushKeeps
<1> QED BY <1>7, <1>8, <1>9, <1>10, <1>11 DEF ServerMoves
-----------------------------------------------------------------------------
\* The last of an appended sequence.
LEMMA LastAppended ==
    ASSUME NEW S, NEW q \in Seq(S), NEW e \in S
    PROVE  /\ Append(q, e) \in Seq(S)
           /\ Len(Append(q, e)) # 0 /\ Len(q) + 1 \in DOMAIN Append(q, e)
           /\ Append(q, e)[Len(Append(q, e))] = e /\ Append(q, e)[Len(q) + 1] = e
  BY AppendProperties, LenProperties

\* Whatever is rendered, the last load is of the render that was asked for.
LEMMA RenderKeeps ==
    ASSUME PageTyped, LoadInv, NEW s \in States \cup {Unknown},
           loadedUrl # 0 => s.doc # 0, Render(s), state' = s
    PROVE  /\ loadedUrl' \in Renders /\ view' \in Renders
           /\ loads' \in Seq(LoadSet)
           /\ LoadInv'
           /\ loadedUrl' # 0 => s.doc # 0
<1>1. /\ loadedUrl \in Renders /\ view \in Renders /\ loads \in Seq(LoadSet)
  BY DEF PageTyped
<1>zero. 0 \in Renders
  BY AppAssumption DEF Renders
<1>2. s.doc \in Renders
  BY <1>zero DEF States, Unknown
<1>3. CASE /\ UNCHANGED <<loadedUrl, loads, view>>
           /\ s.status = "error" \/ s.doc = 0 \/ s.doc = loadedUrl
  BY <1>1, <1>3 DEF LoadInv
<1>4. CASE /\ s.doc # 0 /\ s.status # "error"
           /\ loadedUrl' = s.doc /\ view' = 0
           /\ loads' = Append(loads, [url |-> s.doc, step |-> "loading"])
  <2> DEFINE begun == [url |-> s.doc, step |-> "loading"]
  <2>1. begun \in LoadSet /\ begun.url = s.doc /\ begun.step # "ended"
    BY <1>2 DEF LoadSet
  <2>2. loads' = Append(loads, begun)
    BY <1>4
  <2> HIDE DEF begun
  <2>3. loads' \in Seq(LoadSet) /\ Len(loads') # 0 /\ loads'[Len(loads')] = begun
    BY <1>1, <2>1, <2>2, LastAppended
  <2> QED BY <1>1, <1>2, <1>4, <1>zero, <2>1, <2>3 DEF LoadInv
<1> QED BY <1>3, <1>4 DEF Render, ShowPdf, viewVars

\* The outline is asked for, or is that of the render.
LEMMA AskedOrThere ==
    ASSUME PageTyped, NEW s \in States \cup {Unknown},
           NEW known \in Renders,
           known # 0 => s.doc # 0, LoadOutline(s, known), state' = s
    PROVE  /\ loadedFor' = known /\ fetches' \in Seq({"asked", "ended"})
           /\ outline' \in {"nothing", "loading", "headings", "error"}
           /\ OpenOutlineFollows'
<1>1. fetches \in Seq({"asked", "ended"})
      /\ outline \in {"nothing", "loading", "headings", "error"}
  BY DEF PageTyped
<1>2. CASE (s.doc = 0 \/ known = s.doc) /\ loadedFor' = known /\ UNCHANGED <<outline, fetches>>
  BY <1>1, <1>2 DEF OpenOutlineFollows
<1>3. CASE /\ loadedFor' = known /\ outline' = "loading"
           /\ fetches' = Append(fetches, "asked")
  <2>1. /\ fetches' \in Seq({"asked", "ended"})
        /\ Len(fetches) + 1 \in DOMAIN fetches' /\ fetches'[Len(fetches) + 1] = "asked"
    BY <1>1, <1>3, LastAppended
  <2> QED BY <1>3, <2>1 DEF OpenOutlineFollows
<1> QED BY <1>2, <1>3 DEF LoadOutline

\* A state is applied: the page is of that state, and of a document if it was of one.
LEMMA ApplyKeeps ==
    ASSUME PageTyped, LoadInv, OpenOutlineFollows,
           loadedFor # 0 => state.doc # 0,
           NEW s \in States, NEW reloaded \in BOOLEAN, ApplyState(s, reloaded),
           state.doc # 0 \/ loadedUrl # 0 \/ loadedFor # 0 => s.doc # 0
    PROVE  /\ state' = s /\ sidebar' = sidebar
           /\ loadedUrl' \in Renders /\ view' \in Renders
           /\ loads' \in Seq(LoadSet)
           /\ loadedFor' \in Renders /\ fetches' \in Seq({"asked", "ended"})
           /\ outline' \in {"nothing", "loading", "headings", "error"}
           /\ LoadInv' /\ OpenOutlineFollows'
           /\ loadedUrl' # 0 \/ loadedFor' # 0 => s.doc # 0
<1>1. /\ loadedFor \in Renders /\ fetches \in Seq({"asked", "ended"})
      /\ outline \in {"nothing", "loading", "headings", "error"}
  BY DEF PageTyped
<1>zero. 0 \in Renders
  BY AppAssumption DEF Renders
<1>2. state' = s /\ sidebar' = sidebar /\ Render(s)
  BY DEF ApplyState
<1>3. /\ loadedUrl' \in Renders /\ view' \in Renders /\ loads' \in Seq(LoadSet)
      /\ LoadInv' /\ (loadedUrl' # 0 => s.doc # 0)
  BY <1>2, RenderKeeps
<1>4. CASE ((s.doc # 0 /\ s.doc # state.doc) \/ reloaded) /\ sidebar
  <2>1. LoadOutline(s, 0)
    BY <1>4 DEF ApplyState
  <2>2. /\ loadedFor' = 0 /\ fetches' \in Seq({"asked", "ended"})
        /\ outline' \in {"nothing", "loading", "headings", "error"}
        /\ OpenOutlineFollows'
    BY <1>1, <1>2, <1>zero, <2>1, AskedOrThere
  <2> QED BY <1>1, <1>zero, <1>2, <1>3, <2>2
<1>5. CASE ((s.doc # 0 /\ s.doc # state.doc) \/ reloaded) /\ ~sidebar
  <2>1. loadedFor' = 0 /\ UNCHANGED <<outline, fetches>>
    BY <1>5 DEF ApplyState
  <2>2. OpenOutlineFollows'
    BY <1>2, <1>5 DEF OpenOutlineFollows
  <2> QED BY <1>1, <1>2, <1>3, <1>zero, <2>1, <2>2
<1>6. CASE ~((s.doc # 0 /\ s.doc # state.doc) \/ reloaded)
  <2>1. UNCHANGED <<loadedFor, outline, fetches>>
    BY <1>6 DEF ApplyState
  <2>2. s.doc = 0 => loadedFor = 0
    OBVIOUS
  <2>3. s.doc = 0 => state.doc = 0
    OBVIOUS
  <2>4. s.doc = state.doc
    BY <1>6, <2>3
  <2>5. OpenOutlineFollows'
    BY <1>2, <2>1, <2>4 DEF OpenOutlineFollows
  <2> QED BY <1>1, <1>2, <1>3, <2>1, <2>5
<1> QED BY <1>4, <1>5, <1>6
-----------------------------------------------------------------------------
\* Nothing is on its way before the page connects.
LEMMA StartKeeps ==
    ASSUME AInv, Start
    PROVE  AInv'
<1>1. /\ source = "none" /\ source' = "connecting" /\ Len(channel) = 0
      /\ UNCHANGED <<server, failures, channel, toasts, outage, down, outageEpoch, finished,
                     owned, timers>>
  BY DEF Start, serverVars, AInv, StreamInv
<1>3. PageTyped /\ server \in States
  BY DEF AInv, PageTyped
<1>4. TimerInv' /\ OutageHasADeadline' /\ StreamInv'
  BY <1>1 DEF AInv, TimerInv, OutageHasADeadline, Current, StreamInv
<1>5. CASE ApplyState(server, FALSE)
  <2>1. state.doc # 0 \/ loadedUrl # 0 \/ loadedFor # 0 => server.doc # 0
    BY DEF AInv, DocsInv
  <2>2. loadedFor # 0 => state.doc # 0
    BY DEF AInv, DocsInv
  <2>3. LoadInv /\ OpenOutlineFollows
    BY DEF AInv
  <2>4. /\ state' = server /\ sidebar' = sidebar
        /\ loadedUrl' \in Renders /\ view' \in Renders
        /\ loads' \in Seq(LoadSet)
        /\ loadedFor' \in Renders /\ fetches' \in Seq({"asked", "ended"})
        /\ outline' \in {"nothing", "loading", "headings", "error"}
        /\ LoadInv' /\ OpenOutlineFollows'
        /\ loadedUrl' # 0 \/ loadedFor' # 0 => server.doc # 0
    BY <1>3, <1>5, <2>1, <2>2, <2>3, ApplyKeeps
  <2>5. PageTyped'
    BY <1>1, <1>3, <2>4 DEF PageTyped
  <2>6. DocsInv'
    BY <1>1, <2>4 DEF DocsInv
  <2> QED BY <1>4, <2>4, <2>5, <2>6 DEF AInv
<1>6. CASE UNCHANGED <<state, loadedUrl, loads, view, sidebar, loadedFor, outline, fetches>>
  <2>1. PageTyped'
    BY <1>1, <1>3, <1>6 DEF PageTyped
  <2>2. DocsInv' /\ LoadInv' /\ OpenOutlineFollows'
    BY <1>1, <1>6 DEF AInv, DocsInv, LoadInv, OpenOutlineFollows
  <2> QED BY <1>4, <2>1, <2>2 DEF AInv
<1> QED BY <1>5, <1>6 DEF Start, viewVars, outlineVars

\* The first event goes; what it carries, if anything, is the page's now.
LEMMA StreamShortens ==
    ASSUME StreamInv, channel \in Seq(EventSet), channel # <<>>, source = "open",
           channel' = Tail(channel), server' = server, source' = "open",
           state' = IF Carries(Head(channel)) THEN Head(channel).state ELSE state
    PROVE  StreamInv'
<1>1. /\ Len(channel) \in Nat /\ Len(channel) # 0
      /\ Len(channel') = Len(channel) - 1
      /\ \A i \in 1..Len(channel') : channel'[i] = channel[i + 1]
      /\ Head(channel) = channel[1]
  BY HeadTailProperties, LenProperties, EmptySeq
<1>2. CASE state = server /\ \A i \in 1..Len(channel) : ~Carries(channel[i])
  BY <1>1, <1>2 DEF StreamInv
<1>3. CASE \E i \in 1..Len(channel) :
              /\ Carries(channel[i]) /\ channel[i].state = server
              /\ \A j \in (i + 1)..Len(channel) : ~Carries(channel[j])
  <2>1. PICK i \in 1..Len(channel) :
              /\ Carries(channel[i]) /\ channel[i].state = server
              /\ \A j \in (i + 1)..Len(channel) : ~Carries(channel[j])
    BY <1>3
  <2>2. CASE i = 1
    <3>1. state' = server'
      BY <1>1, <2>1, <2>2
    <3>2. \A j \in 1..Len(channel') : ~Carries(channel'[j])
      BY <1>1, <2>1, <2>2
    <3> QED BY <3>1, <3>2 DEF StreamInv
  <2>3. CASE i # 1
    <3>1. i - 1 \in 1..Len(channel') /\ channel'[i - 1] = channel[i]
      BY <1>1, <2>3
    <3>2. \A j \in ((i - 1) + 1)..Len(channel') : ~Carries(channel'[j])
      BY <1>1, <2>1, <2>3
    <3> QED BY <2>1, <3>1, <3>2 DEF StreamInv
  <2> QED BY <2>2, <2>3
<1> QED BY <1>2, <1>3 DEF StreamInv

\* The page handles an event.
LEMMA ReceiveKeeps ==
    ASSUME AInv, Receive
    PROVE  AInv'
<1> DEFINE event == Head(channel)
<1>1. /\ source = "open" /\ channel # <<>> /\ channel' = Tail(channel)
      /\ UNCHANGED <<server, failures, source, outage, down, outageEpoch, finished, owned,
                     timers>>
  BY DEF Receive, serverVars, monitorVars
<1>2. PageTyped /\ channel \in Seq(EventSet)
  BY DEF AInv, PageTyped, EventSet
<1>3. /\ Len(channel) \in Nat /\ Len(channel) # 0
      /\ event \in EventSet /\ event = channel[1]
      /\ channel' \in Seq(EventSet) /\ Len(channel') = Len(channel) - 1
      /\ \A i \in 1..Len(channel') : channel'[i] = channel[i + 1]
  BY <1>1, <1>2, HeadTailProperties, LenProperties, EmptySeq
<1>4. TimerInv' /\ OutageHasADeadline'
  BY <1>1 DEF AInv, TimerInv, OutageHasADeadline, Current
<1>5. event.state \in States
  BY <1>3 DEF EventSet
<1>6. CASE event.type = "rendering"
           /\ UNCHANGED <<state, loadedUrl, loads, view, sidebar, loadedFor, outline, fetches,
                          toasts>>
  <2>1. PageTyped'
    BY <1>1, <1>2, <1>3, <1>6 DEF PageTyped
  <2>2. StreamInv'
    BY <1>1, <1>2, <1>6, StreamShortens DEF AInv, Carries
  <2>3. DocsInv'
    BY <1>1, <1>3, <1>6 DEF AInv, DocsInv
  <2>4. LoadInv' /\ OpenOutlineFollows'
    BY <1>6 DEF AInv, LoadInv, OpenOutlineFollows
  <2> QED BY <1>4, <2>1, <2>2, <2>3, <2>4 DEF AInv
<1>7. ASSUME NEW reloaded \in BOOLEAN, ApplyState(event.state, reloaded),
             event.type # "rendering", toasts' \in 0..MaxToasts
      PROVE  AInv'
  <2>1. /\ state.doc # 0 \/ loadedUrl # 0 \/ loadedFor # 0 => event.state.doc # 0
        /\ event.state.doc # 0 => /\ server.doc # 0
                                  /\ \A j \in 1..Len(channel) : channel[j].state.doc # 0
        /\ loadedFor # 0 => state.doc # 0
    BY <1>3 DEF AInv, DocsInv
  <2>2. /\ state' = event.state /\ sidebar' = sidebar
        /\ loadedUrl' \in Renders /\ view' \in Renders
        /\ loads' \in Seq(LoadSet)
        /\ loadedFor' \in Renders /\ fetches' \in Seq({"asked", "ended"})
        /\ outline' \in {"nothing", "loading", "headings", "error"}
        /\ LoadInv' /\ OpenOutlineFollows'
        /\ loadedUrl' # 0 \/ loadedFor' # 0 => event.state.doc # 0
    <3>1. LoadInv /\ OpenOutlineFollows
      BY DEF AInv
    <3> HIDE DEF event
    <3> QED BY <1>2, <1>5, <1>7, <2>1, <3>1, ApplyKeeps
  <2>3. PageTyped'
    BY <1>1, <1>2, <1>3, <1>5, <1>7, <2>2 DEF PageTyped
  <2>4. StreamInv'
    BY <1>1, <1>2, <1>7, <2>2, StreamShortens DEF AInv, Carries
  <2>5. DocsInv'
    <3>1. \A i \in 1..Len(channel') : i + 1 \in 1..Len(channel) /\ channel'[i] = channel[i + 1]
      BY <1>3
    <3>2. event.state.doc # 0 =>
             /\ server'.doc # 0 /\ \A i \in 1..Len(channel') : channel'[i].state.doc # 0
      BY <1>1, <2>1, <3>1
    <3>3. ASSUME NEW i \in 1..Len(channel'), channel'[i].state.doc # 0
          PROVE  server'.doc # 0 /\ \A j \in i..Len(channel') : channel'[j].state.doc # 0
      <4>1. channel[i + 1].state.doc # 0 /\ i + 1 \in 1..Len(channel)
        BY <3>1, <3>3
      <4>2. server.doc # 0 /\ \A j \in (i + 1)..Len(channel) : channel[j].state.doc # 0
        BY <4>1 DEF AInv, DocsInv
      <4>3. \A j \in i..Len(channel') : j \in 1..Len(channel') /\ j + 1 \in (i + 1)..Len(channel)
        BY <1>3
      <4> QED BY <1>1, <3>1, <4>2, <4>3
    <3> QED BY <2>2, <3>2, <3>3 DEF DocsInv
  <2> QED BY <1>4, <2>2, <2>3, <2>4, <2>5 DEF AInv
<1>8. CASE event.type = "state" /\ ApplyState(event.state, FALSE)
           /\ UNCHANGED toasts
  <2>1. toasts' \in 0..MaxToasts
    BY <1>2, <1>8 DEF PageTyped
  <2> HIDE DEF event
  <2> QED BY <1>7, <1>8, <2>1
<1>9. CASE event.type = "reloaded" /\ ApplyState(event.state, TRUE) /\ Toast
  <2>1. toasts' \in 0..MaxToasts
    <3>1. toasts \in 0..MaxToasts
      BY <1>2 DEF PageTyped
    <3>2. MaxToasts \in Nat
      BY AppAssumption
    <3> QED BY <1>9, <3>1, <3>2 DEF Toast
  <2> HIDE DEF event
  <2> QED BY <1>7, <1>9, <2>1
<1> QED BY <1>6, <1>8, <1>9 DEF Receive, viewVars, outlineVars
-----------------------------------------------------------------------------
\* A load ends: the last one shows what was asked for, or nothing is asked for now.
LEMMA LoadsEndKeep ==
    ASSUME AInv, NEW l \in DOMAIN loads, LoadEnds(l) \/ LoadRejects(l)
    PROVE  AInv'
<1>1. PageTyped /\ loads \in Seq(LoadSet) /\ failures \in 0..MaxFailures
      /\ loadedUrl \in Renders /\ view \in Renders
  BY DEF AInv, PageTyped, LoadSet
<1>zero. 0 \in Renders /\ MaxFailures \in Nat
  BY AppAssumption DEF Renders
<1>2. /\ Len(loads) \in Nat /\ DOMAIN loads = 1..Len(loads)
      /\ \A i \in 1..Len(loads) : loads[i] \in LoadSet
  BY <1>1, LenProperties, ElementOfSeq
<1>3. /\ loads' = [loads EXCEPT ![l].step = "ended"]
      /\ UNCHANGED <<server, channel, state, sidebar, loadedFor, outline, fetches, toasts,
                     source, outage, down, outageEpoch, finished, owned, timers>>
  BY DEF LoadEnds, LoadRejects, serverVars, outlineVars, monitorVars
<1>4. /\ Len(loads') = Len(loads) /\ loads' \in Seq(LoadSet)
      /\ \A i \in 1..Len(loads) : loads'[i].url = loads[i].url
      /\ \A i \in 1..Len(loads) : i # l => loads'[i] = loads[i]
  <2> DEFINE ended == [loads[l] EXCEPT !.step = "ended"]
  <2>1. ended \in LoadSet /\ ended.url = loads[l].url
    BY <1>2 DEF LoadSet
  <2>2. loads' = [loads EXCEPT ![l] = ended]
    BY <1>3
  <2> HIDE DEF ended
  <2> QED BY <1>1, <1>2, <2>1, <2>2, ExceptSeq
<1>5. StreamInv' /\ OpenOutlineFollows' /\ TimerInv' /\ OutageHasADeadline'
  BY <1>3 DEF AInv, StreamInv, OpenOutlineFollows, TimerInv, OutageHasADeadline,
              Current
<1>6. CASE LoadEnds(l)
  <2>1. /\ view' = IF l = Len(loads) THEN loads[l].url ELSE view
        /\ UNCHANGED <<loadedUrl, failures>>
    BY <1>6 DEF LoadEnds, serverVars
  <2>2. view' \in Renders
    BY <1>1, <1>2, <2>1 DEF LoadSet
  <2>3. PageTyped'
    BY <1>1, <1>3, <1>4, <2>1, <2>2 DEF PageTyped
  <2>4. LoadInv'
    <3>1. SUFFICES ASSUME loadedUrl # 0
                   PROVE  /\ Len(loads') # 0 /\ loads'[Len(loads')].url = loadedUrl
                          /\ loads'[Len(loads')].step = "ended" => view' = loadedUrl
                          /\ state.status # "error" => loadedUrl = state.doc
      BY <1>3, <2>1 DEF LoadInv
    <3>2. /\ Len(loads) # 0 /\ loads[Len(loads)].url = loadedUrl
          /\ loads[Len(loads)].step = "ended" => view = loadedUrl
          /\ state.status # "error" => loadedUrl = state.doc
      BY <3>1 DEF AInv, LoadInv
    <3>3. Len(loads) \in 1..Len(loads) /\ loads'[Len(loads)].url = loadedUrl
      BY <1>2, <1>4, <3>2
    <3>4. CASE l = Len(loads)
      BY <1>4, <2>1, <3>2, <3>3, <3>4
    <3>5. CASE l # Len(loads)
      BY <1>4, <2>1, <3>2, <3>3, <3>5
    <3> QED BY <3>4, <3>5
  <2>5. DocsInv'
    BY <1>3, <2>1 DEF AInv, DocsInv
  <2> QED BY <1>5, <2>3, <2>4, <2>5 DEF AInv
<1>7. CASE LoadRejects(l)
  <2>1. /\ loadedUrl' = 0 /\ failures' = failures + 1 /\ failures < MaxFailures
        /\ view' = view
    BY <1>7 DEF LoadRejects
  <2>2. failures' \in 0..MaxFailures
    BY <1>1, <1>zero, <2>1
  <2>3. PageTyped'
    BY <1>1, <1>3, <1>4, <1>zero, <2>1, <2>2 DEF PageTyped
  <2>4. LoadInv' /\ DocsInv'
    BY <1>3, <2>1 DEF AInv, DocsInv, LoadInv
  <2> QED BY <1>5, <2>3, <2>4 DEF AInv
<1> QED BY <1>6, <1>7

\* An outline arrives, for the state there is, or an error.
LEMMA OutlinedKeeps ==
    ASSUME AInv, NEW f \in DOMAIN fetches, Outlined(f)
    PROVE  AInv'
<1>1. /\ fetches' = [fetches EXCEPT ![f] = "ended"]
      /\ \/ loadedFor' = state.doc /\ outline' = "headings"
         \/ loadedFor' = loadedFor /\ outline' = "error"
      /\ UNCHANGED <<server, failures, channel, state, loadedUrl, loads, view, sidebar, toasts,
                     source, outage, down, outageEpoch, finished, owned, timers>>
  BY DEF Outlined, serverVars, viewVars, monitorVars
<1>2. PageTyped /\ fetches \in Seq({"asked", "ended"}) /\ loadedFor \in Renders
      /\ state \in States \cup {Unknown}
  BY DEF AInv, PageTyped
<1>zero. 0 \in Renders
  BY AppAssumption DEF Renders
<1>3. loadedFor' \in Renders
  BY <1>1, <1>2, <1>zero DEF States, Unknown
<1>4. fetches' \in Seq({"asked", "ended"})
  BY <1>1, <1>2, LenProperties, ExceptSeq
<1>5. PageTyped'
  BY <1>1, <1>2, <1>3, <1>4 DEF PageTyped
<1>6. StreamInv' /\ LoadInv' /\ TimerInv' /\ OutageHasADeadline'
  BY <1>1 DEF AInv, StreamInv, LoadInv, TimerInv, OutageHasADeadline, Current
<1>7. DocsInv' /\ OpenOutlineFollows'
  BY <1>1 DEF AInv, DocsInv, OpenOutlineFollows
<1> QED BY <1>5, <1>6, <1>7 DEF AInv

\* The sidebar opens or closes on the state there is.
LEMMA ToggleKeeps ==
    ASSUME AInv, ToggleSidebar
    PROVE  AInv'
<1>1. /\ sidebar' = ~sidebar /\ state' = state /\ Render(state)
      /\ UNCHANGED <<server, failures, channel, toasts, source, outage, down, outageEpoch,
                     finished, owned, timers>>
  BY DEF ToggleSidebar, serverVars, monitorVars
<1>2. PageTyped /\ state \in States \cup {Unknown} /\ sidebar \in BOOLEAN
      /\ loadedFor \in Renders /\ fetches \in Seq({"asked", "ended"})
      /\ outline \in {"nothing", "loading", "headings", "error"}
  BY DEF AInv, PageTyped
<1>3. loadedUrl # 0 \/ loadedFor # 0 => state.doc # 0
  BY DEF AInv, DocsInv
<1>4. /\ loadedUrl' \in Renders /\ view' \in Renders
      /\ loads' \in Seq(LoadSet)
      /\ LoadInv' /\ (loadedUrl' # 0 => state.doc # 0)
  <2>1. LoadInv
    BY DEF AInv
  <2> QED BY <1>1, <1>2, <1>3, <2>1, RenderKeeps
<1>5. /\ loadedFor' = loadedFor /\ fetches' \in Seq({"asked", "ended"})
      /\ outline' \in {"nothing", "loading", "headings", "error"}
      /\ OpenOutlineFollows'
  <2>1. CASE sidebar'
    <3>1. LoadOutline(state, loadedFor)
      BY <2>1 DEF ToggleSidebar
    <3> QED BY <1>1, <1>2, <1>3, <3>1, AskedOrThere
  <2>2. CASE ~sidebar'
    <3>1. UNCHANGED <<loadedFor, outline, fetches>>
      BY <2>2 DEF ToggleSidebar
    <3> QED BY <1>2, <2>2, <3>1 DEF OpenOutlineFollows
  <2> QED BY <2>1, <2>2
<1>6. PageTyped'
  BY <1>1, <1>2, <1>4, <1>5 DEF PageTyped
<1>7. StreamInv' /\ TimerInv' /\ OutageHasADeadline'
  BY <1>1 DEF AInv, StreamInv, TimerInv, OutageHasADeadline, Current
<1>8. DocsInv'
  BY <1>1, <1>3, <1>4, <1>5 DEF AInv, DocsInv
<1> QED BY <1>4, <1>5, <1>6, <1>7, <1>8 DEF AInv

\* What the line says is of no account to the rest.
LEMMA MessagesKeep ==
    ASSUME AInv, Says \/ Clears
    PROVE  AInv'
<1>1. UNCHANGED <<server, failures, channel, state, loadedUrl, loads, view, sidebar, loadedFor,
                  outline, fetches, source, outage, down, outageEpoch, finished, owned, timers>>
  BY DEF Says, Clears, serverVars, viewVars, outlineVars, monitorVars
<1>2. PageTyped /\ toasts \in 0..MaxToasts
  BY DEF AInv, PageTyped
<1>3. MaxToasts \in Nat
  BY AppAssumption
<1>4. toasts' \in 0..MaxToasts
  <2>1. CASE Says
    <3>1. toasts < MaxToasts /\ toasts' = toasts + 1
      BY <2>1 DEF Says, Toast
    <3> QED BY <1>2, <1>3, <3>1
  <2>2. CASE Clears
    <3>1. toasts > 0 /\ toasts' = toasts - 1
      BY <2>2 DEF Clears
    <3> QED BY <1>2, <1>3, <3>1
  <2> QED BY <2>1, <2>2
<1>5. PageTyped'
  BY <1>1, <1>2, <1>4 DEF PageTyped
<1>6. /\ StreamInv' /\ DocsInv' /\ LoadInv' /\ OpenOutlineFollows'
      /\ TimerInv' /\ OutageHasADeadline'
  BY <1>1 DEF AInv, StreamInv, DocsInv, LoadInv, OpenOutlineFollows, TimerInv,
              OutageHasADeadline, Current
<1> QED BY <1>5, <1>6 DEF AInv
-----------------------------------------------------------------------------
\* The connection opens with the state of the server, and its outage is over.
LEMMA ConnectsKeeps ==
    ASSUME AInv, Connects
    PROVE  AInv'
<1> DEFINE first == [type |-> "state", state |-> server]
<1>1. /\ source' = "open" /\ channel' = <<first>>
      /\ down' = FALSE /\ owned' = FALSE /\ outageEpoch' = outageEpoch + 1
      /\ outageEpoch < 2 * MaxOutages + 1
      /\ UNCHANGED <<server, failures, state, loadedUrl, loads, view, sidebar, loadedFor,
                     outline, fetches, toasts, outage, finished, timers>>
  BY DEF Connects, serverVars, viewVars, outlineVars
<1>2. PageTyped /\ server \in States /\ outageEpoch \in Epochs
      /\ timers \subseteq TimerSet
  BY DEF AInv, PageTyped, TimerSet
<1>3. MaxOutages \in Nat
  BY AppAssumption
<1>4. outageEpoch' \in Epochs
  <2>1. outageEpoch' = outageEpoch + 1 /\ outageEpoch < 2 * MaxOutages + 1
    BY <1>1
  <2>2. outageEpoch \in 0..(2 * MaxOutages + 1)
    BY <1>2 DEF Epochs
  <2> QED BY <1>3, <2>1, <2>2 DEF Epochs
<1>5. first \in EventSet /\ Carries(first) /\ first.state = server
  BY <1>2 DEF EventSet, Events, Carries
<1>6. channel' \in Seq(EventSet) /\ Len(channel') = 1 /\ channel'[1] = first
  <2> HIDE DEF first
  <2> QED BY <1>1, <1>5
<1>7. PageTyped'
  BY <1>1, <1>2, <1>4, <1>6 DEF PageTyped
<1> HIDE DEF first
<1>8. StreamInv'
  <2>1. 1 \in 1..Len(channel') /\ \A j \in (1 + 1)..Len(channel') : ~Carries(channel'[j])
    BY <1>6
  <2> QED BY <1>1, <1>5, <1>6, <2>1 DEF StreamInv
<1>9. DocsInv'
  BY <1>1, <1>5, <1>6 DEF AInv, DocsInv
<1>10. LoadInv' /\ OpenOutlineFollows' /\ TimerInv' /\ OutageHasADeadline'
  <2>1. LoadInv' /\ OpenOutlineFollows' /\ OutageHasADeadline'
    BY <1>1 DEF AInv, LoadInv, OpenOutlineFollows, OutageHasADeadline
  <2>2. ASSUME NEW t \in timers PROVE t.epoch <= outageEpoch'
    <3>1. t.epoch <= outageEpoch /\ t.epoch \in Epochs
      BY <1>2 DEF AInv, TimerInv, TimerSet
    <3> QED BY <1>1, <1>2, <3>1 DEF Epochs
  <2> QED BY <1>1, <2>1, <2>2 DEF TimerInv
<1> QED BY <1>7, <1>8, <1>9, <1>10 DEF AInv
\* What a closed source leaves: nothing on its way, no render that will come.
LEMMA ClosedKeeps ==
    ASSUME AInv, source' # "open", channel' = <<>>,
           UNCHANGED <<server, state, loadedUrl, loads, view, sidebar, loadedFor, outline,
                       fetches>>
    PROVE  StreamInv' /\ DocsInv' /\ LoadInv' /\ OpenOutlineFollows'
<1>1. Len(channel') = 0
  OBVIOUS
<1>2. StreamInv' /\ DocsInv'
  BY <1>1 DEF AInv, StreamInv, DocsInv
<1> QED BY <1>2 DEF AInv, LoadInv, OpenOutlineFollows

\* The connection drops; the first time, an outage begins and its clock runs.
LEMMA DropsKeeps ==
    ASSUME AInv, Drops
    PROVE  AInv'
<1>1. /\ source' = "connecting" /\ channel' = <<>> /\ outageEpoch < 2 * MaxOutages
      /\ Failed
      /\ UNCHANGED <<server, failures, state, loadedUrl, loads, view, sidebar, loadedFor,
                     outline, fetches, toasts, finished, owned>>
  BY DEF Drops, serverVars, viewVars, outlineVars
<1>2. /\ PageTyped /\ outage \in 0..MaxOutages /\ outageEpoch \in Epochs
      /\ timers \subseteq TimerSet /\ {down, finished, owned} \subseteq BOOLEAN
  BY DEF AInv, PageTyped, TimerSet
<1>3. MaxOutages \in Nat
  BY AppAssumption
<1>4. StreamInv' /\ DocsInv' /\ LoadInv' /\ OpenOutlineFollows'
  BY <1>1, ClosedKeeps
<1>5. CASE down /\ UNCHANGED <<down, outageEpoch, outage, timers>>
  <2>1. PageTyped'
    BY <1>1, <1>2, <1>5 DEF PageTyped
  <2>2. TimerInv' /\ OutageHasADeadline'
    BY <1>1, <1>5 DEF AInv, TimerInv, OutageHasADeadline, Current
  <2> QED BY <1>4, <2>1, <2>2 DEF AInv
<1>6. CASE ~down
  <2> DEFINE new == [what : {"grace", "deadline"}, epoch : {outageEpoch + 1},
                     outage : {outage + 1}]
             clock == [what |-> "deadline", epoch |-> outageEpoch + 1, outage |-> outage + 1]
  <2>1. /\ outage < MaxOutages /\ outage' = outage + 1
        /\ down' = TRUE /\ outageEpoch' = outageEpoch + 1
        /\ timers' = timers \cup new
    BY <1>1, <1>6 DEF Failed
  <2>2. outage' \in 0..MaxOutages
    BY <1>2, <1>3, <2>1
  <2>3. outageEpoch' \in Epochs /\ outageEpoch \in Int
    <3>1. outageEpoch \in 0..(2 * MaxOutages + 1)
      BY <1>2 DEF Epochs
    <3> QED BY <1>1, <1>3, <2>1, <3>1 DEF Epochs
  <2>4. new \subseteq TimerSet
    BY <2>1, <2>2, <2>3 DEF TimerSet
  <2>5. clock \in new /\ clock.what = "deadline" /\ clock.epoch = outageEpoch'
    BY <2>1
  <2>6. \A t \in new : t.epoch = outageEpoch' /\ t.outage = outage'
    BY <2>1
  <2> HIDE DEF new, clock
  <2>7. PageTyped'
    BY <1>1, <1>2, <2>1, <2>2, <2>3, <2>4 DEF PageTyped
  <2>8. TimerInv'
    <3>1. ASSUME NEW t \in timers
          PROVE  t.epoch <= outageEpoch' /\ t.epoch # outageEpoch'
      <4>1. t.epoch <= outageEpoch /\ t.epoch \in Int
        BY <1>2, <1>3 DEF AInv, TimerInv, TimerSet, Epochs
      <4> QED BY <2>1, <2>3, <4>1
    <3>2. \A t \in timers' : /\ t.epoch <= outageEpoch'
                             /\ t.epoch = outageEpoch' => t.outage = outage'
      BY <2>1, <2>3, <2>6, <3>1
    <3> QED BY <1>1, <3>2 DEF TimerInv
  <2>9. OutageHasADeadline'
    BY <1>1, <2>1, <2>5 DEF OutageHasADeadline, Current
  <2> QED BY <1>4, <2>7, <2>8, <2>9 DEF AInv
<1> QED BY <1>1, <1>5, <1>6 DEF Failed

\* The browser gives up.
LEMMA RefusedKeeps ==
    ASSUME AInv, Refused
    PROVE  AInv'
<1>1. /\ source' = "closed" /\ channel' = <<>> /\ finished' = TRUE /\ owned' = TRUE
      /\ UNCHANGED <<server, failures, state, loadedUrl, loads, view, sidebar, loadedFor,
                     outline, fetches, toasts, outage, down, outageEpoch, timers>>
  BY DEF Refused, GiveUp, serverVars, viewVars, outlineVars
<1>2. PageTyped
  BY DEF AInv
<1>3. PageTyped'
  BY <1>1, <1>2 DEF PageTyped
<1>4. StreamInv' /\ DocsInv' /\ LoadInv' /\ OpenOutlineFollows'
  BY <1>1, ClosedKeeps
<1>5. TimerInv' /\ OutageHasADeadline'
  BY <1>1 DEF AInv, TimerInv, OutageHasADeadline
<1> QED BY <1>3, <1>4, <1>5 DEF AInv

\* A timer goes off: the clock of the outage runs on until it ends it.
LEMMA ExpiresKeeps ==
    ASSUME AInv, NEW t \in timers, Expires(t)
    PROVE  AInv'
<1>1. /\ timers' = timers \ {t}
      /\ UNCHANGED <<server, failures, state, loadedUrl, loads, view, sidebar, loadedFor,
                     outline, fetches, toasts, outage, down, outageEpoch>>
  BY DEF Expires, serverVars, viewVars, outlineVars
<1>2. PageTyped
  BY DEF AInv
<1>3. CASE Current(t) /\ t.what = "grace" /\ owned' = TRUE
           /\ UNCHANGED <<source, finished, channel>>
  <2>1. down /\ ~finished
    BY <1>3 DEF Current
  <2>2. PageTyped'
    BY <1>1, <1>2, <1>3, <2>1 DEF PageTyped
  <2>3. StreamInv' /\ DocsInv' /\ LoadInv' /\ OpenOutlineFollows'
    BY <1>1, <1>3 DEF AInv, StreamInv, DocsInv, LoadInv, OpenOutlineFollows
  <2>4. TimerInv' /\ OutageHasADeadline'
    BY <1>1, <1>3 DEF AInv, TimerInv, OutageHasADeadline, Current
  <2> QED BY <2>2, <2>3, <2>4 DEF AInv
<1>4. CASE GiveUp /\ channel' = <<>>
  <2>1. source' = "closed" /\ finished' = TRUE /\ owned' = TRUE
    BY <1>4 DEF GiveUp
  <2>2. PageTyped'
    BY <1>1, <1>2, <1>4, <2>1 DEF PageTyped
  <2>3. StreamInv' /\ DocsInv' /\ LoadInv' /\ OpenOutlineFollows'
    BY <1>1, <1>4, <2>1, ClosedKeeps
  <2>4. TimerInv' /\ OutageHasADeadline'
    BY <1>1, <2>1 DEF AInv, TimerInv, OutageHasADeadline
  <2> QED BY <2>2, <2>3, <2>4 DEF AInv
<1>5. CASE ~Current(t) /\ UNCHANGED <<owned, source, finished, channel>>
  <2>1. PageTyped'
    BY <1>1, <1>2, <1>5 DEF PageTyped
  <2>2. StreamInv' /\ DocsInv' /\ LoadInv' /\ OpenOutlineFollows'
    BY <1>1, <1>5 DEF AInv, StreamInv, DocsInv, LoadInv, OpenOutlineFollows
  <2>3. TimerInv' /\ OutageHasADeadline'
    BY <1>1, <1>5 DEF AInv, TimerInv, OutageHasADeadline, Current
  <2> QED BY <2>1, <2>2, <2>3 DEF AInv
<1> QED BY <1>3, <1>4, <1>5 DEF Expires
-----------------------------------------------------------------------------
\* The page has nothing and nothing is on its way.
LEMMA PageStarts ==
    ASSUME AppInit
    PROVE  AInv
<1>1. /\ {MaxRenders, MaxFailures, MaxOutages, MaxToasts} \subseteq Nat
  BY AppAssumption
<1>2. 0 \in 0..MaxRenders /\ 0 \in 0..MaxFailures /\ 0 \in 0..MaxOutages
      /\ 0 \in 0..MaxToasts /\ 0 \in 0..(2 * MaxOutages + 1)
  BY <1>1
<1>3. /\ server = [doc |-> 0, status |-> "idle"] /\ failures = 0
      /\ channel = <<>> /\ source = "none" /\ outage = 0 /\ state = Unknown
      /\ loadedUrl = 0 /\ loads = <<>> /\ view = 0
      /\ sidebar = FALSE /\ loadedFor = 0 /\ outline = "nothing" /\ fetches = <<>>
      /\ toasts = 0
      /\ down = FALSE /\ outageEpoch = 0 /\ finished = FALSE /\ owned = FALSE /\ timers = {}
  BY DEF AppInit
<1>4. Len(channel) = 0 /\ state.doc = 0
  BY <1>3 DEF Unknown
<1>5. PageTyped
  <2>1. /\ server \in States /\ loadedUrl \in Renders /\ view \in Renders
        /\ loadedFor \in Renders /\ outageEpoch \in Epochs
    BY <1>2, <1>3 DEF States, Renders, Epochs
  <2>2. channel \in Seq(EventSet) /\ loads \in Seq(LoadSet)
        /\ fetches \in Seq({"asked", "ended"})
    BY <1>3
  <2> QED BY <1>2, <1>3, <2>1, <2>2 DEF PageTyped
<1>6. StreamInv /\ DocsInv /\ LoadInv /\ OpenOutlineFollows
  BY <1>3, <1>4 DEF StreamInv, DocsInv, LoadInv, OpenOutlineFollows
<1>7. TimerInv /\ OutageHasADeadline
  BY <1>3 DEF TimerInv, OutageHasADeadline
<1> QED BY <1>5, <1>6, <1>7 DEF AInv

\* Every step keeps the invariant of the page.
LEMMA PageStepKeeps ==
    ASSUME AInv, [AppNext]_appVars
    PROVE  AInv'
<1>1. CASE UNCHANGED appVars
  <2>1. UNCHANGED <<server, failures, channel, state, loadedUrl, loads, view, sidebar,
                    loadedFor, outline, fetches, toasts, source, outage, down,
                    outageEpoch, finished, owned, timers>>
    BY <1>1 DEF appVars, serverVars, viewVars, outlineVars, monitorVars
  <2> QED BY <2>1 DEF AInv, PageTyped, StreamInv, DocsInv, LoadInv, OpenOutlineFollows,
                      TimerInv, OutageHasADeadline, Current
<1>2. CASE ServerMoves
  BY <1>2, ServerMovesKeep
<1>3. CASE Start
  BY <1>3, StartKeeps
<1>4. CASE Receive
  BY <1>4, ReceiveKeeps
<1>5. CASE Answers
  BY <1>5, LoadsEndKeep, OutlinedKeeps DEF Answers
<1>6. CASE ToggleSidebar
  BY <1>6, ToggleKeeps
<1>7. CASE Says \/ Clears
  BY <1>7, MessagesKeep
<1>8. CASE Connects
  BY <1>8, ConnectsKeeps
<1>9. CASE Drops
  BY <1>9, DropsKeeps
<1>10. CASE Refused
  BY <1>10, RefusedKeeps
<1>11. CASE \E t \in timers : Expires(t)
  BY <1>11, ExpiresKeeps
<1> QED BY <1>1, <1>2, <1>3, <1>4, <1>5, <1>6, <1>7, <1>8, <1>9, <1>10, <1>11 DEF AppNext

\* The invariant of the page holds throughout.
LEMMA PageInvariance == AppSpec => []AInv
<1>1. AppInit => AInv
  BY PageStarts
<1>2. AInv /\ [AppNext]_appVars => AInv'
  BY PageStepKeeps
<1> QED BY <1>1, <1>2, PTL DEF AppSpec

\* What the status line may say.
LEMMA LineInvariance == AppSpec => []LineTyped
<1>1. AppInit => LineTyped
  BY Zenon DEF AppInit, LineTyped, Lines
<1>2. ASSUME LineTyped, [AppNext]_appVars
      PROVE  LineTyped'
  <2>1. CASE UNCHANGED appVars
    BY <1>2, <2>1, Zenon DEF LineTyped, appVars
  <2>2. CASE ServerMoves
    BY <1>2, <2>2, Zenon DEF LineTyped, ServerMoves, Opening, Opened,
                             Announces, Refreshed, Fails, Pushes
  <2>3. CASE Start \/ Receive \/ ToggleSidebar
    BY <1>2, <2>3, Zenon DEF LineTyped, Start, Receive, ToggleSidebar, Toast,
                             StatusOf, Lines
  <2>4. CASE Answers
    BY <1>2, <2>4, Zenon DEF LineTyped, Answers, LoadEnds, LoadRejects, Outlined,
                             Lines
  <2>5. CASE Says \/ Clears \/ Connects \/ Drops \/ Refused
    BY <1>2, <2>5, Zenon DEF LineTyped, Says, Clears, Toast, Connects,
                             Drops, Refused, GiveUp, Lines
  <2>6. CASE \E t \in timers : Expires(t)
    BY <1>2, <2>6, Zenon DEF LineTyped, Expires, GiveUp, Lines
  <2> QED BY <1>2, <2>1, <2>2, <2>3, <2>4, <2>5, <2>6 DEF AppNext
<1> QED BY <1>1, <1>2, PTL DEF AppSpec
-----------------------------------------------------------------------------
\* Every variable of the page keeps its type, whatever the bounds.
THEOREM PageTypeCorrect == AppSpec => []AppTypeOK
<1>1. AInv /\ LineTyped => AppTypeOK
  BY TypedPage DEF AInv
<1> QED BY <1>1, PageInvariance, LineInvariance, PTL

\* The page follows its server (applyState, showPdf and connect of app.js): when it is
\* connected and has handled every event, it has the server's state and, unless a load is
\* under way or the last one failed, shows the server's render; what the outages lost
\* notwithstanding.
THEOREM PageFollowsServer == AppSpec => []ConnectedPageIsCurrent
<1>1. ASSUME AInv, source = "open", channel = <<>>
      PROVE  /\ state = server
             /\ state.status # "error" /\ ~StillLoading /\ loadedUrl # 0 => view = server.doc
  <2>1. Len(channel) = 0
    BY <1>1
  <2>2. state = server
    BY <1>1, <2>1 DEF AInv, StreamInv
  <2>3. ASSUME state.status # "error", ~StillLoading, loadedUrl # 0
        PROVE  view = server.doc
    <3>1. /\ Len(loads) # 0
          /\ loads[Len(loads)].step = "ended" => view = loadedUrl
          /\ loadedUrl = state.doc /\ loads \in Seq(LoadSet)
      BY <1>1, <2>3 DEF AInv, LoadInv, PageTyped
    <3>2. Len(loads) \in DOMAIN loads /\ loads[Len(loads)] \in LoadSet
      BY <3>1, LenProperties, ElementOfSeq
    <3>3. loads[Len(loads)].step = "ended"
      BY <2>3, <3>2 DEF StillLoading, LoadSet
    <3> QED BY <1>1, <2>2, <2>3, <3>1, <3>3 DEF AInv, LoadInv
  <2> QED BY <2>2, <2>3
<1>2. AInv => ConnectedPageIsCurrent
  BY <1>1 DEF ConnectedPageIsCurrent
<1> QED BY <1>2, PageInvariance, PTL

\* An open sidebar asks for the outline of the render on show (applyState, loadOutline and
\* setSidebarOpen of app.js): no order of pushes, answers and the reader's clicks leaves it
\* with the label of an older render once all is answered.
THEOREM OutlineFollows == AppSpec => []OpenOutlineFollows
<1>1. AInv => OpenOutlineFollows
  BY DEF AInv
<1> QED BY <1>1, PageInvariance, PTL

\* Every outage the monitor watches has its deadline running (failed() of
\* connection-status.mjs), so the panel gives up rather than reconnect without end.
THEOREM OutagesHaveADeadline == AppSpec => []OutageHasADeadline
<1>1. AInv => OutageHasADeadline
  BY DEF AInv
<1> QED BY <1>1, PageInvariance, PTL

\* A timer speaks of the outage it was set in (the epochs of connection-status.mjs): what
\* was set in an outage that healed neither says that the panel reconnects nor ends it.
THEOREM TimersSpeakOfTheirOutage == AppSpec => SpeaksOfItsOutage
<1> DEFINE Speaks == \/ line' = "reconnecting" /\ line # "reconnecting"
                     \/ finished' /\ ~finished /\ timers' # timers
           OfIt == \E t \in timers \ timers' : t.outage = outage /\ source = "connecting"
<1>1. ASSUME AInv, [AppNext]_appVars, Speaks
      PROVE  OfIt
  <2>1. CASE UNCHANGED appVars
    BY <1>1, <2>1, Zenon DEF appVars, monitorVars
  <2>2. CASE ServerMoves
    BY <1>1, <2>2, Zenon DEF ServerMoves, Opening, Opened, Announces,
                             Refreshed, Fails, Pushes, monitorVars
  <2>3. CASE Start \/ Receive \/ ToggleSidebar
    BY <1>1, <2>3, Zenon DEF Start, Receive, ToggleSidebar, Toast,
                             StatusOf, monitorVars
  <2>4. CASE Answers
    BY <1>1, <2>4, Zenon DEF Answers, LoadEnds, LoadRejects, Outlined,
                             monitorVars
  <2>5. CASE Says \/ Clears
    BY <1>1, <2>5, Zenon DEF Says, Clears, Toast, monitorVars
  <2>6. CASE Connects \/ Drops \/ Refused
    BY <1>1, <2>6, Zenon DEF Connects, Drops, Refused, GiveUp
  <2>7. ASSUME NEW t \in timers, Expires(t)
        PROVE  OfIt
    <3>1. /\ timers' = timers \ {t}
          /\ Current(t) \/ (line' = line /\ finished' = finished)
      BY <2>7 DEF Expires
    <3>told. ~(line' = line /\ finished' = finished)
      BY <1>1
    <3>2. t \in timers \ timers' /\ down /\ ~finished /\ outageEpoch = t.epoch
      BY <2>7, <3>1, <3>told DEF Current
    <3>3. t.outage = outage /\ source = "connecting"
      BY <1>1, <3>2 DEF AInv, TimerInv
    <3> QED BY <3>2, <3>3
  <2> QED BY <1>1, <2>1, <2>2, <2>3, <2>4, <2>5, <2>6, <2>7 DEF AppNext
<1>2. AInv /\ [AppNext]_appVars => [Speaks => OfIt]_appVars
  BY <1>1
<1> QED BY <1>2, PageInvariance, PTL DEF AppSpec, SpeaksOfItsOutage
==================================================================================
