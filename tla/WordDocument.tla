----------------------------- MODULE WordDocument -----------------------------
(***************************************************************************)
(* A Word document as a flat sequence of paragraphs and of the marks that  *)
(* begin and end what they stand in: what the structure map of it must be, *)
(* and the changes the PowerShell host makes to it (src/word/word-host.ps1).*)
(*                                                                         *)
(*   "tbl(" "tr(" "tr)" "tbl)"   a table of rows of one cell               *)
(*   "alt(" "alt|" "alt)"        alternative content and its fallback      *)
(***************************************************************************)
EXTENDS Addresses

CONSTANT Styles     \* style id |-> [name, basedOn, outline]

Para(style, outline, box, text) ==
    [what |-> "p", style |-> style, outline |-> outline, box |-> box, text |-> text]
Mark(what) == [Para(None, None, FALSE, <<>>) EXCEPT !.what = what]
-----------------------------------------------------------------------------
(* What the map of it must be, without markup and without a parser.        *)

Count(doc, what, i) == Cardinality({j \in 1..i : doc[j].what = what})
InTable(doc, i) == Count(doc, "tbl(", i) > Count(doc, "tbl)", i)
InFallback(doc, i) == Count(doc, "alt|", i) > Count(doc, "alt)", i)

\* Word counts paragraphs and the marks that end a row.
Counted(doc) == {i \in DOMAIN doc : doc[i].what \in {"p", "tr)"} /\ ~InFallback(doc, i)}
WordIndex(doc, i) == Cardinality({j \in Counted(doc) : j <= i})
Mapped(doc) == SelectSeq([i \in DOMAIN doc |-> i],
                         LAMBDA i : doc[i].what = "p" /\ ~InFallback(doc, i))

\* The level a style has from the nearest style under it that says one.
StyleLevel(id) ==
    LET based[n \in Nat] ==
            IF n = 0 THEN id
            ELSE IF based[n - 1] \in DOMAIN Styles THEN Styles[based[n - 1]].basedOn ELSE None
        Says(s) == s \in DOMAIN Styles /\ (Styles[s].name # 0 \/ Styles[s].outline # None)
        said == {n \in 0..Cardinality(DOMAIN Styles) : Says(based[n])}
        s == based[Min(said)]
    IN  IF said = {} THEN None
        ELSE IF Styles[s].name # 0 THEN Styles[s].name
        ELSE IF Styles[s].outline < BodyTextLevel THEN Styles[s].outline + 1 ELSE None

Level(e) ==
    IF e.outline = None THEN StyleLevel(e.style)
    ELSE IF e.outline < BodyTextLevel THEN e.outline + 1 ELSE None

\* The heading a paragraph stands under at each level down to that of the last
\* heading before it, or to the one above its own.
HeadingPath(doc, i) ==
    LET before == {j \in 1..(i - 1) : j \in ToSet(Mapped(doc)) /\ Level(doc[j]) # None}
        deepest == IF before = {} THEN 0 ELSE Level(doc[Max(before)])
        depth == IF Level(doc[i]) = None THEN deepest ELSE Min({deepest, Level(doc[i]) - 1})
        At(l) == {j \in before : /\ Level(doc[j]) = l
                                 /\ \A k \in before : k > j => Level(doc[k]) >= l}
    IN  [l \in 1..depth |-> IF At(l) = {} THEN <<>> ELSE NormalizeText(doc[Max(At(l))].text)]

Described(doc, n) ==
    LET i == Mapped(doc)[n]
    IN  [index |-> n, wordIndex |-> WordIndex(doc, i), text |-> doc[i].text,
         headingLevel |-> Level(doc[i]), inTable |-> InTable(doc, i),
         headingPath |-> HeadingPath(doc, i)]

\* The whole map: an address is the key of a paragraph and which of those it is.
Description(doc) ==
    LET entries == [n \in DOMAIN Mapped(doc) |-> Described(doc, n)]
        Occurrence(n) == Cardinality({m \in 1..n : Key(entries[m]) = Key(entries[n])})
    IN  [n \in DOMAIN entries |->
            entries[n] @@ [address |-> Append(Key(entries[n]), Occurrence(n))]]

\* The texts of the paragraphs Word counts.
InOrder(doc) == SelectSeq([i \in DOMAIN doc |-> i], LAMBDA i : i \in Counted(doc))
WordTexts(doc) == [n \in DOMAIN InOrder(doc) |-> doc[InOrder(doc)[n]].text]
-----------------------------------------------------------------------------
(* Changes.  A style that no call names is Word's to choose.               *)

Normal == CHOOSE id \in DOMAIN Styles : Styles[id] = [name |-> 0, basedOn |-> None, outline |-> None]
HeadingStyle(level) ==
    IF level = 0 THEN Normal ELSE CHOOSE id \in DOMAIN Styles : Styles[id].name = level
NextStyle(id) == IF StyleLevel(id) = None THEN id ELSE Normal

\* Set-ParagraphText: what is between the common prefix and suffix is assigned.
SetParagraphText(old, new) ==
    LET Longest(lengths) == CHOOSE n \in lengths : \A m \in lengths : m <= n
        max == Min({Len(old), Len(new)})
        p == Longest({n \in 0..max : SubSeq(old, 1, n) = SubSeq(new, 1, n)})
        s == Longest({n \in 0..(max - p) : SubSeq(old, Len(old) - n + 1, Len(old))
                                              = SubSeq(new, Len(new) - n + 1, Len(new))})
        middle == SubSeq(new, p + 1, Len(new) - s)
    IN  SubSeq(old, 1, p) \o middle \o SubSeq(old, Len(old) - s + 1, Len(old))

\* A text with a break in it is two paragraphs to Word.
Lines(para, text) ==
    FoldLeft(LAMBDA lines, char :
                IF char \in Breaks THEN Append(lines, [para EXCEPT !.text = <<>>])
                ELSE [lines EXCEPT ![Len(lines)].text = Append(@, char)],
             <<[para EXCEPT !.text = <<>>]>>, text)

Replaced(doc, i, new) == SubSeq(doc, 1, i - 1) \o new \o SubSeq(doc, i + 1, Len(doc))

\* Set-InheritedStyle and Set-ParagraphHeadingLevel; a style brings its outline.
NewParagraph(reference, level) ==
    Para(IF level = None THEN NextStyle(reference.style) ELSE HeadingStyle(level),
         None, FALSE, <<>>)

\* Invoke-EditOperation on the i-th element.  A cell and the document keep their
\* last paragraph.
Edited(doc, i, intent) ==
    LET para == doc[i]
        new == Lines(NewParagraph(para, intent.headingLevel), intent.text)
    IN  CASE intent.op = "replace_text" ->
                Replaced(doc, i, Lines(para, SetParagraphText(para.text, intent.text)))
          [] intent.op = "insert_paragraph_after" -> Replaced(doc, i, <<para>> \o new)
          [] intent.op = "insert_paragraph_before" -> Replaced(doc, i, new \o <<para>>)
          [] intent.op = "set_heading_level" ->
                Replaced(doc, i, <<[para EXCEPT !.style = HeadingStyle(intent.headingLevel),
                                                !.outline = None]>>)
          [] intent.op = "delete_paragraph" ->
                IF InTable(doc, i) \/ i = Max(Counted(doc))
                THEN Replaced(doc, i, <<[para EXCEPT !.text = <<>>]>>)
                ELSE Replaced(doc, i, <<>>)

\* Add-SpecBlock.  pending is whether the last paragraph is still to be written:
\* the one a new document has, and the one Word keeps after a table.
\* Mutant: every block begins with a new paragraph.
BeforeNew(state) == state.doc
Before(state) == IF state.pending THEN Front(state.doc) ELSE state.doc

WriteParagraph(state, style, text) ==
    [doc |-> Append(Before(state), Para(style, None, FALSE, text)), pending |-> FALSE]

AddSpecBlock(state, block) ==
    LET Row(cells) == <<Mark("tr(")>>
                          \o [c \in DOMAIN cells |-> Para(Normal, None, FALSE, cells[c])]
                          \o <<Mark("tr)")>>
        anchored == WriteParagraph(state, Normal, <<>>)
    IN  CASE block.kind = "heading" -> WriteParagraph(state, HeadingStyle(block.level), block.text)
          [] block.kind = "paragraph" -> WriteParagraph(state, Normal, block.text)
          [] block.kind = "list" ->
                FoldLeft(LAMBDA s, item : WriteParagraph(s, Normal, item), state, block.items)
          [] block.kind = "table" ->
                [doc |-> Front(anchored.doc) \o <<Mark("tbl(")>>
                            \o FlattenSeq([r \in DOMAIN block.rows |-> Row(block.rows[r])])
                            \o <<Mark("tbl)"), Para(Normal, None, FALSE, <<>>)>>,
                 pending |-> TRUE]

Authored(blocks) ==
    FoldLeft(AddSpecBlock, [doc |-> <<Para(Normal, None, FALSE, <<>>)>>, pending |-> TRUE],
             blocks).doc
=============================================================================
