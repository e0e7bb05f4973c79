----------------------------- MODULE StructureMap -----------------------------
(***************************************************************************)
(* The structure map (src/word/structure-map.mjs) and the outline made of  *)
(* it (src/word/outline-map.mjs): from markup to addressed paragraphs.     *)
(*                                                                         *)
(* The name of a style is n for a built-in "heading n" and 0 for any other *)
(* name.                                                                   *)
(***************************************************************************)
EXTENDS Ooxml, Addresses

NonText == {"pPr", "rPr", "sectPr", "instrText", "delText", "delInstrText", "txbxContent"}
-----------------------------------------------------------------------------
(* Styles.                                                                 *)

OutlineOf(properties) == Attr(ChildNamed(properties, "outlineLvl"), "val")

\* An outline level as a heading level; None is body text.
LevelFromOutline(outline) == IF outline >= BodyTextLevel THEN None ELSE outline + 1

RawStyles(root) ==
    LET part == FindFirst(root, "styles")
        styles == IF part = None THEN <<>> ELSE ChildrenNamed(part, "style")
    IN  [id \in {Attr(styles[i], "styleId") : i \in DOMAIN styles} |->
            LET style == CHOOSE s \in ToSet(styles) : Attr(s, "styleId") = id
            IN  [name |-> Attr(ChildNamed(style, "name"), "val"),
                 basedOn |-> Attr(ChildNamed(style, "basedOn"), "val"),
                 outline |-> OutlineOf(ChildNamed(style, "pPr"))]]

\* headingLevelOf(): the name decides, then the outline level, then the style it
\* is based on; a style that was seen before ends the chain.
RECURSIVE HeadingLevelOf(_, _, _)
HeadingLevelOf(raw, id, seen) ==
    IF id \in seen \/ id \notin DOMAIN raw THEN None
    ELSE IF raw[id].name \notin {None, 0} THEN raw[id].name
    ELSE IF raw[id].outline # None THEN LevelFromOutline(raw[id].outline)
    ELSE HeadingLevelOf(raw, raw[id].basedOn, seen \cup {id})

ResolveStyles(root) ==
    LET raw == RawStyles(root)
    IN  [id \in DOMAIN raw |-> HeadingLevelOf(raw, id, {})]
-----------------------------------------------------------------------------
(* Paragraphs.                                                             *)

\* alternateContentBranch(): the choice, failing that the fallback.
Branch(node) ==
    IF ChildNamed(node, "Choice") # None THEN ChildNamed(node, "Choice")
    ELSE ChildNamed(node, "Fallback")

\* collectParagraphs(): Word counts the mark at the end of a row as a paragraph.
RECURSIVE Visit(_, _, _)
Visit(node, inTable, so) ==
    LET Take(acc, child) ==
            CASE child.name = "p" ->
                     [found |-> Append(acc.found, [node |-> child, inTable |-> inTable,
                                                   wordIndex |-> acc.wordIndex + 1]),
                      wordIndex |-> acc.wordIndex + 1]
              [] child.name = "AlternateContent" ->
                     IF Branch(child) = None THEN acc
                     ELSE Visit(Branch(child), inTable, acc)
              [] child.name = "tr" ->
                     [Visit(child, TRUE, acc) EXCEPT !.wordIndex = @ + 1]
              [] OTHER -> Visit(child, inTable \/ child.name = "tbl", acc)
    IN  FoldLeft(Take, so, node.children)

CollectParagraphs(body) == Visit(body, FALSE, [found |-> <<>>, wordIndex |-> 0]).found

\* paragraphText(): what a reader sees.
RECURSIVE ParagraphText(_)
ParagraphText(node) ==
    LET TextIn(child) ==
            CASE child.name \in NonText \cup {"#text", "softHyphen"} -> <<>>
              [] child.name = "t" -> TextOf(child)
              [] child.name = "tab" -> <<"\t">>
              [] child.name \in {"br", "cr"} -> <<"\n">>
              [] child.name = "noBreakHyphen" -> <<"-">>
              [] child.name = "AlternateContent" ->
                     IF Branch(child) = None THEN <<>> ELSE ParagraphText(Branch(child))
              [] OTHER -> ParagraphText(child)
    IN  FoldLeft(LAMBDA text, child : text \o TextIn(child), <<>>, node.children)

\* pushHeading(): a heading ends those of its level and deeper; skipped levels
\* are empty.
PushHeading(stack, level, text) ==
    Append([l \in 1..(level - 1) |-> IF l <= Len(stack) THEN stack[l] ELSE <<>>], text)

Entry(styles, headings, found, position) ==
    LET properties == ChildNamed(found.node, "pPr")
        style == Attr(ChildNamed(properties, "pStyle"), "val")
        direct == OutlineOf(properties)
        level == IF direct # None THEN LevelFromOutline(direct)
                 ELSE IF style \in DOMAIN styles THEN styles[style] ELSE None
        text == ParagraphText(found.node)
    IN  [index |-> position, wordIndex |-> found.wordIndex, text |-> text,
         headingLevel |-> level, inTable |-> found.inTable,
         headingPath |-> IF level = None THEN headings
                         ELSE SubSeq(headings, 1, IF level - 1 < Len(headings)
                                                  THEN level - 1 ELSE Len(headings))]

Addressed(entries, entry) ==
    entry @@ [address |-> Append(Key(entry),
                  1 + Cardinality({e \in ToSet(entries) : Key(e) = Key(entry)}))]

\* All paragraphs of a document, in order, with their addresses.
WithEntry(acc, entry) ==
    [entries |-> Append(acc.entries, Addressed(acc.entries, entry)),
     headings |-> IF entry.headingLevel = None THEN acc.headings
                  ELSE PushHeading(acc.headings, entry.headingLevel, NormalizeText(entry.text))]

Paragraphs(root) ==
    LET styles == ResolveStyles(root)
        Take(acc, found) ==
            WithEntry(acc, Entry(styles, acc.headings, found, Len(acc.entries) + 1))
    IN  FoldLeft(Take, [entries |-> <<>>, headings |-> <<>>],
                 CollectParagraphs(FindFirst(root, "body"))).entries

\* The page of a map: limit 0 is all of it.
PageOf(entries, limit, offset) ==
    LET last == IF limit = 0 THEN Len(entries) ELSE Min({Len(entries), offset + limit})
    IN  [paragraphCount |-> Len(entries),
         paragraphs |-> SubSeq(entries, offset + 1, last),
         truncated |-> limit # 0 /\ offset + limit < Len(entries)]

\* buildStructureMap(); None stands for the errors it throws.
MapOf(root, limit, offset) ==
    IF root = Refused \/ FindFirst(root, "body") = None THEN None
    ELSE PageOf(Paragraphs(root), limit, offset)

BuildStructureMap(tokens, limit, offset) == MapOf(ParseXml(tokens), limit, offset)
-----------------------------------------------------------------------------
(* The outline.                                                            *)

\* extractOutlineEntries().
ExtractOutlineEntries(tokens, limit) ==
    LET map == BuildStructureMap(tokens, 0, 0)
        headings == SelectSeq(map.paragraphs, LAMBDA p : p.headingLevel # None)
    IN  IF map = None THEN None
        ELSE SubSeq(headings, 1, IF limit < Len(headings) THEN limit ELSE Len(headings))

\* resolveOutlineEntries(): the positions Word gave, joined by word index.
ResolveOutlineEntries(entries, positions) ==
    LET At(index) == {p \in ToSet(positions) : p.wordIndex = index}
    IN  IF \/ Cardinality({p.wordIndex : p \in ToSet(positions)}) # Len(positions)
           \/ \E i \in DOMAIN entries : At(entries[i].wordIndex) = {}
        THEN None
        ELSE [i \in DOMAIN entries |->
                 [level |-> entries[i].headingLevel, text |-> entries[i].text,
                  page |-> (CHOOSE p \in At(entries[i].wordIndex) : TRUE).page]]
=============================================================================
