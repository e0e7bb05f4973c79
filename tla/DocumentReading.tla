--------------------------- MODULE DocumentReading ---------------------------
(***************************************************************************)
(* What the tools make of a document: the markup Word writes for it, and   *)
(* the maps and the outline that are built of that (src/word/              *)
(* structure-map.mjs, outline-map.mjs).  DocumentTools takes the two as    *)
(* constants, so that its steps can be reasoned about without a parser.    *)
(***************************************************************************)
EXTENDS DocumentTools, StructureMap

Begin(names) == [i \in DOMAIN names |-> Open(names[i], <<>>)]
End(names) == [i \in DOMAIN names |-> Close(names[i])]
Valued(name, value) == IF value = None THEN <<>> ELSE <<Empty(name, [val |-> value])>>

\* A text box holds paragraphs that are not the document's.
TextBox ==
    LET content == <<"txbxContent", "p", "r", "t">>
    IN  Begin(<<"r", "AlternateContent", "Choice">> \o content) \o <<Text(<<"b">>)>>
            \o End(Reverse(<<"Choice">> \o content))
            \o Begin(<<"Fallback">> \o content) \o <<Text(<<"b">>)>>
            \o End(Reverse(<<"r", "AlternateContent", "Fallback">> \o content))

MarkupOf(e) ==
    CASE e.what = "p" ->
            Begin(<<"p", "pPr">>) \o Valued("pStyle", e.style)
                \o Valued("outlineLvl", e.outline) \o <<Close("pPr")>>
                \o (IF e.box THEN TextBox ELSE <<>>)
                \o Begin(<<"r", "t">>) \o <<Text(e.text)>> \o End(<<"t", "r", "p">>)
      [] e.what = "tbl(" -> Begin(<<"tbl">>)
      [] e.what = "tr(" -> Begin(<<"tr", "tc">>)
      [] e.what = "tr)" -> End(<<"tc", "tr">>)
      [] e.what = "tbl)" -> End(<<"tbl">>)
      [] e.what = "alt(" -> Begin(<<"AlternateContent", "Choice">>)
      [] e.what = "alt|" -> End(<<"Choice">>) \o Begin(<<"Fallback">>)
      [] e.what = "alt)" -> End(<<"Fallback", "AlternateContent">>)

StyleMarkup(id) ==
    <<Open("style", [styleId |-> id])>> \o Valued("name", Styles[id].name)
        \o Valued("basedOn", Styles[id].basedOn) \o Begin(<<"pPr">>)
        \o Valued("outlineLvl", Styles[id].outline) \o End(<<"pPr", "style">>)

Markup(doc) ==
    Begin(<<"package", "styles">>)
        \o FoldSet(LAMBDA id, tokens : StyleMarkup(id) \o tokens, <<>>, DOMAIN Styles)
        \o <<Close("styles")>> \o Begin(<<"body">>)
        \o FlattenSeq([i \in DOMAIN doc |-> MarkupOf(doc[i])])
        \o End(<<"body", "package">>)
-----------------------------------------------------------------------------
\* The outline, with the place of a paragraph in the document for its page: Word is
\* asked where the paragraphs with these indices are (Cmd-OutlinePositions).
Outline(doc) ==
    LET entries == ExtractOutlineEntries(Markup(doc), 2000)
    IN  ResolveOutlineEntries(entries,
            [n \in DOMAIN entries |->
                [wordIndex |-> entries[n].wordIndex, page |-> Located(doc, entries[n].wordIndex)]])

\* What read() has of a document: a page of the map that is built of its markup.
BuiltMap(doc, paging) == BuildStructureMap(Markup(doc), paging.limit, paging.offset)
=============================================================================
