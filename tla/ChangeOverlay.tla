---------------------------- MODULE ChangeOverlay ----------------------------
(***************************************************************************)
(* The record of the last change (src/change-record.mjs) and where on a    *)
(* page it is (src/ui/locate-text.mjs).  A page is a sequence of text      *)
(* items [str, hasEOL], as pdf.js extracts them.                           *)
(***************************************************************************)
EXTENDS Texts

CONSTANT MinPartialChars    \* MIN_PARTIAL_CHARS

LongestOf(lengths) == CHOOSE n \in lengths : \A m \in lengths : m <= n

\* changedSpan(): what is between the common prefix and the common suffix, without
\* the spaces at its edges, widened to whole words.
ChangedSpan(previous, next) ==
    LET Smaller(a, b) == IF a < b THEN a ELSE b
        prefix == LongestOf({n \in 0..Smaller(Len(previous), Len(next)) :
                                SubSeq(previous, 1, n) = SubSeq(next, 1, n)})
        suffix == LongestOf({n \in 0..Smaller(Len(previous), Len(next) - prefix) :
                                SubSeq(previous, Len(previous) - n + 1, Len(previous))
                                    = SubSeq(next, Len(next) - n + 1, Len(next))})
        raw == (prefix + 1)..(Len(next) - suffix)
        solid == {k \in raw : next[k] # " "}
        inner == IF solid = {} THEN raw ELSE solid
        from == Max({0} \cup {k \in 1..(Min(inner) - 1) : next[k] = " "}) + 1
        to == Min({Len(next) + 1} \cup {k \in (Max(inner) + 1)..Len(next) : next[k] = " "}) - 1
    IN  IF \/ previous = <<>> \/ next = <<>> \/ previous = next
           \/ raw = {}
           \/ SubSeq(next, from, to) = next
        THEN None
        ELSE SubSeq(next, from, to)

\* changeRecordFrom(): text is of the paragraph that was touched, None if there is
\* none; previous is what it said before, None if the operation did not touch it.
ChangeRecordFrom(op, text, previous) ==
    LET next == IF text = None THEN <<>> ELSE NormalizeText(text)
        locatable == op # "delete_paragraph" /\ next # <<>>
    IN  [locatable |-> locatable,
         text |-> IF locatable THEN next ELSE None,
         span |-> IF locatable /\ previous # None
                  THEN ChangedSpan(NormalizeText(previous), next) ELSE None]
-----------------------------------------------------------------------------
\* buildPageText(): the text of a page, each character with the item it is from.
BuildPageText(items) ==
    LET Push(page, char, owner) ==
            IF char = " " /\ (page = <<>> \/ Last(page).char = " ") THEN page
            ELSE Append(page, [char |-> char, owner |-> owner])
        Take(page, i) ==
            LET line == items[i].str \o IF items[i].hasEOL THEN <<" ">> ELSE <<>>
            IN  FoldLeft(LAMBDA p, char : Push(p, IF char \in Whitespace THEN " " ELSE char, i),
                         page, line)
        all == FoldLeft(Take, <<>>, [i \in DOMAIN items |-> i])
    IN  IF all # <<>> /\ Last(all).char = " " THEN Front(all) ELSE all

FindOccurrences(haystack, needle) ==
    IF needle = <<>> THEN {}
    ELSE {at \in 1..(Len(haystack) - Len(needle) + 1) :
             SubSeq(haystack, at, at + Len(needle) - 1) = needle}

\* A match: length characters of the page from start are those of the paragraph
\* from fragment.
Found(status, page, start, fragment, length) ==
    [status |-> status, narrowed |-> FALSE, fragment |-> fragment, length |-> length,
     first |-> page[start].owner, last |-> page[start + length - 1].owner]

\* Mutant: only the part of the paragraph on this page is searched.
SpanHitsHere(found, needle, span) ==
    {at \in FindOccurrences(needle, span) :
        at >= found.fragment /\ at + Len(span) <= found.fragment + found.length}
\* Where a span is in the paragraph.
SpanHits(found, needle, span) == FindOccurrences(needle, span)

\* The range of a match moved to a span of it, if the span is there once in the
\* whole paragraph and in the part of it that this page holds.
Narrow(found, page, start, needle, span) ==
    LET hits == SpanHits(found, needle, span)
        at == CHOOSE hit \in hits : TRUE
        moved == start + at - found.fragment
    IN  IF \/ span = None
           \/ span = SubSeq(needle, found.fragment, found.fragment + found.length - 1)
           \/ Cardinality(hits) # 1
           \/ at < found.fragment
           \/ at + Len(span) > found.fragment + found.length
        THEN found
        ELSE [found EXCEPT !.narrowed = TRUE, !.first = page[moved].owner,
                           !.last = page[moved + Len(span) - 1].owner]

Nowhere(status) == [status |-> status, narrowed |-> FALSE]

\* locateText(): once is located, more often is ambiguous; failing that, the
\* longest end of the paragraph at an edge of the page.
LocateText(items, target, span) ==
    LET needle == NormalizeText(target)
        page == BuildPageText(items)
        text == [k \in DOMAIN page |-> page[k].char]
        hits == FindOccurrences(text, needle)
        IsTail(n) == IsPrefix(SubSeq(needle, Len(needle) - n + 1, Len(needle)), text)
        IsHead(n) == IsSuffix(SubSeq(needle, 1, n), text)
        ends == {n \in MinPartialChars..(Len(needle) - 1) :
                    n <= Len(text) /\ (IsTail(n) \/ IsHead(n))}
        length == LongestOf(ends)
        Placed(status, start, fragment, n) ==
            Narrow(Found(status, page, start, fragment, n), page, start, needle, span)
    IN  IF needle = <<>> THEN Nowhere("empty")
        ELSE IF Cardinality(hits) = 1
        THEN Placed("located", CHOOSE hit \in hits : TRUE, 1, Len(needle))
        ELSE IF hits # {} THEN Nowhere("ambiguous")
        ELSE IF ends = {} THEN Nowhere("not_found")
        ELSE IF IsTail(length) THEN Placed("partial", 1, Len(needle) - length + 1, length)
        ELSE Placed("partial", Len(text) - length + 1, 1, length)
=============================================================================
