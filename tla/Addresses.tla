------------------------------ MODULE Addresses ------------------------------
(***************************************************************************)
(* The names paragraphs are given (mintAddress() of                        *)
(* src/word/structure-map.mjs) and the outline level of body text.  An     *)
(* address is what is hashed: the joined path, the text and the occurrence.*)
(***************************************************************************)
EXTENDS Texts

BodyTextLevel == 9      \* BODY_TEXT_OUTLINE_LEVEL
Separator == "|"        \* what joins a heading path

Joined(path) ==
    FoldLeft(LAMBDA s, i : IF i = 1 THEN path[1] ELSE s \o <<Separator>> \o path[i],
             <<>>, [i \in DOMAIN path |-> i])

\* mintAddress(), of the n-th paragraph with this path and text.
Key(entry) == <<Joined([l \in DOMAIN entry.headingPath |-> NormalizeText(entry.headingPath[l])]),
                NormalizeText(entry.text)>>
=============================================================================
