-------------------------------- MODULE Texts --------------------------------
(***************************************************************************)
(* Texts, as sequences of characters, and what every part of the system    *)
(* that compares them does first.                                          *)
(***************************************************************************)
EXTENDS Integers, Sequences, FiniteSets, SequencesExt

CONSTANT None

Breaks == {"\n"}                \* any character that ends a line or a paragraph
Whitespace == Breaks \cup {" ", "\t"}

Solid(text) == SelectSeq(text, LAMBDA char : char \notin Whitespace)

\* normalizeText(): inner whitespace becomes one space, the rest goes.
NormalizeText(text) ==
    LET IsSolid(i) == text[i] \notin Whitespace
        kept == {i \in DOMAIN text :
                    IsSolid(i) \/ (/\ i > 1 /\ IsSolid(i - 1)
                                   /\ \E j \in i..Len(text) : IsSolid(j))}
    IN  FoldLeft(LAMBDA s, i : IF i \notin kept THEN s
                               ELSE Append(s, IF IsSolid(i) THEN text[i] ELSE " "),
                 <<>>, [i \in DOMAIN text |-> i])
=============================================================================
