--------------------------- MODULE MCDocumentTools ---------------------------
(* A call that reads or creates and one that edits or creates, documents   *)
(* with every construct the structure map tells apart, and requests that   *)
(* are and are not valid.                                                  *)
EXTENDS DocumentReading

CONSTANTS first, second

SomeTools == [c \in Calls |-> IF c = first THEN {"read", "create"} ELSE {"edit", "create"}]

\* h1 and h2 are built in; "s" says its level by its outline, "t" is based on it, and
\* "u" and "v" are based on each other.
SomeStyles ==
    [n |-> [name |-> 0, basedOn |-> None, outline |-> None],
     h1 |-> [name |-> 1, basedOn |-> "n", outline |-> 0],
     h2 |-> [name |-> 2, basedOn |-> "h1", outline |-> 1],
     s |-> [name |-> 0, basedOn |-> "n", outline |-> 2],
     t |-> [name |-> 0, basedOn |-> "s", outline |-> None],
     u |-> [name |-> 0, basedOn |-> "v", outline |-> None],
     v |-> [name |-> 0, basedOn |-> "u", outline |-> None]]

Plain(style, text) == Para(style, None, FALSE, text)

SomeDocuments ==
    { <<Plain("h1", <<"b">>), Mark("tbl("), Mark("tr("), Plain("n", <<"b">>), Mark("tr)"),
        Mark("tbl)"), Plain("n", <<"b">>), Plain("n", <<"a", " ", "b">>)>>,
      <<Plain("t", <<" ", "b", " ">>), Mark("alt("), Para("u", None, TRUE, <<"a">>), Mark("alt|"),
        Plain("n", <<"b">>), Mark("alt)"), Para("h2", 9, FALSE, <<"a">>), Para("n", 0, FALSE, <<"b">>)>> }

SomeTexts == { <<"b", " ", "a", " ", "b">>, <<"a", "\n", "b">>, <<"a", "a", "a", "a", "a", "a">> }
SomeLevels == {2, 10, Junk}

SomeSpecs ==
    LET Of(blocks) == [blocks |-> blocks]
        heading == [kind |-> "heading", level |-> 1, text |-> <<"a">>]
        table == [kind |-> "table", headerRow |-> TRUE, rows |-> << <<<<"a">>, <<"b">>>>, <<<<"b">>, <<"a">>>> >>]
        list == [kind |-> "list", items |-> << <<"a">>, <<"b">> >>]
    IN  { Of(<<heading, table>>), Of(<<table, list, [kind |-> "paragraph", text |-> <<"b">>]>>),
          Of(<<>>), Of(<<[heading EXCEPT !.level = 0]>>), Of(<<[kind |-> "list"]>>),
          Of(<<[table EXCEPT !.rows[2] = <<<<"a">>>>]>>), Of(<<list, Junk>>), Junk,
          [blocks |-> <<list>>, title |-> <<"a">>] }

SomeReads == { [offset |-> 0], [limit |-> 2, offset |-> 1], [limit |-> 0], [limit |-> Junk] }

\* The data of the properties, for these documents.
ASSUME DataAssumption == MapsDescribe /\ AddressesName /\ ChangesAreAsAsked
=============================================================================
