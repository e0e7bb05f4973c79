------------------------------- MODULE Intents -------------------------------
(***************************************************************************)
(* What a caller may ask for (src/word/edit-intent.mjs, create-intent.mjs  *)
(* and read-args.mjs).  A request is a record of the fields that were      *)
(* given; Junk is a value of the wrong type.  The validators throw at the  *)
(* first fault, before anything is touched, so each is the predicate its   *)
(* input must satisfy and the normal form of an input that does.           *)
(***************************************************************************)
EXTENDS Texts

CONSTANTS
    Junk,
    MaxTextLength,          \* MAX_TEXT_LENGTH
    MaxItems,               \* MAX_LIST_ITEMS, MAX_TABLE_ROWS, MAX_TABLE_COLUMNS
    MaxBlocks,              \* MAX_BLOCKS
    DefaultReadLimit,       \* DEFAULT_READ_LIMIT
    MaxReadLimit            \* MAX_READ_LIMIT

MaxHeadingLevel == 9

Given(request, field) == IF field \in DOMAIN request THEN request[field] ELSE None

\* requireText() and requireHeadingLevel(), of a value that was given.
IsText(value) ==
    value # Junk /\ Len(value) <= MaxTextLength /\ ToSet(value) \cap Breaks = {}

IsHeadingLevel(value) == value \in 0..MaxHeadingLevel
-----------------------------------------------------------------------------
(* Edit intents.                                                           *)

Operations ==
    [replace_text |-> [text |-> "required", headingLevel |-> "rejected"],
     insert_paragraph_after |-> [text |-> "required", headingLevel |-> "optional"],
     insert_paragraph_before |-> [text |-> "required", headingLevel |-> "optional"],
     delete_paragraph |-> [text |-> "rejected", headingLevel |-> "rejected"],
     set_heading_level |-> [text |-> "rejected", headingLevel |-> "required"]]

\* A field is what its operation requires, allows or refuses.
Meets(requirement, request, field) ==
    IF field \notin DOMAIN request THEN requirement # "required"
    ELSE /\ requirement # "rejected"
         /\ IF field = "text" THEN IsText(request.text) ELSE IsHeadingLevel(request.headingLevel)

\* validateIntent().
IsIntent(request) ==
    /\ request # Junk
    /\ Given(request, "op") \in DOMAIN Operations
    /\ DOMAIN request \subseteq {"op", "address", "text", "headingLevel"}
    /\ Given(request, "address") \notin {None, Junk}
    /\ LET shape == Operations[request.op]
       IN  /\ Meets(shape.text, request, "text")
           /\ Meets(shape.headingLevel, request, "headingLevel")

Intent(request) ==
    [field \in {"op", "address", "text", "headingLevel"} |-> Given(request, field)]
-----------------------------------------------------------------------------
(* Document specs.                                                         *)

BlockFields ==
    [heading |-> [required |-> {"level", "text"}, optional |-> {}],
     paragraph |-> [required |-> {"text"}, optional |-> {}],
     list |-> [required |-> {"items"}, optional |-> {"ordered"}],
     table |-> [required |-> {"rows"}, optional |-> {"headerRow"}]]

IsTexts(value, max) ==
    /\ value # Junk
    /\ Len(value) \in 1..max
    /\ \A i \in DOMAIN value : IsText(value[i])

IsFlag(block, field) == Given(block, field) \in {None, TRUE, FALSE}

\* normalizeBlock() and the checks it calls.
IsBlock(block) ==
    /\ block # Junk
    /\ Given(block, "kind") \in DOMAIN BlockFields
    /\ LET fields == BlockFields[block.kind]
       IN  /\ DOMAIN block \subseteq fields.required \cup fields.optional \cup {"kind"}
           /\ fields.required \subseteq DOMAIN block
    /\ CASE block.kind = "heading" -> block.level \in 1..MaxHeadingLevel /\ IsText(block.text)
         [] block.kind = "paragraph" -> IsText(block.text)
         [] block.kind = "list" -> IsTexts(block.items, MaxItems) /\ IsFlag(block, "ordered")
         [] block.kind = "table" ->
                /\ block.rows # Junk /\ Len(block.rows) \in 1..MaxItems
                /\ IsFlag(block, "headerRow")
                /\ \A r \in DOMAIN block.rows :
                      IsTexts(block.rows[r], MaxItems) /\ Len(block.rows[r]) = Len(block.rows[1])

\* The flags that change no paragraph are left out of the normal form.
Block(block) ==
    IF block.kind = "list"
    THEN [kind |-> "list", items |-> block.items, ordered |-> Given(block, "ordered") = TRUE]
    ELSE [field \in DOMAIN block \ {"headerRow"} |-> block[field]]

\* validateSpec().
IsSpec(request) ==
    /\ request # Junk
    /\ DOMAIN request \subseteq {"blocks"}
    /\ Given(request, "blocks") \notin {None, Junk}
    /\ Len(request.blocks) \in 1..MaxBlocks
    /\ \A i \in DOMAIN request.blocks : IsBlock(request.blocks[i])

Blocks(request) == [i \in DOMAIN request.blocks |-> Block(request.blocks[i])]
-----------------------------------------------------------------------------
(* Reads.                                                                  *)

\* normalizeReadArgs(): no preference is the default, a limit of 0 is refused.
AreReadArgs(request) ==
    /\ "limit" \in DOMAIN request => request.limit \in 1..MaxReadLimit
    /\ "offset" \in DOMAIN request => request.offset \in Nat

ReadArgs(request) ==
    [limit |-> IF "limit" \in DOMAIN request THEN request.limit ELSE DefaultReadLimit,
     offset |-> IF "offset" \in DOMAIN request THEN request.offset ELSE 0]
=============================================================================
