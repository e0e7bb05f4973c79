---------------------------- MODULE DocumentTools ----------------------------
(***************************************************************************)
(* read_document, edit_document and create_document on one path, beside    *)
(* another program that writes there: the reader and the author            *)
(* (src/word/document-reader.mjs, document-author.mjs), the checks of the  *)
(* editor (document-editor.mjs) and the commands of the PowerShell host    *)
(* they end in.  What the editor does when the host fails is               *)
(* DocumentEditor.                                                         *)
(*                                                                         *)
(* Bytes are never written twice, so the number of a write is its token.   *)
(***************************************************************************)
EXTENDS WordDocument, Intents, ChangeOverlay

CONSTANTS
    Calls,
    ToolsOf,        \* call |-> the tools it may be a call of
    Documents,      \* what another program writes
    NewTexts, Levels,   \* fields of the requests that are tried
    Specs, Reads,   \* requests
    MapOfMarkup(_, _),  \* a page of the map built of the markup of a document
    OutlineOfMarkup(_), \* the outline built of it
    MaxWrites       \* bound: writes of another program

VARIABLES
    written,        \* every document that was written, with who wrote it
    file,           \* which of them is at the path, 0 if none
    host,           \* the call the host is at work for
    known,          \* the last map a caller was given
    step,           \* the step each call is at
    call            \* what each call knows

toolsVars == <<written, file, host, known, step, call>>
fileVars == <<written, file>>

Other == "other"
Damaged == None             \* what is at a path that Word cannot open

\* What may be asked of a paragraph, with the address still to be filled in.
Nobody == [address |-> <<>>, text |-> <<>>, inTable |-> FALSE]

Changes ==
    {Intent(request) : request \in
        {r \in {[op |-> op, address |-> Nobody.address]
                    @@ (IF text = None THEN <<>> ELSE [text |-> text])
                    @@ (IF level = None THEN <<>> ELSE [headingLevel |-> level]) :
                  op \in DOMAIN Operations,
                  text \in NewTexts \cup {None}, level \in Levels \cup {None}} : IsIntent(r)}}

\* Every document there can be at the path: those another program writes, those that
\* are created, and one edit of either, which is a bound.
AskedSpecs == {Blocks(request) : request \in {r \in Specs : IsSpec(r)}}
Unedited == Documents \cup {Authored(blocks) : blocks \in AskedSpecs}

AllDocuments ==
    Unedited \cup
    UNION {{Edited(doc, i, change) : i \in {j \in Counted(doc) : doc[j].what = "p"},
                                     change \in Changes} : doc \in Unedited}

\* The pages of a map that are asked for.
Everything == [limit |-> 0, offset |-> 0]
AskedPages == {ReadArgs(request) : request \in {r \in Reads : AreReadArgs(r)}}
Pagings == AskedPages \cup {Everything}

\* What is read of a document.
Maps == [doc \in AllDocuments |-> [paging \in Pagings |-> MapOfMarkup(doc, paging)]]
Outlines == [doc \in AllDocuments |-> OutlineOfMarkup(doc)]

\* Two calls are two writers, and what cannot be opened is no document.
ASSUME ToolsAssumption ==
    /\ {Other, None} \cap Calls = {} /\ Other # None
    /\ Damaged \notin AllDocuments

NewCall == [kind |-> "none", request |-> None, shown |-> None, current |-> 0,
            before |-> 0, markup |-> 0, writable |-> TRUE, tries |-> 0,
            retried |-> FALSE, target |-> None, touched |-> 0, back |-> FALSE,
            told |-> "none"]

Steps == {"idle", "file", "before", "fetch", "after", "edit",
          "exists", "create", "build", "look", "save", "clean", "verify", "done"}

ToolsInit ==
    /\ \E d \in Documents \cup {None} :
          IF d = None THEN written = <<>> /\ file = 0
          ELSE written = <<[doc |-> d, by |-> None]>> /\ file = 1
    /\ host = None
    /\ known = None
    /\ step = [c \in Calls |-> "idle"]
    /\ call = [c \in Calls |-> NewCall]

Writers == Calls \cup {Other, None}

ToolsTypeOK ==
    /\ written \in Seq([doc : AllDocuments \cup {Damaged}, by : Writers])
    /\ file \in 0..Len(written)
    /\ host \in Calls \cup {None}
    /\ step \in [Calls -> Steps]
    /\ \A c \in Calls :
          {call[c].current, call[c].before, call[c].markup} \subseteq 0..Len(written)

Goto(c, next) == step' = [step EXCEPT ![c] = next]
Put(doc, by) ==
    /\ written' = Append(written, [doc |-> doc, by |-> by])
    /\ file' = Len(written) + 1

\* A call is over; what it was told is kept.
Ends(c, told) ==
    /\ Goto(c, "done")
    /\ call' = [call EXCEPT ![c] = [NewCall EXCEPT !.kind = call[c].kind, !.told = told]]
-----------------------------------------------------------------------------
(* The tools are called.  The handlers validate before anything else.      *)

AskRead(c) ==
    /\ step[c] = "idle" /\ "read" \in ToolsOf[c]
    /\ \E page \in AskedPages :
          call' = [call EXCEPT ![c].kind = "read", ![c].request = page]
    /\ Goto(c, "before")
    /\ UNCHANGED <<fileVars, host, known>>

\* A caller names a paragraph it was shown, or an address that is nobody's.  Where Word
\* puts a paragraph that is inserted beside one in a cell is not modelled.
AskEdit(c) ==
    /\ step[c] = "idle" /\ "edit" \in ToolsOf[c] /\ known # None
    /\ \E entry \in ToSet(known.map.paragraphs) \cup {Nobody}, change \in Changes :
          /\ entry.inTable =>
                change.op \notin {"insert_paragraph_after", "insert_paragraph_before"}
          /\ call' = [call EXCEPT ![c].kind = "edit",
                                  ![c].request = [change EXCEPT !.address = entry.address],
                                  ![c].shown = entry.text, ![c].current = known.token]
    /\ Goto(c, "file")
    /\ UNCHANGED <<fileVars, host, known>>

AskCreate(c) ==
    /\ step[c] = "idle" /\ "create" \in ToolsOf[c]
    /\ \E blocks \in AskedSpecs :
          call' = [call EXCEPT ![c].kind = "create", ![c].request = blocks]
    /\ Goto(c, "exists")
    /\ UNCHANGED <<fileVars, host, known>>
-----------------------------------------------------------------------------
(* read(), for itself and for the other two.                               *)

\* An edit or a create that fails once its document is written says so.
Fails(c) == Ends(c, IF call[c].back THEN "unreadable" ELSE "failed")

\* stat() and #tokenOf(): a file is not there, or it is locked or forbidden.
TokenBefore(c) ==
    /\ step[c] = "before"
    /\ \/ Fails(c)
       \/ /\ file # 0
          /\ call' = [call EXCEPT ![c].before = file, ![c].retried = FALSE]
          /\ Goto(c, "fetch")
    /\ UNCHANGED <<fileVars, host, known>>

\* #fetchMarkup(): the host exports a copy; one failure of the host is retried.
Fetch(c) ==
    /\ step[c] = "fetch" /\ host = None
    /\ \/ Fails(c)
       \/ /\ ~call[c].retried
          /\ call' = [call EXCEPT ![c].retried = TRUE]
          /\ UNCHANGED step
       \/ /\ file # 0 /\ written[file].doc # Damaged
          /\ \E writable \in BOOLEAN :
                /\ writable \/ (call[c].kind = "edit" /\ ~call[c].back)
                /\ call' = [call EXCEPT ![c].markup = file, ![c].writable = writable]
          /\ Goto(c, "after")
    /\ UNCHANGED <<fileVars, host, known>>

\* What a read returns: a page of the map, which page it is, and the token.
Page(c) ==
    LET paging == IF call[c].kind = "read" THEN call[c].request ELSE Everything
    IN  [map |-> Maps[written[call[c].markup].doc][paging], paging |-> paging,
         token |-> call[c].before]

\* edit() with the document it was asked to change.
Resolve(c, page) ==
    LET targets == {p \in ToSet(page.map.paragraphs) : p.address = call[c].request.address}
    IN  IF page.token # call[c].current THEN Ends(c, "stale")
        ELSE IF ~call[c].writable THEN Ends(c, "locked")
        ELSE IF targets = {} THEN Ends(c, "address_not_found")
        ELSE /\ Goto(c, "edit")
             /\ call' = [call EXCEPT ![c].target = CHOOSE p \in targets : TRUE]

\* Mutant: a file that is there is that document.
StillThere(c) == file # 0
\* The document that was read is the one the token before it is of.
SameToken(c) == file = call[c].before

\* The token after the read: if it is another one, the read is done once more.
TokenAfter(c) ==
    /\ step[c] = "after"
    /\ \/ Fails(c) /\ UNCHANGED known
       \/ /\ file # 0 /\ ~SameToken(c)
          /\ IF call[c].tries = 0
             THEN /\ call' = [call EXCEPT ![c].tries = 1]
                  /\ Goto(c, "before")
             ELSE Fails(c)
          /\ UNCHANGED known
       \/ /\ file # 0 /\ SameToken(c)
          /\ IF call[c].kind = "edit" /\ ~call[c].back
             THEN Resolve(c, Page(c)) /\ UNCHANGED known
             ELSE /\ known' = Page(c)
                  /\ Ends(c, "done")
    /\ UNCHANGED <<fileVars, host>>
-----------------------------------------------------------------------------
(* edit_document.                                                          *)

\* #requireFile() and the token the caller cites.
EditChecks(c) ==
    /\ step[c] = "file"
    /\ \/ Fails(c)
       \/ /\ file # 0
          /\ IF file = call[c].current THEN Goto(c, "before") /\ UNCHANGED call
             ELSE Ends(c, "stale")
    /\ UNCHANGED <<fileVars, host, known>>

\* Which paragraph an operation leaves the host at, 0 if none.
Touched(op, n) ==
    CASE op = "delete_paragraph" -> 0
      [] op = "insert_paragraph_after" -> n + 1
      [] OTHER -> n

\* Word has the n-th paragraph at this element of the document.
Located(doc, n) == CHOOSE i \in Counted(doc) : WordIndex(doc, i) = n

\* Mutant: the position is enough.
IsInside(doc, target) == target.wordIndex \in DOMAIN WordTexts(doc)

IsAt(doc, target) ==
    /\ target.wordIndex \in DOMAIN WordTexts(doc)
    /\ NormalizeText(WordTexts(doc)[target.wordIndex]) = NormalizeText(target.text)

\* Cmd-Edit, which holds the file from open to save.  Word refuses to write at the
\* end of a row.  AllDocuments bounds how often a document is edited.
HostEdits(c) ==
    /\ step[c] = "edit" /\ host = None
    /\ \/ Ends(c, "failed") /\ UNCHANGED fileVars
       \/ /\ file # 0 /\ written[file].doc # Damaged
          /\ LET doc == written[file].doc
                 op == call[c].request.op
                 i == Located(doc, call[c].target.wordIndex)
                 new == Edited(doc, i, call[c].request)
             IN  IF ~IsAt(doc, call[c].target)
                 THEN Ends(c, "address_not_resolvable") /\ UNCHANGED fileVars
                 ELSE IF doc[i].what # "p" THEN Ends(c, "failed") /\ UNCHANGED fileVars
                 ELSE IF op = "delete_paragraph"
                         /\ Len(WordTexts(new)) # Len(WordTexts(doc)) - 1
                 THEN Ends(c, "no_effect") /\ UNCHANGED fileVars
                 ELSE /\ new \in AllDocuments
                      /\ Put(new, c)
                      /\ call' = [call EXCEPT ![c].back = TRUE, ![c].tries = 0,
                                     ![c].touched = Touched(op, call[c].target.wordIndex)]
                      /\ Goto(c, "before")
    /\ UNCHANGED <<host, known>>
-----------------------------------------------------------------------------
(* create_document.                                                        *)

\* isExistingFile().
Exists(c) ==
    /\ step[c] = "exists"
    /\ IF file # 0 THEN Ends(c, "file_exists") ELSE Goto(c, "create") /\ UNCHANGED call
    /\ UNCHANGED <<fileVars, host, known>>

\* Cmd-Create, up to the start of Word; the folder can be missing.
HostCreates(c) ==
    /\ step[c] = "create" /\ host = None
    /\ \/ file # 0 /\ Ends(c, "file_exists") /\ UNCHANGED host
       \/ file = 0 /\ Ends(c, "directory_not_found") /\ UNCHANGED host
       \/ file = 0 /\ Goto(c, "build") /\ host' = c /\ UNCHANGED call
    /\ UNCHANGED <<fileVars, known>>

HostBuilds(c) ==
    /\ step[c] = "build"
    /\ \E next \in {"look", "clean"} : Goto(c, next)
    /\ UNCHANGED <<fileVars, host, known, call>>

\* The check before the save; what it finds is left alone.
HostLooks(c) ==
    /\ step[c] = "look"
    /\ IF file # 0 THEN Ends(c, "file_exists") /\ host' = None
       ELSE Goto(c, "save") /\ UNCHANGED <<host, call>>
    /\ UNCHANGED <<fileVars, known>>

\* SaveAs2 writes the document, or throws before, in the middle of it or after.
HostSaves(c) ==
    /\ step[c] = "save"
    /\ \/ /\ Put(Authored(call[c].request), c)
          /\ Goto(c, "verify") /\ host' = None
       \/ /\ \E doc \in {Authored(call[c].request), Damaged} : Put(doc, c)
          /\ Goto(c, "clean") /\ UNCHANGED host
       \/ /\ Goto(c, "clean") /\ UNCHANGED <<fileVars, host>>
    /\ UNCHANGED <<known, call>>

\* Mutant: it does not look.
AlwaysClean(left) == "create_failed"
\* What the catch says when it has tried to remove the file.
CleanUpReport(left) == IF left = 0 THEN "create_failed" ELSE "left_behind"

HostCleansUp(c) ==
    /\ step[c] = "clean"
    /\ file' \in {0, file}
    /\ Ends(c, CleanUpReport(file'))
    /\ host' = None
    /\ UNCHANGED <<written, known>>

\* The host ends, or is ended by a timeout, while it creates.
HostDies(c) ==
    /\ host = c
    /\ Ends(c, "failed")
    /\ host' = None
    /\ UNCHANGED <<fileVars, known>>

\* create() looks for the file the host reported.
Verify(c) ==
    /\ step[c] = "verify"
    /\ IF file = 0 THEN Ends(c, "create_not_persisted")
       ELSE \/ Ends(c, "create_unverified")
            \/ /\ call' = [call EXCEPT ![c].back = TRUE]
               /\ Goto(c, "before")
    /\ UNCHANGED <<fileVars, host, known>>
-----------------------------------------------------------------------------
OtherWrites ==
    /\ Cardinality({i \in DOMAIN written : written[i].by = Other}) < MaxWrites
    /\ \E d \in Documents : Put(d, Other)
    /\ UNCHANGED <<host, known, step, call>>

OtherDeletes ==
    /\ file' = 0 /\ file # 0
    /\ UNCHANGED <<written, host, known, step, call>>

Asks(c) == AskRead(c) \/ AskEdit(c) \/ AskCreate(c)
Reading(c) == TokenBefore(c) \/ Fetch(c) \/ TokenAfter(c)
Editing(c) == EditChecks(c) \/ HostEdits(c)
Creating(c) ==
    \/ Exists(c) \/ Verify(c)
    \/ HostCreates(c) \/ HostBuilds(c) \/ HostLooks(c) \/ HostSaves(c)
    \/ HostCleansUp(c) \/ HostDies(c)

ToolsNext ==
    \/ \E c \in Calls : Asks(c) \/ Reading(c) \/ Editing(c) \/ Creating(c)
    \/ OtherWrites \/ OtherDeletes

ToolsSpec == ToolsInit /\ [][ToolsNext]_toolsVars
-----------------------------------------------------------------------------
(* Properties.                                                             *)

\* What a map must say, of every document there can be.
Descriptions == [doc \in AllDocuments |-> Description(doc)]

\* A page of a map says what that part of the document is, and the outline that is
\* joined to it by word indices is that of the document.
Describes(map, paging, doc) ==
    LET all == Descriptions[doc]
        IsShown(p) == p.index > paging.offset
                          /\ (paging.limit = 0 \/ p.index <= paging.offset + paging.limit)
        headings == SelectSeq(all, LAMBDA p : p.headingLevel # None)
    IN  /\ map.paragraphs = SelectSeq(all, IsShown)
        /\ map.paragraphCount = Len(all)
        /\ Outlines[doc] =
               [n \in DOMAIN headings |->
                   [level |-> headings[n].headingLevel, text |-> headings[n].text,
                    page |-> Mapped(doc)[headings[n].index]]]
        /\ map.truncated <=> \E p \in ToSet(all) : p.index > paging.offset + Len(map.paragraphs)

\* A map describes the document its token is the token of, whatever was written
\* while it was read, and so does the outline (read(), and buildStructureMap() and
\* extractOutlineEntries() against Description).
MapIsTheDocument ==
    [][known' # known =>
          Describes(known'.map, known'.paging, written[known'.token].doc)]_toolsVars

\* The text and the level of every paragraph Word counts.
Contents(doc) ==
    LET counted == InOrder(doc)
    IN  [n \in DOMAIN counted |-> [text |-> doc[counted[n]].text, level |-> Level(doc[counted[n]])]]

\* The contents before and after a change that was asked of the n-th paragraph: that
\* one is changed, in the way that was asked, and every other is as it was.
IsChanged(old, new, n, ask) ==
    LET level == IF ask.headingLevel = 0 THEN None ELSE ask.headingLevel
        IsNew(p) == p.text = ask.text /\ (ask.headingLevel # None => p.level = level)
    IN  CASE ask.op = "replace_text" ->
                new = ReplaceAt(old, n, [old[n] EXCEPT !.text = ask.text])
          [] ask.op = "set_heading_level" ->
                new = ReplaceAt(old, n, [old[n] EXCEPT !.level = level])
          [] ask.op = "delete_paragraph" -> new = RemoveAt(old, n)
          [] ask.op = "insert_paragraph_after" ->
                IsNew(new[n + 1]) /\ RemoveAt(new, n + 1) = old
          [] OTHER -> IsNew(new[n]) /\ RemoveAt(new, n) = old

\* An edit changes one paragraph, one with the text its caller was shown, and in
\* the way that was asked; every other paragraph is as it was.  Between the read
\* and the host another program can have written (Cmd-Edit).
EditHitsWhatWasRead ==
    [][\A c \in Calls :
          step[c] = "edit" /\ written' # written /\ Last(written').by = c =>
              LET old == Contents(written[file].doc)
                  new == Contents(Last(written').doc)
              IN  \E n \in DOMAIN old :
                     /\ NormalizeText(old[n].text) = NormalizeText(call[c].shown)
                     /\ IsChanged(old, new, n, call[c].request)]_toolsVars

\* What those two properties take from the data: every map describes its document, an
\* address has the text of its paragraph in it, and a change the host does not refuse
\* is the one that was asked for.
MapsDescribe ==
    \A doc \in AllDocuments, paging \in Pagings : Describes(Maps[doc][paging], paging, doc)

Shown == UNION {ToSet(Maps[doc][paging].paragraphs) : doc \in AllDocuments, paging \in Pagings}

AddressesName ==
    \A p \in Shown : p.address # Nobody.address /\ p.address[2] = NormalizeText(p.text)

ChangesAreAsAsked ==
    \A doc \in AllDocuments, change \in Changes : \A n \in DOMAIN WordTexts(doc) :
        LET i == Located(doc, n)
            new == Edited(doc, i, change)
        IN  /\ doc[i].what = "p"
            /\ change.op = "delete_paragraph"
                  => Len(WordTexts(new)) = Len(WordTexts(doc)) - 1
            => IsChanged(Contents(doc), Contents(new), n, change)

\* What a spec asks for: a table at the end leaves an empty paragraph behind it.
Wanted(blocks) ==
    LET Plain(text) == [text |-> text, level |-> None]
        Of(b) == CASE b.kind = "heading" -> <<[text |-> b.text, level |-> b.level]>>
                   [] b.kind = "paragraph" -> <<Plain(b.text)>>
                   [] b.kind = "list" -> [i \in DOMAIN b.items |-> Plain(b.items[i])]
                   [] b.kind = "table" ->
                          FlattenSeq([r \in DOMAIN b.rows |->
                              [i \in DOMAIN b.rows[r] |-> Plain(b.rows[r][i])]])
    IN  FlattenSeq([i \in DOMAIN blocks |-> Of(blocks[i])])
            \o (IF Last(blocks).kind = "table" THEN <<Plain(<<>>)>> ELSE <<>>)

\* A document that was created has every text of its spec, in order, at its level,
\* and no stray paragraph (the cursor of Add-SpecBlock).
CreatedAsAsked ==
    [][\A c \in Calls :
          step[c] = "save" /\ written' # written /\ Last(written').doc # Damaged =>
              LET doc == Last(written').doc
                  texts == [n \in DOMAIN Mapped(doc) |->
                               [text |-> doc[Mapped(doc)[n]].text, level |-> Level(doc[Mapped(doc)[n]])]]
              IN  Last(written').by = c => texts = Wanted(call[c].request)
       ]_toolsVars

\* What create_document says of the file is so: a call that is told that nothing
\* was left or that the name was taken has no file there, and one that is told not
\* to repeat the call has written its document (create() and the catch of Cmd-Create).
CreateReportsAreTrue ==
    \A c \in Calls : call[c].kind = "create" =>
        /\ call[c].told \in {"create_failed", "create_not_persisted", "file_exists",
                             "directory_not_found"}
              => file = 0 \/ written[file].by # c
        /\ call[c].told \in {"done", "unreadable"}
              => \E i \in DOMAIN written : written[i].by = c /\ written[i].doc # Damaged

\* The words of a document, each with the paragraph it is a word of.
Words(doc) ==
    LET Split(text) == FoldLeft(LAMBDA words, char :
                                   IF char = " " THEN Append(words, <<>>)
                                   ELSE Append(Front(words), Append(Last(words), char)),
                                <<<<>>>>, text)
        Of(n) == LET words == Split(NormalizeText(doc[Mapped(doc)[n]].text))
                 IN  [k \in DOMAIN words |-> [word |-> words[k],
                                              of |-> WordIndex(doc, Mapped(doc)[n])]]
    IN  SelectSeq(FlattenSeq([n \in DOMAIN Mapped(doc) |-> Of(n)]), LAMBDA w : w.word # <<>>)

\* A page of them, as items.
Items(words) ==
    [k \in DOMAIN words |->
        IF k % 2 = 1 THEN [str |-> words[k].word, hasEOL |-> TRUE]
        ELSE [str |-> Append(words[k].word, " "), hasEOL |-> FALSE]]

\* Some of them, as one text, and without the spaces.
Line(words, ks) ==
    FoldLeft(LAMBDA text, k : IF k \notin ks THEN text
                              ELSE IF text = <<>> THEN words[k].word
                              ELSE text \o <<" ">> \o words[k].word,
             <<>>, [k \in DOMAIN words |-> k])

\* The operations whose record keeps what the paragraph said before.
TouchTheAddressed == {"replace_text", "set_heading_level"}

Previous(c) == IF call[c].request.op \in TouchTheAddressed THEN call[c].target.text ELSE None

\* The record of an edit whose document was read back (edit() and changeRecordFrom()).
Record(c, page) ==
    LET touched == {p \in ToSet(page.map.paragraphs) : p.wordIndex = call[c].touched}
    IN  ChangeRecordFrom(call[c].request.op,
                         IF touched = {} THEN None ELSE (CHOOSE p \in touched : TRUE).text,
                         Previous(c))

\* Wherever a page breaks: on a page that has the paragraph, or the part of it that
\* was matched, the box is on that paragraph, and what a narrowed box leaves out of
\* it is what the paragraph said before (changedSpan() and locateText()).
BoxFits(c, record) ==
    record.locatable =>
        LET words == Words(written[call[c].before].doc)
            mine == {k \in DOMAIN words : words[k].of = call[c].touched}
            target == record.text
            Matches(found, here) ==
                /\ found.status \in {"located", "partial"}
                /\ found.fragment = IF Min(here) = Min(mine) THEN 1
                                    ELSE Len(target) - Len(Line(words, here)) + 1
                /\ found.length = Len(Line(words, here))
        IN  \A cut \in 0..Len(words) :
            \A page \in {1..cut, (cut + 1)..Len(words)} :
                LET from == IF page = {} THEN 0 ELSE Min(page) - 1
                    found == LocateText(Items(SubSeq(words, from + 1, from + Cardinality(page))),
                                        target, record.span)
                    here == mine \cap page
                    box == (from + found.first)..(from + found.last)
                    kept == Solid(Previous(c))
                IN  here # {} /\ Matches(found, here) =>
                        IF found.narrowed
                        THEN /\ box \subseteq here
                             /\ IsPrefix(Solid(Line(words, {k \in mine : k < Min(box)})), kept)
                             /\ IsSuffix(Solid(Line(words, {k \in mine : k > Max(box)})), kept)
                        ELSE box = here

BoxIsTheChange ==
    [][\A c \in Calls :
          call[c].kind = "edit" /\ call[c].back /\ call'[c].told = "done" =>
              BoxFits(c, Record(c, known'))]_toolsVars
=============================================================================
