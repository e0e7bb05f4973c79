-------------------------------- MODULE Ooxml --------------------------------
(***************************************************************************)
(* The markup parser (src/word/ooxml.mjs), over the tokens a document's    *)
(* XML consists of.  Names are local names, attributes are a function, a   *)
(* text is a sequence of characters.  A tag without an end is the token    *)
(* "cut"; comments and processing instructions are "skip".                 *)
(***************************************************************************)
EXTENDS Texts

Open(name, attrs) == [t |-> "open", name |-> name, attrs |-> attrs, text |-> <<>>]
Empty(name, attrs) == [t |-> "empty", name |-> name, attrs |-> attrs, text |-> <<>>]
Close(name) == [t |-> "close", name |-> name, attrs |-> <<>>, text |-> <<>>]
Text(text) == [t |-> "text", name |-> "#text", attrs |-> <<>>, text |-> text]
Cut == [t |-> "cut", name |-> "", attrs |-> <<>>, text |-> <<>>]

Node(name, attrs, text) ==
    [name |-> name, attrs |-> attrs, text |-> text, children |-> <<>>]

Refused == Node("#refused", <<>>, <<>>)

\* The stack with a node added under its top, and with its top closed.
Added(stack, node) == [stack EXCEPT ![Len(stack)].children = Append(@, node)]
Popped(stack) == Added(Front(stack), Last(stack))

\* A closing tag unwinds to the element it names; one that names none is ignored.
Unwound(stack, name) ==
    LET depths == {d \in 2..Len(stack) : stack[d].name = name}
    IN  IF depths = {} THEN stack
        ELSE LET depth == CHOOSE d \in depths : \A e \in depths : e <= d
             IN  FoldLeft(LAMBDA s, d : Popped(s), stack,
                          [d \in 1..(Len(stack) - depth + 1) |-> d])

\* What a token does to the stack of open elements.
Applied(stack, token) ==
    CASE token.t = "open" -> Append(stack, Node(token.name, token.attrs, <<>>))
      [] token.t \in {"empty", "text"} ->
             Added(stack, Node(token.name, token.attrs, token.text))
      [] token.t = "close" -> Unwound(stack, token.name)
      [] OTHER -> stack

\* All tokens in turn, by halves.
RECURSIVE AllApplied(_, _)
AllApplied(stack, tokens) ==
    IF Len(tokens) = 1 THEN Applied(stack, tokens[1])
    ELSE LET half == Len(tokens) \div 2
             now == AllApplied(stack, SubSeq(tokens, 1, half))
         IN  IF now = <<>> THEN now ELSE AllApplied(now, SubSeq(tokens, half + 1, Len(tokens)))

\* parseXml(): the root is at the bottom of the stack.  A cut tag is an error, and so
\* is an element that is still open.
ParseXml(tokens) ==
    LET stack == AllApplied(<<Node("#document", <<>>, <<>>)>>, tokens)
    IN  IF tokens = <<>> \/ Cut \in ToSet(tokens) THEN Refused
        ELSE IF Len(stack) # 1 THEN Refused
        ELSE stack[1]
-----------------------------------------------------------------------------
\* attr(), of a node that may be missing.
Attr(node, name) ==
    IF node = None THEN None
    ELSE IF name \in DOMAIN node.attrs THEN node.attrs[name] ELSE None

ChildrenNamed(node, name) == SelectSeq(node.children, LAMBDA c : c.name = name)

ChildNamed(node, name) ==
    IF node = None THEN None
    ELSE IF ChildrenNamed(node, name) = <<>> THEN None
    ELSE Head(ChildrenNamed(node, name))

\* findFirst(): the first of that name, depth first; None is no node.
RECURSIVE FindFirst(_, _)
FindFirst(node, name) ==
    IF node.name = name THEN node
    ELSE FoldLeft(LAMBDA found, c : IF found # None THEN found ELSE FindFirst(c, name),
                  None, node.children)

RECURSIVE TextOf(_)
TextOf(node) == FoldLeft(LAMBDA text, c : text \o TextOf(c), node.text, node.children)
=============================================================================
