------------------------------- MODULE MCPdfView -------------------------------
(* Model checking of PdfView: a narrow panel that clamps, a wide one whose  *)
(* page is fitted differently by its height, and one that is not laid out.  *)
EXTENDS PdfView

SomePanels == {[width |-> 1, height |-> 2], [width |-> 3, height |-> 1],
               [width |-> 0, height |-> 0]}

\* Text that is found on the page before the reported one only.
SomeRecords == {[page |-> 2, on |-> {1}]}
=============================================================================
