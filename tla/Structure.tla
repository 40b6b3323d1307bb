------------------------------ MODULE Structure ------------------------------
(***************************************************************************)
(* build_structure of structure.py for one transcribed document: its pages *)
(* become one graph, a node for each line of text under the heading it     *)
(* stands below and a record for each symbol and table, and the graph is   *)
(* checked against the evidence before the manifest names it.  One action  *)
(* is one line, the end of a reading or of a page, or the check.           *)
(***************************************************************************)
EXTENDS Naturals, Sequences, FiniteSets

CONSTANTS
  SourceDocuments,  \* the inputs: transcribed documents, each a sequence of pages
  Headers           \* pages at which a repeated bare label is a running head

(* A line has its normalized text, the depth of the label printed before it    *)
(* (0: none), its place, whether it is the label only, and the kinds of        *)
(* symbols in it.  A page is ready, in review or failed; it has a route, its   *)
(* lines as read natively and by the OCR, and may look like a table.           *)
Kinds == {"equation", "unit", "unknown_unit", "abbreviation"}
SourceLine == [text : STRING, depth : Nat, place : Nat, bare : BOOLEAN, symbols : SUBSET Kinds]
SourcePage ==
  [route : {"native", "ocr", "mixed", "suspect", "none"}, native : Seq(SourceLine),
   ocr : Seq(SourceLine), tabular : BOOLEAN, state : {"ready", "needs_review", "failed"}]

\* Only where _classify asks for it does the OCR read a page, and only a page
\* without a native character is read by the OCR alone.
Routed(p) ==
  /\ p.ocr # <<>> => p.route \in {"ocr", "mixed", "suspect"}
  /\ p.route = "ocr" => \A i \in DOMAIN p.native : p.native[i].symbols = {}

StructureAssumption ==
  /\ Headers \in Nat \ {0}
  /\ \A d \in SourceDocuments : d \in Seq(SourcePage) /\ \A n \in DOMAIN d : Routed(d[n])

VARIABLES
  document,
  pageNo, reading, lineNo,  \* the next line
  cursor,     \* in the alternate lines of the page
  stack,      \* parent_stack: the last node at each depth
  nodes,      \* graph["nodes"]; a node's id is its source_order
  semantics,  \* formulas, tables, units and abbreviations
  fate        \* "building", "accepted", "published" or "refused"

graphing == <<document, pageNo, reading, lineNo, cursor, stack, nodes, semantics, fate>>

StructureInit ==
  /\ document \in SourceDocuments
  /\ pageNo = 1 /\ reading = "native" /\ lineNo = 1 /\ cursor = 1
  /\ stack = [d \in {} |-> 0]
  /\ nodes = <<>>
  /\ semantics = {}
  /\ fate = "building"

-----------------------------------------------------------------------------
\* Where a line is, and what is there.
Lines(n, r) == IF r = "native" THEN document[n].native ELSE document[n].ocr
Span(n, r, i) == [page |-> n, reading |-> r, line |-> i]
LineOf(s) == Lines(s.page, s.reading)[s.line]
Spans(n, r) == {Span(n, r, i) : i \in 1..Len(Lines(n, r))}
Blank(l) == l.text = "blank"
Copies(text, lines, k) == Cardinality({i \in 1..k : lines[i].text = text})

\* _page_lines: on a mixed page a line of the OCR is kept if the native text has not
\* so many of it.
FromOcr(n) == document[n].route \in {"ocr", "suspect"}
Kept(s) ==
  IF s.reading = "native" THEN ~FromOcr(s.page)
  ELSE \/ FromOcr(s.page)
       \/ /\ document[s.page].route = "mixed"
          /\ LET text == LineOf(s).text
                 native == document[s.page].native
             IN  Copies(text, document[s.page].ocr, s.line) > Copies(text, native, Len(native))
Canonical(n) == {s \in Spans(n, "native") \cup Spans(n, "ocr") : Kept(s)}
Alternate(n) == IF document[n].route = "suspect" THEN Spans(n, "native") ELSE {}
All(n) ==
  Canonical(n) \cup
    (IF document[n].route = "mixed" THEN Spans(n, "native") \cup Spans(n, "ocr") ELSE Alternate(n))

\* A label that stands alone, at one place on enough pages, is a running head
\* wherever it stands alone.
Printed(n, place, text) ==
  \E s \in Canonical(n) :
    LET l == LineOf(s) IN l.bare /\ l.depth > 0 /\ l.place = place /\ l.text = text
RunningHead(l) ==
  /\ l.bare
  /\ \E place \in {LineOf(s).place : s \in UNION {Canonical(n) : n \in DOMAIN document}} :
       Cardinality({n \in DOMAIN document : Printed(n, place, l.text)}) >= Headers
Depth(l) == IF RunningHead(l) THEN 0 ELSE l.depth

\* _node_parent, 0 at the root.
Largest(S) == CHOOSE d \in S : \A e \in S : e <= d
Parent(depth) ==
  LET above == {d \in DOMAIN stack : depth = 0 \/ d < depth}
  IN  IF above = {} THEN 0 ELSE stack[Largest(above)]

\* _align_alternate_lines: the next native line with the same text; 0 if there is none.
Least(S) == CHOOSE i \in S : \A j \in S : i <= j
AlternateOf(l) ==
  LET matches == {i \in 1..Len(document[pageNo].native) :
                    i >= cursor /\ document[pageNo].native[i].text = l.text}
  IN  IF document[pageNo].route # "suspect" \/ matches = {} THEN 0 ELSE Least(matches)

\* Seeded fault: a new heading leaves deeper headings of the section before it open.
PushKeeping(depth, id) ==
  [d \in DOMAIN stack \cup {depth} |-> IF d = depth THEN id ELSE stack[d]]

Push(depth, id) ==
  [d \in {e \in DOMAIN stack : e < depth} \cup {depth} |-> IF d = depth THEN id ELSE stack[d]]

Here == Span(pageNo, reading, lineNo)
AtLine ==
  /\ fate = "building"
  /\ pageNo <= Len(document) /\ lineNo <= Len(Lines(pageNo, reading))

PassLine ==
  /\ AtLine /\ ~Kept(Here)
  /\ lineNo' = lineNo + 1
  /\ UNCHANGED <<document, pageNo, reading, cursor, stack, nodes, semantics, fate>>

AddLine ==
  /\ AtLine /\ Kept(Here)
  /\ LET l == LineOf(Here)
         node == [span |-> Here, depth |-> Depth(l), parent |-> Parent(Depth(l)),
                  alternate |-> AlternateOf(l), ready |-> document[pageNo].state = "ready"]
     IN  /\ nodes' = IF Blank(l) THEN nodes ELSE Append(nodes, node)
         /\ stack' = IF Blank(l) \/ Depth(l) = 0 THEN stack ELSE Push(Depth(l), Len(nodes) + 1)
         /\ cursor' = IF AlternateOf(l) = 0 THEN cursor ELSE AlternateOf(l) + 1
  /\ lineNo' = lineNo + 1
  /\ UNCHANGED <<document, pageNo, reading, semantics, fate>>

EndReading ==
  /\ fate = "building"
  /\ pageNo <= Len(document) /\ reading = "native" /\ lineNo > Len(Lines(pageNo, reading))
  /\ reading' = "ocr" /\ lineNo' = 1
  /\ UNCHANGED <<document, pageNo, cursor, stack, nodes, semantics, fate>>

\* Symbols were looked for in both texts, whatever text the page is read from.
Symbols(n) ==
  UNION {{[kind |-> k, page |-> n, spans |-> {s}] : k \in LineOf(s).symbols}
           : s \in Spans(n, "native") \cup Spans(n, "ocr")}
Tables(n) ==
  IF document[n].tabular THEN {[kind |-> "table", page |-> n, spans |-> Canonical(n)]} ELSE {}

EndPage ==
  /\ fate = "building"
  /\ pageNo <= Len(document) /\ reading = "ocr" /\ lineNo > Len(Lines(pageNo, reading))
  /\ semantics' = semantics \cup Symbols(pageNo) \cup Tables(pageNo)
  /\ pageNo' = pageNo + 1
  /\ reading' = "native" /\ lineNo' = 1 /\ cursor' = 1
  /\ UNCHANGED <<document, stack, nodes, fate>>

-----------------------------------------------------------------------------
\* _validate_graph.  A node of one line of the canonical text of its page, in its
\* order; every line that is not blank has its node.
Precedes(s, t) ==
  \/ s.reading = "native" /\ t.reading = "ocr"
  \/ s.reading = t.reading /\ s.line < t.line
NodesFollowEvidence ==
  /\ \A i, j \in DOMAIN nodes :
       i < j /\ nodes[i].span.page = nodes[j].span.page => Precedes(nodes[i].span, nodes[j].span)
  /\ \A n \in DOMAIN document :
       {s \in {nodes[i].span : i \in DOMAIN nodes} : s.page = n}
         = {s \in Canonical(n) : ~Blank(LineOf(s))}
NodesInPageOrder == \A i, j \in DOMAIN nodes : i < j => nodes[i].span.page <= nodes[j].span.page
AlternatesAreEvidence ==
  \A i \in DOMAIN nodes :
    LET n == nodes[i].span.page
    IN  nodes[i].alternate # 0 => Span(n, "native", nodes[i].alternate) \in Alternate(n)
LinksAreATree == \A i \in DOMAIN nodes : nodes[i].parent # 0 => nodes[i].parent \in DOMAIN nodes \ {i}
AnchorsAreKnown == \A x \in semantics : x.spans # {} /\ x.spans \subseteq All(x.page)
RecordsFollowEvidence ==
  \A n \in DOMAIN document : {x \in semantics : x.page = n} = Symbols(n) \cup Tables(n)

Valid ==
  /\ NodesFollowEvidence /\ NodesInPageOrder /\ AlternatesAreEvidence
  /\ LinksAreATree /\ AnchorsAreKnown /\ RecordsFollowEvidence

Validate ==
  /\ fate = "building"
  /\ pageNo > Len(document)
  /\ fate' = IF Valid THEN "accepted" ELSE "refused"
  /\ UNCHANGED <<document, pageNo, reading, lineNo, cursor, stack, nodes, semantics>>

\* _structure_records of semantic_publish.py: what a person must look at, counted
\* against needs_review of the summary.
InReview == {n \in DOMAIN document : document[n].state # "ready"}
OfKind(kinds) == {x \in semantics : x.kind \in kinds}
NeedsReview == Cardinality(InReview) + Cardinality(OfKind({"equation", "table"}))
Deferred ==
  {[page |-> n, reason |-> "page"] : n \in InReview}
    \cup {[record |-> x, reason |-> x.kind] : x \in OfKind({"equation", "table", "unknown_unit"})}
Counted == {x \in Deferred : x.reason \in {"page", "equation", "table"}}

Publish ==
  /\ fate = "accepted"
  /\ fate' = IF Cardinality(Counted) = NeedsReview THEN "published" ELSE "refused"
  /\ UNCHANGED <<document, pageNo, reading, lineNo, cursor, stack, nodes, semantics>>

StructureNext == PassLine \/ AddLine \/ EndReading \/ EndPage \/ Validate \/ Publish

StructureSpec == StructureInit /\ [][StructureNext]_graphing

-----------------------------------------------------------------------------
(* The builder and the check agree on every document but one in which a page    *)
(* looks like a table and has no line of text.                                  *)
OnlyEmptyTablesAreRefused ==
  fate = "refused" => \E n \in DOMAIN document : document[n].tabular /\ Canonical(n) = {}

HeadingsBefore(i, depth) ==
  {j \in 1..(i - 1) : nodes[j].depth > 0 /\ (depth > 0 => nodes[j].depth < depth)}

(* The hierarchy is that of the printed labels, over page breaks and whatever   *)
(* levels are left out: a labelled line stands under the last heading before it *)
(* of a smaller depth, any other line under the last heading.                   *)
HeadingsNest ==
  \A i \in DOMAIN nodes :
    LET above == HeadingsBefore(i, nodes[i].depth)
    IN  nodes[i].parent = IF above = {} THEN 0 ELSE Largest(above)

NodesOf(n, text) ==
  {i \in DOMAIN nodes : nodes[i].span.page = n /\ LineOf(nodes[i].span).text = text}
InReading(n, r, text) == Copies(text, Lines(n, r), Len(Lines(n, r)))
Wanted(n, native, ocr) ==
  IF document[n].route = "mixed" THEN IF ocr > native THEN ocr ELSE native
  ELSE IF FromOcr(n) THEN ocr ELSE native

(* No text is lost or doubled where two readings of a page meet: on a mixed     *)
(* page each text has as many nodes as the reading that saw it more often, on   *)
(* every other page as many as the reading the page is taken from.              *)
EveryTextIsANode ==
  fate \in {"accepted", "published"} =>
    \A n \in DOMAIN document :
      \A text \in {LineOf(s).text : s \in Spans(n, "native") \cup Spans(n, "ocr")} :
        LET native == InReading(n, "native", text)
            ocr == InReading(n, "ocr", text)
        IN  Cardinality(NodesOf(n, text)) =
              IF text = "blank" THEN 0 ELSE Wanted(n, native, ocr)

(* A line of the native text is the alternate of one node at most, and the      *)
(* alternates of a page are in the order of the page.                           *)
AlternatesAreInOrder ==
  \A i, j \in DOMAIN nodes :
    /\ i < j /\ nodes[i].span.page = nodes[j].span.page
    /\ nodes[i].alternate # 0 /\ nodes[j].alternate # 0
    => nodes[i].alternate < nodes[j].alternate

(* The graph of a document is that of its pages: headings nest as printed, each *)
(* text is one node of the reading its page is taken from, alternates follow    *)
(* the page, and the check refuses nothing but a table without a line of text.  *)
GraphIsOfItsPages ==
  HeadingsNest /\ EveryTextIsANode /\ AlternatesAreInOrder /\ OnlyEmptyTablesAreRefused
=============================================================================
