---------------------------- MODULE SummaryPages ----------------------------
(***************************************************************************)
(* The pages of a summary: PdfWriter keeps a cursor, measured from the top *)
(* of a page, and opens a page when what comes next does not fit; PdfCanvas *)
(* draws titles, grids of fields and tables with it, and the template says  *)
(* in which order.  Lengths are in thousandths of a point.                  *)
(*                                                                         *)
(* A text counts by its lines (PdfText cuts them).  What the template has   *)
(* still to do is a sequence of instructions, one of them a step.           *)
(***************************************************************************)
EXTENDS Naturals, Sequences

CONSTANTS Descriptions,  \* numbers of lines a description may have
          FieldLines,    \* numbers of lines a pair of fields may have
          Tables,        \* tables of files: for each row its number of lines
          NoticeLines    \* lines of the legal notice

Top == 54000                     \* MARGIN.top
BottomLimit == 841890 - 62000    \* A4_HEIGHT - MARGIN.bottom
FooterTop == BottomLimit + 8000  \* the rule above the footer
Title == 19000
LineHeight == [heading |-> 16560, body |-> 13110, small |-> 11730]  \* size * 1.38

VARIABLES
  todo,     \* instructions of the template that are left
  page,     \* number of the page under the cursor
  cursorY,
  drawn,    \* what is on the pages, in the order it was drawn
  footers   \* footers[i]: what is printed at the foot of page i

vars == <<todo, page, cursorY, drawn, footers>>

-----------------------------------------------------------------------------
(* Instructions: to move down, to make sure of some space, and to draw.     *)

Instruction(op, what, need, height, after) ==
  [op |-> op, what |-> what, need |-> need, height |-> height, after |-> after]
MoveDown(amount) == Instruction("move", "space", 0, 0, amount)
EnsureSpace(need) == Instruction("ensure", "space", need, 0, 0)
Drawing(what, need, height, after) == Instruction("draw", what, need, height, after)

\* What a page holds: a name, an address or the name of a file has 255 characters at
\* most, a dozen lines of its column; descriptions and tables go over several pages.
SheetsAssumption ==
  /\ Descriptions \cup FieldLines \cup {NoticeLines} \subseteq Nat /\ Tables \subseteq Seq(Nat)
  /\ \A lines \in FieldLines :
       LineHeight.small + lines * LineHeight.body + 6000 <= BottomLimit - Top
  /\ \A rows \in Tables : \A i \in 1..Len(rows) :
       LineHeight.small + 8000 + rows[i] * LineHeight.body + 8000 <= BottomLimit - Top

Times(n, instruction) == [i \in 1..n |-> instruction]
TextLine(what, size) == Drawing(what, LineHeight[size], LineHeight[size], LineHeight[size])
Text(what, size, lines) == Times(lines, TextLine(what, size))

SectionTitle ==
  << MoveDown(10000),
     EnsureSpace(LineHeight.heading + 2 * LineHeight.body + 12000),
     MoveDown(8000), TextLine("title", "heading"), MoveDown(3000) >>

\* Mutation: the cursor moves by the height of the first column only.
FirstColumn(lines) ==
  LET height == LineHeight.small + lines * LineHeight.body
  IN Drawing("pair", height + 6000, height, LineHeight.small + LineHeight.body + 8000)

\* Two fields side by side, as tall as the taller one, kept together.
FieldPair(lines) ==
  LET height == LineHeight.small + lines * LineHeight.body
  IN Drawing("pair", height + 6000, height, height + 8000)

Banner == Drawing("banner", 34000, 26000, 36000)

HeaderHeight == LineHeight.small + 8000
Row(lines) ==
  LET height == lines * LineHeight.body + 8000
  IN Instruction("row", "row", height, height, height)

Table(rows) ==
  << Drawing("header", HeaderHeight + LineHeight.body + 10000, HeaderHeight, HeaderHeight) >>
  \o [i \in 1..Len(rows) |-> Row(rows[i])] \o << MoveDown(6000) >>

\* renderQuoteRequestSummary, under its header of so many rows.
Template(headerRows, urgent, fields, description, rows) ==
  << MoveDown(Title + 8000 + headerRows * 12325 + 14000), Banner >>
  \o (IF urgent THEN Text("line", "small", 1) \o <<MoveDown(4000)>> ELSE <<>>)
  \o SectionTitle \o Times(2, FieldPair(fields))
  \o SectionTitle \o Times(2, FieldPair(fields))
  \o SectionTitle \o Text("line", "body", description)
  \o SectionTitle \o (IF rows = <<>> THEN Text("line", "body", 1)
                      ELSE Table(rows) \o Text("line", "small", 2))
  \o SectionTitle \o Text("line", "small", NoticeLines)

-----------------------------------------------------------------------------
Init ==
  /\ \E headerRows \in {3, 4}, urgent \in BOOLEAN, fields \in FieldLines,
        description \in Descriptions, rows \in Tables :
       todo = Template(headerRows, urgent, fields, description, rows)
  /\ page = 1 /\ cursorY = Top /\ drawn = <<>> /\ footers = <<>>

Fits(need) == cursorY + need <= BottomLimit

\* Where the next thing goes: ensureSpace opens a page when it has to.
At(need) == IF Fits(need) THEN [page |-> page, top |-> cursorY] ELSE [page |-> page + 1, top |-> Top]

Put(place, what, height) == [what |-> what, page |-> place.page, top |-> place.top,
                             bottom |-> place.top + height]

Move ==
  /\ todo # <<>> /\ Head(todo).op = "move"
  /\ cursorY' = cursorY + Head(todo).after
  /\ todo' = Tail(todo)
  /\ UNCHANGED <<page, drawn, footers>>

Ensure ==
  LET place == At(Head(todo).need) IN
  /\ todo # <<>> /\ Head(todo).op = "ensure"
  /\ page' = place.page /\ cursorY' = place.top
  /\ todo' = Tail(todo)
  /\ UNCHANGED <<drawn, footers>>

Draw ==
  LET next == Head(todo)
      place == At(next.need)
  IN
  /\ todo # <<>> /\ next.op = "draw"
  /\ drawn' = Append(drawn, Put(place, next.what, next.height))
  /\ page' = place.page /\ cursorY' = place.top + next.after
  /\ todo' = Tail(todo)
  /\ UNCHANGED footers

\* A row that opens a page draws the header of the table again above it.
Repeated(place) == place.page # page

DrawRow ==
  LET next == Head(todo)
      place == At(next.need)
      under == [place EXCEPT !.top = @ + HeaderHeight]
  IN
  /\ todo # <<>> /\ next.op = "row"
  /\ IF Repeated(place)
     THEN /\ drawn' = drawn \o << Put(place, "header", HeaderHeight), Put(under, "row", next.height) >>
          /\ cursorY' = under.top + next.after
     ELSE /\ drawn' = Append(drawn, Put(place, "row", next.height))
          /\ cursorY' = place.top + next.after
  /\ page' = place.page
  /\ todo' = Tail(todo)
  /\ UNCHANGED footers

\* finish: the number of pages is known, and each page gets its footer.
StampFooters ==
  /\ todo = <<>> /\ footers = <<>>
  /\ footers' = [i \in 1..page |-> [number |-> i, total |-> page, top |-> FooterTop]]
  /\ UNCHANGED <<todo, page, cursorY, drawn>>

Next == Move \/ Ensure \/ Draw \/ DrawRow \/ StampFooters

Spec == Init /\ [][Next]_vars
-----------------------------------------------------------------------------
(* Properties.                                                             *)

Things == [what : {"line", "title", "pair", "banner", "header", "row"},
           page : Nat, top : Nat, bottom : Nat]

\* The cursor, and what is drawn, have their types.
TypeOK == /\ page \in Nat \ {0} /\ cursorY \in Nat
          /\ drawn \in Seq(Things)
          /\ footers \in Seq([number : Nat, total : Nat, top : Nat])

\* "Rien ne deborde en bas de page": whatever the lengths of the texts, everything is
\* drawn whole between the margins of a page, below what was drawn before it, or at
\* the top of the next page; a page with rows of the table shows its header above
\* them; and in the end no page is blank, and each has its footer under all the rest,
\* with the number of pages there are.
PagesAreReadable ==
  /\ \A i \in 1..Len(drawn) : Top <= drawn[i].top /\ drawn[i].bottom <= BottomLimit
  /\ \A i \in 1..(Len(drawn) - 1) :
       LET this == drawn[i]
           next == drawn[i + 1]
       IN /\ IF next.page = this.page THEN this.bottom <= next.top ELSE next.page = this.page + 1
          /\ next.what = "row" => this.what \in {"header", "row"} /\ this.page = next.page
  /\ footers # <<>> =>
       LET pages == {drawn[i].page : i \in 1..Len(drawn)} IN
       /\ pages = 1..Len(footers)
       /\ \A n \in pages : footers[n].number = n /\ footers[n].total = Len(footers)
       /\ \A i \in 1..Len(drawn) : drawn[i].bottom < footers[drawn[i].page].top
=============================================================================
