------------------------------ MODULE PdfText ------------------------------
(***************************************************************************)
(* What becomes of a text on the page of a summary: toPdfSafeText makes it *)
(* printable, then the loops of wrapText cut it into lines, one word - or  *)
(* one letter of a word longer than a line - at a step.                    *)
(*                                                                         *)
(* A character is one of a few that stand for their kinds.  A printable    *)
(* text has no line break left, so it is one paragraph for wrapText.  A line*)
(* is written with the positions of its characters in the text; Joint is   *)
(* the space put between two words.                                        *)
(***************************************************************************)
EXTENDS Naturals, Sequences

CONSTANTS Typed, MaxTyped,   \* characters of a form; how many a printable text has at most
          Widths,            \* widths of the columns
          WidthOf(_)         \* of a sequence of characters: TextMeasurer

VARIABLES
  safe,      \* the text, made printable
  width,     \* maxWidth
  step,      \* "typing", "words", "chopping" a word, "done"
  at,        \* the characters of safe up to this one are dealt with
  lines,     \* complete lines
  current    \* the line under way; the chunk, while a word is chopped

vars == <<safe, width, step, at, lines, current>>

Encodable == {"a", "m", " ", "-", ">", "?"}      \* WinAnsi
Controls == {"nl", "tab"}
Transliterations == [arrow |-> <<"-", ">">>, thin |-> <<" ">>, joiner |-> <<>>]
Accented == [amacron |-> "a"]                    \* letters that NFD takes apart

\* Any font; each column is wide enough for a letter.
TextAssumption ==
  /\ MaxTyped \in Nat
  /\ \A w \in Widths : WidthOf(<<>>) <= w /\ \A c \in Encodable : WidthOf(<<c>>) <= w

\* What toPdfSafeText prints of a character.
SafeCharacter(c) ==
  IF c \in Encodable THEN <<c>>
  ELSE IF c \in Controls THEN <<>>
  ELSE IF c \in DOMAIN Transliterations THEN Transliterations[c]
  ELSE IF c \in DOMAIN Accented THEN <<Accented[c]>>
  ELSE <<"?">>

-----------------------------------------------------------------------------
(* Words, and lines, of a printable text.                                  *)

Joint == 0

Positions(from, to) == [k \in 1..(to - from + 1) |-> from + k - 1]
Shown(text, line) == [j \in 1..Len(line) |-> IF line[j] = Joint THEN " " ELSE text[line[j]]]
Fits(text, maxWidth, line) == WidthOf(Shown(text, line)) <= maxWidth
Joined(line, word) == IF line = <<>> THEN word ELSE line \o <<Joint>> \o word

Solid(text, p) == text[p] # " "
Begins(text, p) == Solid(text, p) /\ (p > 1 => ~Solid(text, p - 1))
Ends(text, p) == Solid(text, p) /\ (p < Len(text) => ~Solid(text, p + 1))
IsWord(text, from, to) ==
  Begins(text, from) /\ Ends(text, to) /\ \A p \in from..to : Solid(text, p)
Skipped(text, from, to) == \A p \in from..to : ~Solid(text, p)

-----------------------------------------------------------------------------
Init == /\ safe = <<>> /\ width \in Widths /\ step = "typing"
        /\ at = 0 /\ lines = <<>> /\ current = <<>>

TypeCharacter ==
  /\ step = "typing"
  /\ \E c \in Typed : /\ Len(safe \o SafeCharacter(c)) <= MaxTyped
                      /\ safe' = safe \o SafeCharacter(c)
  /\ UNCHANGED <<width, step, at, lines, current>>

\* PdfWriter.text wraps the text; a column has some width.
Wrap == /\ step = "typing" /\ step' = "words"
        /\ UNCHANGED <<safe, width, at, lines, current>>

Flushed == IF current = <<>> THEN lines ELSE Append(lines, current)

\* The next word goes on the current line, or begins one, or has to be chopped.
PlaceWord ==
  /\ step = "words"
  /\ \E from \in (at + 1)..Len(safe) : \E to \in from..Len(safe) :
       LET word == Positions(from, to)
           candidate == Joined(current, word)
       IN
       /\ IsWord(safe, from, to) /\ Skipped(safe, at + 1, from - 1)
       /\ \/ /\ Fits(safe, width, candidate)
             /\ current' = candidate /\ at' = to
             /\ UNCHANGED <<lines, step>>
          \/ /\ ~Fits(safe, width, candidate) /\ Fits(safe, width, word)
             /\ lines' = Flushed /\ current' = word /\ at' = to
             /\ UNCHANGED step
          \/ /\ ~Fits(safe, width, candidate) /\ ~Fits(safe, width, word)
             /\ lines' = Flushed /\ current' = <<>> /\ at' = from - 1
             /\ step' = "chopping"
  /\ UNCHANGED <<safe, width>>

\* The next letter of a word that is too long goes on the chunk, or begins one.
Chop ==
  LET next == at + 1
      chunk == Append(current, next)
  IN
  /\ step = "chopping"
  /\ \/ Fits(safe, width, chunk) /\ current' = chunk /\ UNCHANGED lines
     \/ ~Fits(safe, width, chunk) /\ lines' = Flushed /\ current' = <<next>>
  /\ at' = next
  /\ step' = IF Ends(safe, next) THEN "words" ELSE "chopping"
  /\ UNCHANGED <<safe, width>>

\* After the last word; a text without words is an empty line.
LastLine ==
  /\ step = "words" /\ Skipped(safe, at + 1, Len(safe))
  /\ lines' = Append(lines, current) /\ current' = <<>> /\ step' = "done"
  /\ UNCHANGED <<safe, width, at>>

Next == TypeCharacter \/ Wrap \/ PlaceWord \/ Chop \/ LastLine

Spec == Init /\ [][Next]_vars
-----------------------------------------------------------------------------
(* Properties.                                                             *)

\* The fonts of a summary can print every character of a text, and a line has only
\* characters of the text and joints.
TypeOK == /\ safe \in Seq(Encodable) /\ width \in Widths
          /\ step \in {"typing", "words", "chopping", "done"}
          /\ at \in 0..Len(safe)
          /\ lines \in Seq(Seq(0..Len(safe))) /\ current \in Seq(0..Len(safe))

\* A line is broken before a word that would not fit behind it, or inside a word that
\* fits no line, before a letter that would not fit.
BrokenBefore(text, maxWidth, line, p) ==
  \E from, to \in 1..Len(text) :
    /\ IsWord(text, from, to) /\ p \in from..to /\ line # <<>>
    /\ IF p = from THEN ~Fits(text, maxWidth, Joined(line, Positions(from, to)))
       ELSE ~Fits(text, maxWidth, Append(line, p)) /\ ~Fits(text, maxWidth, Positions(from, to))

\* On a line the letters of a word are next to each other, and a word is behind the one
\* before it, after one space.
WordsApart(text, line) ==
  \A j \in 1..(Len(line) - 1) :
    \/ line[j] # Joint /\ line[j + 1] = line[j] + 1
    \/ line[j] = Joint /\ line[j + 1] # Joint /\ Begins(text, line[j + 1])
    \/ line[j] # Joint /\ line[j + 1] = Joint /\ j + 1 < Len(line) /\ Ends(text, line[j])

\* "Un debordement ne se verrait qu'a l'ouverture du fichier": whatever was typed, every
\* line fits the width; it is broken only where it has to be; and the letters of the
\* text are all on the lines, once and in their order, in the words they were typed in.
LinesHold ==
  /\ \A i \in 1..Len(lines) : Fits(safe, width, lines[i]) /\ WordsApart(safe, lines[i])
  /\ \A i \in 1..(Len(lines) - 1) :
       lines[i + 1] # <<>> /\ BrokenBefore(safe, width, lines[i], lines[i + 1][1])
  /\ \A i, k \in 1..Len(lines) : \A j \in 1..Len(lines[i]), l \in 1..Len(lines[k]) :
       /\ lines[i][j] # Joint /\ lines[k][l] # Joint
       /\ i < k \/ (i = k /\ j < l)
       => lines[i][j] < lines[k][l]
  /\ step = "done" =>
       \A p \in 1..Len(safe) :
         Solid(safe, p) <=> \E i \in 1..Len(lines) : \E j \in 1..Len(lines[i]) : lines[i][j] = p
=============================================================================
