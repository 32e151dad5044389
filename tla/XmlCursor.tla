------------------------------- MODULE XmlCursor -------------------------------
(***************************************************************************)
(* Row and column of a node: TiXmlParsingData::Stamp moves its cursor from *)
(* where it was stamped last.  A text is a sequence of bytes: line breaks, *)
(* tabs, "c" for other ASCII, "lead" for the first byte of a character of  *)
(* two, "ef" for 0xEF, the first of three, "bb" and "bf" for bytes that    *)
(* follow.  0xEF 0xBB 0xBF and 0xEF 0xBF 0xBF are taken for marks of no    *)
(* width; the legacy encoding knows only bytes.                            *)
(***************************************************************************)
EXTENDS Naturals, Sequences, FiniteSets

CONSTANT TabSize

VARIABLES
  chars,       \* the text
  encoding,    \* "utf8" or "legacy"
  stamp,       \* bytes before the place of the last stamp
  cursor,      \* [row, col] there
  hung         \* Stamp does not come back

cursorVars == <<chars, encoding, stamp, cursor, hung>>

At(i) == IF i \in DOMAIN chars THEN chars[i] ELSE "end"

\* The mark of no width that begins at byte i.
Mark(i) == At(i) = "ef" /\ At(i + 1) \in {"bb", "bf"} /\ At(i + 2) = "bf"

\* One character, or a line break of one or two.  A character is not looked at any
\* further than its first byte says, and may reach past the end of the text.
Advance(c, two) ==
  LET ch == At(c.at + 1)
  IN  CASE ch \in {"\r", "\n"} -> [at |-> c.at + (IF two THEN 2 ELSE 1), row |-> c.row + 1, col |-> 0]
        [] ch = "\t" -> [c EXCEPT !.at = @ + 1, !.col = (@ \div TabSize + 1) * TabSize]
        [] encoding = "utf8" /\ ch = "lead" -> [c EXCEPT !.at = @ + 2, !.col = @ + 1]
        [] encoding = "utf8" /\ ch = "ef" ->
             [c EXCEPT !.at = @ + 3, !.col = @ + (IF Mark(c.at + 1) THEN 0 ELSE 1)]
        [] OTHER -> [c EXCEPT !.at = @ + 1, !.col = @ + 1]

Double(i) == <<At(i), At(i + 1)>> \in {<<"\r", "\n">>, <<"\n", "\r">>}

\* Variant: the second half of a line break is looked at only before `now'.
MoveWithin(c, now) == Advance(c, c.at + 2 <= now /\ Double(c.at + 1))

Move(c, now) == Advance(c, Double(c.at + 1))

\* Fewer than two bytes follow 0xEF: the code does not move at all.
Stuck(c) == encoding = "utf8" /\ At(c.at + 1) = "ef" /\ c.at + 3 > Len(chars)

RECURSIVE Moved(_, _)
Moved(c, now) == IF c.at >= now \/ Stuck(c) THEN c ELSE Moved(Move(c, now), now)

StartCursor(text) ==
  chars = text /\ stamp = 0 /\ cursor = [row |-> 0, col |-> 0] /\ hung = FALSE

Stamp(now) ==
  /\ TabSize > 0 /\ ~ hung
  /\ LET c == Moved([at |-> stamp, row |-> cursor.row, col |-> cursor.col], now) IN
       IF c.at < now
       THEN hung' = TRUE /\ UNCHANGED <<stamp, cursor>>
       ELSE stamp' = c.at /\ cursor' = [row |-> c.row, col |-> c.col] /\ UNCHANGED hung
  /\ UNCHANGED <<chars, encoding>>

-----------------------------------------------------------------------------
(* Correctness. *)

\* Every character has the bytes its first one announces, and no others are there.
Tails == {"bb", "bf"}
WellFormed ==
  \A i \in DOMAIN chars :
    /\ chars[i] \in {"lead", "ef"} => At(i + 1) \in Tails
    /\ chars[i] = "ef" => At(i + 2) \in Tails
    /\ chars[i] \in Tails =>
         At(i - 1) \in {"lead", "ef"} \/ (At(i - 1) \in Tails /\ At(i - 2) = "ef")

\* The line breaks that start among the first bytes, and where the last one ends.
Breaks(n) ==
  LET end[i \in 0 .. n] ==
        IF i = 0 THEN [rows |-> 0, last |-> 0]
        ELSE IF i <= end[i - 1].last \/ At(i) \notin {"\r", "\n"} THEN end[i - 1]
        ELSE [rows |-> end[i - 1].rows + 1,
              last |-> IF At(i + 1) \in {"\r", "\n"} \ {At(i)} THEN i + 1 ELSE i]
  IN  end[n]

\* The columns from one byte to another: characters that are no marks, or bytes.
Columns(from, to) ==
  Cardinality({i \in from .. to :
    encoding = "utf8" => chars[i] \notin Tails /\ ~ Mark(i)})

\* The row is that of the lines, a line break being one of two bytes when they
\* differ, and the column counts the characters from the last one; wherever the
\* parser stamped before, between the two bytes of a line break or inside a
\* character.
CursorCountsLines ==
  WellFormed \/ encoding = "legacy" =>
    LET b == Breaks(stamp)
        line == b.last + 1 .. stamp
    IN  /\ ~ hung
        /\ cursor.row = b.rows
        /\ (\A i \in line : chars[i] # "\t") => cursor.col = Columns(b.last + 1, stamp)
        /\ At(stamp) = "\t" => cursor.col % TabSize = 0 /\ cursor.col > 0

-----------------------------------------------------------------------------
(* What a comment says, and the code does not do. *)

\* Bytes that are not UTF-8 are passed through (tinyxmlparser.cpp:55-56): Stamp
\* comes back whatever the text holds.
BadBytesPass == ~ hung
===============================================================================
