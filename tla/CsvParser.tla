------------------------------ MODULE CsvParser ------------------------------
(***************************************************************************)
(* The CSV parser (csv_parser.cpp), its cell buffer (stream_buffer.h) and  *)
(* the sink main() gives it (aurora_swpc.cpp), character by character.     *)
(*                                                                         *)
(* The body of the HTTP response reaches feed() one character at a time,   *)
(* in chunks of any size, so a document is the sequence of characters fed  *)
(* so far.  The input is arbitrary; it is well-formed CSV only sometimes.  *)
(* Of the characters, the parser tells the quote, the delimiter, the line  *)
(* end and all the others apart.                                           *)
(*                                                                         *)
(* Definitions whose comment starts with "Variant" are faulty forms of the *)
(* definition that follows them; they are not part of the specification    *)
(* and show that the properties below can tell the difference.             *)
(***************************************************************************)
EXTENDS Naturals, SequencesExt

CONSTANTS
  Chars,      \* the other characters
  Capacity,   \* size of the cell buffer, its terminating zero included
  Atoi(_),    \* the C library's atoi, of a sequence of characters
  MaxInput    \* bound on the characters fed

Quote == "quote"
Delimiter == "delimiter"
Newline == "newline"
Symbols == Chars \cup {Quote, Delimiter, Newline}

ASSUME InputAssumption ==
  /\ Chars \cap {Quote, Delimiter, Newline} = {}
  /\ Capacity \in Nat \ {0}
  /\ MaxInput \in Nat

VARIABLES
  expect,   \* the parser's state
  value,    \* characters in the cell buffer
  row,
  column,
  cells,    \* the cells given to the sink so far
  level,    \* the sink's aurora_level
  input     \* the characters fed so far

parser == <<expect, value, row, column, cells, level>>
vars == <<parser, input>>
-----------------------------------------------------------------------------
Init ==
  /\ expect = "value"
  /\ value = <<>>
  /\ row = 0
  /\ column = 0
  /\ cells = <<>>
  /\ level = 0
  /\ input = <<>>

(* Variant: the buffer is not reset.                                       *)
CellKeepsValue ==
  /\ cells' = Append(cells, [column |-> column, row |-> row, text |-> value])
  /\ level' = IF row = 0 /\ column = 1 THEN Atoi(value) ELSE level
  /\ UNCHANGED value

(* sink.csv_cell(column, row, value.string()) and value.reset().  The sink *)
(* takes the second cell of the first row for the level.                   *)
Cell ==
  /\ cells' = Append(cells, [column |-> column, row |-> row, text |-> value])
  /\ level' = IF row = 0 /\ column = 1 THEN Atoi(value) ELSE level
  /\ value' = <<>>

Fail ==
  /\ expect' = "error"
  /\ UNCHANGED <<value, row, column, cells, level>>

(* Variant: available() does not reserve the trailing zero.                *)
HasRoomForAll == Len(value) < Capacity

(* stream_buffer_t::available() for one character: one place stays free    *)
(* for the zero that string() writes.                                      *)
HasRoom == Len(value) < Capacity - 1

Store(c) ==
  IF HasRoom
  THEN /\ value' = Append(value, c)
       /\ UNCHANGED <<expect, row, column, cells, level>>
  ELSE Fail

(* Variant: a quote starts a new value after an error.                     *)
FeedQuoteRecovers(c) ==
  /\ c = Quote
  /\ expect = "error"
  /\ expect' = "quoted_value"
  /\ UNCHANGED <<value, row, column, cells, level>>

FeedQuote(c) ==
  /\ c = Quote
  /\ \/ /\ expect = "value"
        /\ expect' = "quoted_value"
        /\ UNCHANGED <<value, row, column, cells, level>>
     \/ /\ expect = "quoted_value"
        /\ Cell
        /\ column' = column + 1
        /\ expect' = "delimiter"
        /\ UNCHANGED row
     \/ /\ expect \notin {"value", "quoted_value"}
        /\ Fail

(* Variant: the delimiter after a quoted value makes a cell of its own.    *)
FeedDelimiterTwice(c) ==
  /\ c = Delimiter
  /\ \/ /\ expect \in {"delimiter", "value"}
        /\ Cell
        /\ column' = column + 1
        /\ expect' = "value"
        /\ UNCHANGED row
     \/ /\ expect = "quoted_value"
        /\ Store(c)
     \/ /\ expect \in {"newline", "error"}
        /\ Fail

FeedDelimiter(c) ==
  /\ c = Delimiter
  /\ \/ /\ expect = "delimiter"
        /\ expect' = "value"
        /\ UNCHANGED <<value, row, column, cells, level>>
     \/ /\ expect = "quoted_value"
        /\ Store(c)
     \/ /\ expect = "value"
        /\ Cell
        /\ column' = column + 1
        /\ expect' = "value"
        /\ UNCHANGED row
     \/ /\ expect \in {"newline", "error"}
        /\ Fail

(* Variant: the next line starts with a value.                             *)
FeedNewlineContinues(c) ==
  /\ c = Newline
  /\ \/ /\ expect = "value"
        /\ Cell
        /\ column' = 0
        /\ row' = row + 1
        /\ expect' = "value"
     \/ /\ expect # "value"
        /\ Fail

(* Variant: a quoted value may hold line ends.                             *)
FeedNewlineQuoted(c) ==
  /\ c = Newline
  /\ \/ /\ expect = "value"
        /\ Cell
        /\ column' = 0
        /\ row' = row + 1
        /\ expect' = "newline"
     \/ /\ expect = "newline"
        /\ UNCHANGED parser
     \/ /\ expect = "quoted_value"
        /\ Store(c)
     \/ /\ expect \in {"delimiter", "error"}
        /\ Fail

FeedNewline(c) ==
  /\ c = Newline
  /\ \/ /\ expect = "value"
        /\ Cell
        /\ column' = 0
        /\ row' = row + 1
        /\ expect' = "newline"
     \/ /\ expect = "newline"
        /\ UNCHANGED parser
     \/ /\ expect \in {"delimiter", "quoted_value", "error"}
        /\ Fail

FeedOther(c) ==
  /\ c \in Chars
  /\ \/ /\ expect \in {"value", "quoted_value"}
        /\ Store(c)
     \/ /\ expect \in {"delimiter", "newline", "error"}
        /\ Fail

Feed(c) ==
  /\ Len(input) < MaxInput
  /\ input' = Append(input, c)
  /\ \/ FeedQuote(c)
     \/ FeedDelimiter(c)
     \/ FeedNewline(c)
     \/ FeedOther(c)

Next == \E c \in Symbols : Feed(c)

Spec == Init /\ [][Next]_vars
-----------------------------------------------------------------------------
Texts == Seq(Chars \cup {Delimiter})

TypeOK ==
  /\ expect \in {"delimiter", "value", "quoted_value", "newline", "error"}
  /\ value \in Texts
  /\ row \in Nat
  /\ column \in Nat
  /\ cells \in Seq([column : Nat, row : Nat, text : Texts])
  /\ level = 0 \/ \E i \in 1 .. Len(cells) : level = Atoi(cells[i].text)
  /\ input \in Seq(Symbols)

(* However long a field is, string() writes its zero inside the buffer,    *)
(* and no cell the sink is given is longer than the buffer could hold.     *)
CellsFit ==
  /\ Len(value) < Capacity
  /\ \A i \in 1 .. Len(cells) : Len(cells[i].text) < Capacity

(* The sink is given the cells of the first line, from left to right, each *)
(* once, and never a cell of another line: what follows a line end puts    *)
(* the parser into csv_error before it makes a cell.  So the level of the  *)
(* aurora, taken from column 1 of row 0, is set at most once.              *)
OneLine ==
  \A i \in 1 .. Len(cells) : cells[i].row = 0 /\ cells[i].column = i - 1

(* An error is final: no later character makes a cell or changes the       *)
(* aurora's level.                                                         *)
ErrorIsFinal ==
  [][expect = "error" => UNCHANGED parser]_vars

(* What was fed, without its quotes, is what was understood: the cells in  *)
(* order with a delimiter after each, and the value in the buffer.  No     *)
(* character is lost, doubled, or moved into another cell.  The delimiter  *)
(* after the last cell is still to come after a quoted value, and a line   *)
(* end stands for it at the end of the line.                               *)
Fed ==
  FlattenSeq([i \in DOMAIN input |->
                IF input[i] = Quote THEN <<>> ELSE <<input[i]>>])

Understood ==
  FlattenSeq([i \in DOMAIN cells |->
                (IF i = 1 THEN <<>> ELSE <<Delimiter>>) \o cells[i].text])

NothingMisplaced ==
  LET line == Understood
      open == IF cells = <<>> THEN <<>> ELSE <<Delimiter>>
  IN  CASE expect \in {"value", "quoted_value"} -> Fed = line \o open \o value
        [] expect = "delimiter" -> Fed = line
        [] expect = "newline" ->
             \E n \in 1 .. Len(Fed) : Fed = line \o [i \in 1 .. n |-> Newline]
        [] expect = "error" -> TRUE

(* For a document without quotes, the level is the number in the second    *)
(* field of its first line once that field is complete, if the two fields  *)
(* fit the buffer; until then, and otherwise, it is 0.                     *)
EndsField(i) == input[i] \in {Delimiter, Newline}

SecondField(i, j) ==
  /\ i < j
  /\ input[i] = Delimiter
  /\ EndsField(j)
  /\ \A k \in 1 .. j : EndsField(k) => k \in {i, j}
  /\ i - 1 < Capacity
  /\ j - i - 1 < Capacity

LevelIsSecondField ==
  (\A k \in 1 .. Len(input) : input[k] # Quote) =>
    LET complete ==
          {p \in (1 .. Len(input)) \X (1 .. Len(input)) :
             SecondField(p[1], p[2])}
    IN  \/ complete = {} /\ level = 0
        \/ \E p \in complete :
             level = Atoi(SubSeq(input, p[1] + 1, p[2] - 1))
=============================================================================
