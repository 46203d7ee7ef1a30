-------------------------- MODULE CsvParser_proofs --------------------------
(***************************************************************************)
(* What the CSV parser promises of every document, of any length, over any *)
(* alphabet and for any size of the cell buffer.                           *)
(*                                                                         *)
(* OneLine is not inductive: it needs that the counters agree with the     *)
(* cells already made as long as another cell can still be made, that is   *)
(* in every state but the two the parser does not leave for a value again. *)
(*                                                                         *)
(* NothingMisplaced follows from Placed, which tells for each state what a *)
(* character does to the cells and to the document at once.                *)
(* LevelIsSecondField needs to know where in the document the parser is    *)
(* when no level is set yet (FieldsOK): in the first field, in the second, *)
(* or where no second field that fits can follow.                          *)
(***************************************************************************)
EXTENDS CsvParser, DataLemmas

Cells == [column : Nat, row : Nat, text : Texts]

ParserOK ==
  /\ expect \in {"delimiter", "value", "quoted_value", "newline", "error"}
  /\ value \in Texts
  /\ row \in Nat
  /\ column \in Nat
  /\ cells \in Seq(Cells)

LevelOK == level = 0 \/ \E i \in 1 .. Len(cells) : level = Atoi(cells[i].text)

(* While cells can still be made, the next one is the next of row 0.       *)
CountersOK ==
  expect \in {"delimiter", "value", "quoted_value"}
    => row = 0 /\ column = Len(cells)

CInv ==
  /\ ParserOK
  /\ LevelOK
  /\ CellsFit
  /\ OneLine
  /\ CountersOK
-----------------------------------------------------------------------------
LEMMA InitCInv == Init => CInv
<1> SUFFICES ASSUME Init PROVE CInv
  OBVIOUS
<1>1. cells = <<>> /\ Len(cells) = 0 /\ value = <<>> /\ Len(value) = 0
  BY DEF Init
<1>2. \A i \in 1 .. Len(cells) : FALSE
  BY <1>1
<1>3. ParserOK
  BY <1>1 DEF Init, ParserOK, Texts
<1>4. CellsFit
  BY <1>1, <1>2, InputAssumption DEF CellsFit
<1> QED
  BY <1>1, <1>2, <1>3, <1>4
     DEF Init, CInv, LevelOK, OneLine, CountersOK

(* What making a cell keeps, whatever the state.                           *)
LEMMA CellKeeps ==
  ASSUME ParserOK, LevelOK, CellsFit, Cell
  PROVE  /\ value' = <<>>
         /\ value' \in Texts
         /\ cells' \in Seq(Cells)
         /\ LevelOK'
         /\ CellsFit'
         /\ Len(cells') = Len(cells) + 1
         /\ \A i \in 1 .. Len(cells) : cells'[i] = cells[i]
         /\ cells'[Len(cells) + 1].row = row
         /\ cells'[Len(cells) + 1].column = column
<1> DEFINE cell == [column |-> column, row |-> row, text |-> value]
<1>1. cell \in Cells
  BY DEF ParserOK, Cells
<1>2. cells' = Append(cells, cell)
  BY DEF Cell
<1> HIDE DEF cell
<1>3. /\ cells' \in Seq(Cells)
      /\ Len(cells') = Len(cells) + 1
      /\ \A i \in 1 .. Len(cells) : cells'[i] = cells[i]
      /\ cells'[Len(cells) + 1] = cell
      /\ Len(cells) \in Nat
  BY <1>1, <1>2 DEF ParserOK
<1>4. value' = <<>> /\ Len(value') = 0 /\ value' \in Texts
  BY DEF Cell, Texts
<1>5. cell.text = value /\ cell.row = row /\ cell.column = column
  BY DEF cell
<1>6. \A i \in 1 .. Len(cells') : i \in 1 .. Len(cells) \/ i = Len(cells) + 1
  BY <1>3
<1>7. CellsFit'
  BY <1>3, <1>4, <1>5, <1>6, InputAssumption DEF CellsFit
<1>8. LevelOK'
  <2>1. level' = level \/ level' = Atoi(cells'[Len(cells) + 1].text)
    BY <1>3, <1>5 DEF Cell
  <2>2. Len(cells) + 1 \in 1 .. Len(cells')
    BY <1>3
  <2>3. \A i \in 1 .. Len(cells) :
          i \in 1 .. Len(cells') /\ cells'[i].text = cells[i].text
    BY <1>3
  <2> QED
    BY <2>1, <2>2, <2>3 DEF LevelOK
<1> QED
  BY <1>3, <1>4, <1>5, <1>7, <1>8

(* A cell made while the counters are right is the next of row 0.          *)
LEMMA CellInOrder ==
  ASSUME CInv, expect \in {"delimiter", "value", "quoted_value"}, Cell
  PROVE  OneLine'
<1>1. /\ Len(cells') = Len(cells) + 1
      /\ \A i \in 1 .. Len(cells) : cells'[i] = cells[i]
      /\ cells'[Len(cells) + 1].row = 0
      /\ cells'[Len(cells) + 1].column = Len(cells)
      /\ Len(cells) \in Nat
  BY CellKeeps DEF CInv, CountersOK, ParserOK
<1>2. \A i \in 1 .. Len(cells') : i \in 1 .. Len(cells) \/ i = Len(cells) + 1
  BY <1>1
<1> QED
  BY <1>1, <1>2 DEF CInv, OneLine

LEMMA FailKeeps ==
  ASSUME CInv, Fail
  PROVE  CInv'
BY DEF CInv, Fail, ParserOK, LevelOK, CellsFit, OneLine, CountersOK

(* A character goes into the buffer when it fits.                          *)
LEMMA StoreKeeps ==
  ASSUME CInv, expect \in {"value", "quoted_value"},
         NEW c \in Chars \cup {Delimiter}, Store(c)
  PROVE  CInv'
<1>1. CASE ~HasRoom
  BY <1>1, FailKeeps DEF Store
<1>2. CASE HasRoom
  <2>1. /\ value' = Append(value, c)
        /\ UNCHANGED <<expect, row, column, cells, level>>
    BY <1>2 DEF Store
  <2>2. value' \in Texts /\ Len(value') = Len(value) + 1
    BY <2>1 DEF CInv, ParserOK, Texts
  <2>3. Len(value') < Capacity
    BY <1>2, <2>2, InputAssumption DEF HasRoom, CInv, ParserOK, Texts
  <2> QED
    BY <2>1, <2>2, <2>3
       DEF CInv, ParserOK, LevelOK, CellsFit, OneLine, CountersOK
<1> QED
  BY <1>1, <1>2

(* A cell, and the counters set for the next one or for the next line.     *)
LEMMA CellAndCount ==
  ASSUME CInv, expect \in {"value", "quoted_value"}, Cell,
         \/ /\ column' = column + 1 /\ row' = row
            /\ expect' \in {"delimiter", "value"}
         \/ /\ column' = 0 /\ row' = row + 1
            /\ expect' = "newline"
  PROVE  CInv'
<1>1. /\ value' \in Texts /\ cells' \in Seq(Cells)
      /\ LevelOK' /\ CellsFit' /\ Len(cells') = Len(cells) + 1
  BY CellKeeps DEF CInv
<1>2. OneLine'
  BY CellInOrder
<1>3. ParserOK'
  BY <1>1 DEF CInv, ParserOK
<1>4. CountersOK'
  BY <1>1 DEF CInv, ParserOK, CountersOK
<1> QED
  BY <1>1, <1>2, <1>3, <1>4 DEF CInv

LEMMA StepCInv == CInv /\ [Next]_vars => CInv'
<1> SUFFICES ASSUME CInv, [Next]_vars PROVE CInv'
  OBVIOUS
<1>s. UNCHANGED parser => CInv'
  BY DEF CInv, parser, ParserOK, LevelOK, CellsFit, OneLine, CountersOK
<1>1. ASSUME NEW c \in Symbols, FeedQuote(c) PROVE CInv'
  <2>1. CASE expect = "value"
    BY <1>1, <2>1
       DEF FeedQuote, Fail, CInv, ParserOK, LevelOK, CellsFit, OneLine,
           CountersOK
  <2>2. CASE expect = "quoted_value"
    BY <1>1, <2>2, CellAndCount DEF FeedQuote
  <2>3. CASE expect \notin {"value", "quoted_value"}
    BY <1>1, <2>3, FailKeeps DEF FeedQuote
  <2> QED
    BY <2>1, <2>2, <2>3
<1>2. ASSUME NEW c \in Symbols, FeedDelimiter(c) PROVE CInv'
  <2>1. CASE expect = "delimiter"
    BY <1>2, <2>1
       DEF FeedDelimiter, CInv, ParserOK, LevelOK, CellsFit, OneLine,
           CountersOK
  <2>2. CASE expect = "quoted_value"
    BY <1>2, <2>2, StoreKeeps DEF FeedDelimiter
  <2>3. CASE expect = "value"
    BY <1>2, <2>3, CellAndCount DEF FeedDelimiter
  <2>4. CASE expect \in {"newline", "error"}
    BY <1>2, <2>4, FailKeeps DEF FeedDelimiter
  <2> QED
    BY <2>1, <2>2, <2>3, <2>4 DEF CInv, ParserOK
<1>3. ASSUME NEW c \in Symbols, FeedNewline(c) PROVE CInv'
  <2>1. CASE expect = "value"
    BY <1>3, <2>1, CellAndCount DEF FeedNewline
  <2>2. CASE expect = "newline"
    BY <1>3, <1>s, <2>2 DEF FeedNewline
  <2>3. CASE expect \in {"delimiter", "quoted_value", "error"}
    BY <1>3, <2>3, FailKeeps DEF FeedNewline
  <2> QED
    BY <2>1, <2>2, <2>3 DEF CInv, ParserOK
<1>4. ASSUME NEW c \in Symbols, FeedOther(c) PROVE CInv'
  <2>1. CASE expect \in {"value", "quoted_value"}
    BY <1>4, <2>1, StoreKeeps DEF FeedOther
  <2>2. CASE expect \in {"delimiter", "newline", "error"}
    BY <1>4, <2>2, FailKeeps DEF FeedOther
  <2> QED
    BY <2>1, <2>2 DEF CInv, ParserOK
<1>5. CASE UNCHANGED vars
  BY <1>5, <1>s DEF vars
<1> QED
  BY <1>1, <1>2, <1>3, <1>4, <1>5 DEF Next, Feed

LEMMA AlwaysCInv == Spec => []CInv
BY InitCInv, StepCInv, PTL DEF Spec

(* Type correctness, for every document.                                   *)
THEOREM TypeCorrect == Spec => []TypeOK
<1>1. Init => input \in Seq(Symbols)
  BY DEF Init
<1>2. input \in Seq(Symbols) /\ [Next]_vars => (input \in Seq(Symbols))'
  BY DEF Next, Feed, vars
<1>3. CInv /\ input \in Seq(Symbols) => TypeOK
  BY DEF CInv, ParserOK, LevelOK, Cells, TypeOK
<1> QED
  BY <1>1, <1>2, <1>3, AlwaysCInv, PTL DEF Spec

(* The cell buffer never overflows, and no cell is longer than it.         *)
THEOREM CellsAlwaysFit == Spec => []CellsFit
<1>1. CInv => CellsFit
  BY DEF CInv
<1> QED
  BY <1>1, AlwaysCInv, PTL

(* The sink only ever sees the first line, each cell once and in order.    *)
THEOREM OnlyOneLine == Spec => []OneLine
<1>1. CInv => OneLine
  BY DEF CInv
<1> QED
  BY <1>1, AlwaysCInv, PTL

(* csv_error is absorbing.                                                 *)
THEOREM ErrorsAreFinal == Spec => ErrorIsFinal
<1>1. [Next]_vars => [expect = "error" => UNCHANGED parser]_vars
  <2> SUFFICES ASSUME [Next]_vars, expect = "error" PROVE UNCHANGED parser
    OBVIOUS
  <2>1. ASSUME NEW c \in Symbols, Feed(c) PROVE UNCHANGED parser
    BY <2>1 DEF Feed, FeedQuote, FeedDelimiter, FeedNewline, FeedOther, Fail,
                parser
  <2> QED
    BY <2>1 DEF Next, vars
<1> QED
  BY <1>1, PTL DEF Spec, ErrorIsFinal
-----------------------------------------------------------------------------
(* What was fed and what was understood, one character and one cell later. *)
Unquoted == [c \in Symbols |-> IF c = Quote THEN <<>> ELSE <<c>>]

LEMMA UnquotedIs ==
  /\ Unquoted \in [Symbols -> Seq(Symbols)]
  /\ \A c \in Symbols : Unquoted[c] = IF c = Quote THEN <<>> ELSE <<c>>
<1>1. \A c \in Symbols : (IF c = Quote THEN <<>> ELSE <<c>>) \in Seq(Symbols)
  OBVIOUS
<1> HIDE DEF Symbols
<1> QED
  BY <1>1 DEF Unquoted

LEMMA FedIsMapped ==
  ASSUME input \in Seq(Symbols)
  PROVE  Fed = FlattenSeq(Mapped(Unquoted, input)) /\ Fed \in Seq(Symbols)
<1> DEFINE t == [i \in DOMAIN input |->
                   IF input[i] = Quote THEN <<>> ELSE <<input[i]>>]
           m == [i \in DOMAIN input |-> Unquoted[input[i]]]
<1>1. \A i \in DOMAIN input : input[i] \in Symbols
  OBVIOUS
<1>2. t = m
  BY <1>1, UnquotedIs
<1>3. Mapped(Unquoted, input) = m
  BY DEF Mapped
<1>4. Mapped(Unquoted, input) \in Seq(Seq(Symbols))
  <2>1. IsImage(Mapped(Unquoted, input), Unquoted, input, Symbols)
    BY UnquotedIs, MappedIsSeq
  <2> QED
    BY <2>1 DEF IsImage
<1> HIDE DEF t, m
<1>5. FlattenSeq(Mapped(Unquoted, input)) \in Seq(Symbols)
  BY <1>4, FlattenIsSeq
<1> QED
  BY <1>2, <1>3, <1>5 DEF Fed, t

LEMMA NextFed ==
  (input \in Seq(Symbols) => Fed = FlattenSeq(Mapped(Unquoted, input)))'
<1>1. input \in Seq(Symbols) => Fed = FlattenSeq(Mapped(Unquoted, input))
  BY FedIsMapped
<1> QED
  BY <1>1, PTL

LEMMA FedGrows ==
  ASSUME input \in Seq(Symbols), NEW c \in Symbols, input' = Append(input, c)
  PROVE  /\ Fed \in Seq(Symbols)
         /\ c = Quote => Fed' = Fed
         /\ c # Quote => Fed' = Fed \o <<c>>
<1>1. input' \in Seq(Symbols)
  OBVIOUS
<1>2. FlattenSeq(Mapped(Unquoted, Append(input, c)))
        = FlattenSeq(Mapped(Unquoted, input)) \o Unquoted[c]
  <2>1. AppendsImage(Unquoted, input, c)
    BY UnquotedIs, MappedAppend
  <2> QED
    BY <2>1 DEF AppendsImage
<1>3. Fed = FlattenSeq(Mapped(Unquoted, input)) /\ Fed \in Seq(Symbols)
  BY FedIsMapped
<1>4. Fed' = FlattenSeq(Mapped(Unquoted, input'))
  BY <1>1, NextFed
<1>5. Fed' = Fed \o Unquoted[c]
  BY <1>1, <1>2, <1>3, <1>4
<1>6. c = Quote => Unquoted[c] = <<>>
  BY UnquotedIs
<1>7. c # Quote => Unquoted[c] = <<c>>
  BY UnquotedIs
<1>8. Fed \o <<>> = Fed
  BY <1>3, ConcatEmptySeq
<1> QED
  BY <1>3, <1>5, <1>6, <1>7, <1>8

(* What a new cell adds to the line.                                       *)
Comma == IF cells = <<>> THEN <<>> ELSE <<Delimiter>>

LEMMA TextsAssociate ==
  ASSUME NEW s \in Texts, NEW t \in Texts, NEW u \in Texts
  PROVE  (s \o t) \o u = s \o (t \o u)
<1> DEFINE S == Chars \cup {Delimiter}
<1>1. s \in Seq(S) /\ t \in Seq(S) /\ u \in Seq(S)
  BY DEF Texts
<1> HIDE DEF S
<1> QED
  BY <1>1, ConcatAssociative

LEMMA SymbolsAssociate ==
  ASSUME NEW s \in Seq(Symbols), NEW t \in Seq(Symbols),
         NEW u \in Seq(Symbols)
  PROVE  (s \o t) \o u = s \o (t \o u)
<1> HIDE DEF Symbols
<1> QED
  BY ConcatAssociative

LEMMA CommaIs == Comma \in Texts
<1>1. <<>> \in Texts /\ <<Delimiter>> \in Texts
  BY DEF Texts
<1> QED
  BY <1>1 DEF Comma

Line(cs) ==
  [i \in DOMAIN cs |-> (IF i = 1 THEN <<>> ELSE <<Delimiter>>) \o cs[i].text]

LEMMA LineIs ==
  ASSUME NEW cs \in Seq(Cells)
  PROVE  /\ Line(cs) \in Seq(Texts)
         /\ Line(cs) \in [1 .. Len(cs) -> Texts]
         /\ Len(Line(cs)) = Len(cs)
         /\ \A i \in 1 .. Len(cs) : Line(cs)[i] =
              (IF i = 1 THEN <<>> ELSE <<Delimiter>>) \o cs[i].text
<1> DEFINE line == [i \in DOMAIN cs |->
                      (IF i = 1 THEN <<>> ELSE <<Delimiter>>) \o cs[i].text]
<1>1. DOMAIN cs = 1 .. Len(cs) /\ Len(cs) \in Nat
  OBVIOUS
<1>2. \A i \in 1 .. Len(cs) : cs[i].text \in Texts
  <2>1. \A c \in Cells : c.text \in Texts
    BY DEF Cells
  <2> QED
    BY <1>1, <2>1
<1>3. <<>> \in Texts /\ <<Delimiter>> \in Texts
  BY DEF Texts
<1>4. \A s, t \in Texts : s \o t \in Texts
  BY DEF Texts
<1>5. \A i \in 1 .. Len(cs) :
        (IF i = 1 THEN <<>> ELSE <<Delimiter>>) \o cs[i].text \in Texts
  BY <1>2, <1>3, <1>4
<1>6. line \in [1 .. Len(cs) -> Texts]
  BY <1>1, <1>5
<1>7. \A i \in 1 .. Len(cs) : line[i] =
        (IF i = 1 THEN <<>> ELSE <<Delimiter>>) \o cs[i].text
  BY <1>1
<1> HIDE DEF line
<1>8. line \in Seq(Texts) /\ Len(line) = Len(cs)
  BY <1>1, <1>6, FunctionIsSeq
<1> QED
  BY <1>6, <1>7, <1>8 DEF Line, line

LEMMA UnderstoodIsSeq ==
  ASSUME cells \in Seq(Cells)
  PROVE  Understood \in Texts /\ Understood = FlattenSeq(Line(cells))
<1>1. Understood = FlattenSeq(Line(cells))
  BY DEF Understood, Line
<1>2. Line(cells) \in Seq(Seq(Chars \cup {Delimiter}))
  BY LineIs DEF Texts
<1>3. FlattenSeq(Line(cells)) \in Seq(Chars \cup {Delimiter})
  BY <1>2, FlattenIsSeq
<1> QED
  BY <1>1, <1>3 DEF Texts

LEMMA NextUnderstood ==
  (cells \in Seq(Cells) => Understood = FlattenSeq(Line(cells)))'
<1>1. cells \in Seq(Cells) => Understood = FlattenSeq(Line(cells))
  BY UnderstoodIsSeq
<1> QED
  BY <1>1, PTL

LEMMA UnderstoodGrows ==
  ASSUME ParserOK, Cell
  PROVE  /\ Understood \in Texts
         /\ Understood' = Understood \o (Comma \o value)
<1> DEFINE cell == [column |-> column, row |-> row, text |-> value]
           more == Append(cells, cell)
           added == Comma \o value
<1>1. cell \in Cells /\ cell.text = value
  BY DEF ParserOK, Cells
<1>2. cells' = more
  BY DEF Cell
<1> HIDE DEF cell
<1>3. /\ cells \in Seq(Cells) /\ Len(cells) \in Nat
      /\ more \in Seq(Cells) /\ Len(more) = Len(cells) + 1
      /\ \A i \in 1 .. Len(cells) : more[i] = cells[i]
      /\ more[Len(cells) + 1] = cell
  BY <1>1 DEF ParserOK
<1> HIDE DEF more
<1>4. added \in Texts
  <2>1. Comma \in Texts
    BY CommaIs
  <2>2. value \in Texts
    BY DEF ParserOK
  <2> QED
    BY <2>1, <2>2 DEF Texts
<1>5. added = (IF Len(cells) + 1 = 1 THEN <<>> ELSE <<Delimiter>>) \o value
  <2>1. cells = <<>> <=> Len(cells) + 1 = 1
    BY <1>3
  <2> QED
    BY <2>1 DEF Comma
<1>6. /\ \A i \in 1 .. Len(cells) : i \in 1 .. Len(more)
      /\ Len(cells) + 1 \in 1 .. Len(more)
  BY <1>3
<1>7. /\ Line(cells) \in Seq(Texts)
      /\ Len(Line(cells)) = Len(cells)
      /\ \A i \in 1 .. Len(cells) : Line(cells)[i] =
           (IF i = 1 THEN <<>> ELSE <<Delimiter>>) \o cells[i].text
  BY <1>3, LineIs
<1>8. /\ Line(more) \in [1 .. Len(more) -> Texts]
      /\ \A i \in 1 .. Len(more) : Line(more)[i] =
           (IF i = 1 THEN <<>> ELSE <<Delimiter>>) \o more[i].text
  BY <1>3, LineIs
<1> DEFINE s == Line(cells)
           t == Line(more)
<1>9. /\ \A i \in 1 .. Len(s) : t[i] = s[i]
      /\ t[Len(s) + 1] = added
      /\ t \in [1 .. Len(s) + 1 -> Texts]
      /\ s \in Seq(Texts)
  <2>1. Len(s) = Len(cells) /\ s \in Seq(Texts)
    BY <1>7
  <2>2. ASSUME NEW i \in 1 .. Len(cells) PROVE t[i] = s[i]
    <3> DEFINE after(x) == (IF i = 1 THEN <<>> ELSE <<Delimiter>>) \o x
    <3>1. more[i].text = cells[i].text
      BY <1>3
    <3>2. s[i] = after(cells[i].text)
      BY <1>7
    <3>3. t[i] = after(more[i].text)
      BY <1>6, <1>8
    <3> HIDE DEF after, s, t
    <3> QED
      BY <3>1, <3>2, <3>3
  <2>3. t[Len(cells) + 1] = added
    <3> HIDE DEF added
    <3> QED
      BY <1>1, <1>3, <1>5, <1>6, <1>8
  <2>4. t \in [1 .. Len(cells) + 1 -> Texts]
    BY <1>3, <1>8
  <2> HIDE DEF s, t, added
  <2> QED
    BY <2>1, <2>2, <2>3, <2>4
<1> HIDE DEF s, t, added
<1>10. t = Append(s, added)
  BY <1>4, <1>9, IsAppend
<1>11. FlattenSeq(Append(s, added)) = FlattenSeq(s) \o added
  BY <1>4, <1>9, FlattenAppend DEF Texts
<1>12. Understood = FlattenSeq(s) /\ Understood \in Texts
  BY <1>3, UnderstoodIsSeq DEF s
<1>13. Understood' = FlattenSeq(t)
  BY <1>2, <1>3, NextUnderstood DEF t
<1> QED
  BY <1>10, <1>11, <1>12, <1>13 DEF added

-----------------------------------------------------------------------------
(* NothingMisplaced with what its induction needs: after a quoted value    *)
(* the buffer is empty and there is a cell the next delimiter follows.     *)
Placed ==
  /\ expect \in {"value", "quoted_value"}
       => Fed = (Understood \o Comma) \o value
  /\ expect = "delimiter"
       => Fed = Understood /\ value = <<>> /\ cells # <<>>
  /\ expect = "newline"
       => \E n \in 1 .. Len(Fed) :
            Fed = Understood \o [i \in 1 .. n |-> Newline]

LEMMA InitPlaced == Init => Placed
<1> SUFFICES ASSUME Init PROVE Placed
  OBVIOUS
<1>1. input = <<>> /\ cells = <<>> /\ value = <<>> /\ expect = "value"
  BY DEF Init
<1>2. [i \in DOMAIN input |->
         IF input[i] = Quote THEN <<>> ELSE <<input[i]>>] = <<>>
  BY <1>1
<1>3. Fed = <<>>
  BY <1>2, FlattenEmpty DEF Fed
<1>4. [i \in DOMAIN cells |->
         (IF i = 1 THEN <<>> ELSE <<Delimiter>>) \o cells[i].text] = <<>>
  BY <1>1
<1>5. Understood = <<>>
  BY <1>4, FlattenEmpty DEF Understood
<1> QED
  BY <1>1, <1>3, <1>5 DEF Placed, Comma

(* A character that is stored is the next of the value.                    *)
LEMMA StorePlaces ==
  ASSUME ParserOK, input \in Seq(Symbols), Placed,
         expect \in {"value", "quoted_value"},
         NEW c \in Chars \cup {Delimiter}, input' = Append(input, c),
         Store(c)
  PROVE  Placed'
<1>1. CASE ~HasRoom
  BY <1>1 DEF Store, Fail, Placed
<1>2. CASE HasRoom
  <2>1. c \in Symbols /\ c # Quote
    BY InputAssumption DEF Symbols, Quote, Delimiter
  <2>2. Fed' = Fed \o <<c>>
    BY <2>1, FedGrows
  <2>3. value' = Append(value, c) /\ UNCHANGED <<expect, cells>>
    BY <1>2 DEF Store
  <2>4. Understood' = Understood /\ Comma' = Comma
    BY <2>3 DEF Understood, Comma
  <2>5. /\ Understood \in Texts /\ Comma \in Texts /\ value \in Texts
        /\ <<c>> \in Texts
    BY UnderstoodIsSeq, CommaIs DEF ParserOK, Texts
  <2>6. value' = value \o <<c>>
    BY <2>3, <2>5, AppendIsConcat DEF Texts
  <2>7. Fed = (Understood \o Comma) \o value
    BY DEF Placed
  <2>8. Understood \o Comma \in Texts
    BY <2>5 DEF Texts
  <2>9. ((Understood \o Comma) \o value) \o <<c>>
          = (Understood \o Comma) \o (value \o <<c>>)
    <3> DEFINE line == Understood \o Comma
               last == <<c>>
    <3>1. line \in Texts /\ value \in Texts /\ last \in Texts
      BY <2>5, <2>8
    <3> HIDE DEF line, last
    <3>2. (line \o value) \o last = line \o (value \o last)
      BY <3>1, TextsAssociate
    <3> QED
      BY <3>2 DEF line, last
  <2>10. Fed' = (Understood' \o Comma') \o value'
    BY <2>2, <2>4, <2>6, <2>7, <2>9
  <2> QED
    BY <2>3, <2>10 DEF Placed
<1> QED
  BY <1>1, <1>2

(* A cell holds the value and the delimiter it comes after.                *)
LEMMA CellPlaces ==
  ASSUME ParserOK, Placed, expect \in {"value", "quoted_value"}, Cell
  PROVE  /\ Understood' = Fed
         /\ Understood' \in Texts
         /\ value' = <<>>
         /\ cells' # <<>>
         /\ Comma' = <<Delimiter>>
<1>1. Understood \in Texts /\ Understood' = Understood \o (Comma \o value)
  BY UnderstoodGrows
<1>2. Comma \in Texts /\ value \in Texts
  BY CommaIs DEF ParserOK
<1>3. (Understood \o Comma) \o value = Understood \o (Comma \o value)
  BY <1>1, <1>2, TextsAssociate
<1>4. Fed = (Understood \o Comma) \o value
  BY DEF Placed
<1>5. Understood' \in Texts
  <2>1. Comma \o value \in Texts
    BY <1>2 DEF Texts
  <2> QED
    BY <1>1, <2>1 DEF Texts
<1>6. cells' # <<>>
  BY DEF ParserOK, Cell
<1> QED
  BY <1>1, <1>3, <1>4, <1>5, <1>6 DEF Cell, Comma

(* A delimiter after the last cell.                                        *)
LEMMA DelimiterPlaces ==
  ASSUME Understood' \in Texts, Comma' = <<Delimiter>>, value' = <<>>,
         Fed' = Understood' \o <<Delimiter>>, expect' = "value"
  PROVE  Placed'
<1>1. Understood' \o <<Delimiter>> \in Texts
  <2>1. <<Delimiter>> \in Texts
    BY DEF Texts
  <2> QED
    BY <2>1 DEF Texts
<1>2. (Understood' \o <<Delimiter>>) \o <<>> = Understood' \o <<Delimiter>>
  BY <1>1, ConcatEmptySeq DEF Texts
<1>3. Fed' = (Understood' \o Comma') \o value'
  BY <1>2
<1> QED
  BY <1>3 DEF Placed

(* One more line end.                                                      *)
LEMMA MoreNewlines ==
  ASSUME NEW n \in Nat
  PROVE  /\ [i \in 1 .. n + 1 |-> Newline] \in Seq({Newline})
         /\ [i \in 1 .. n |-> Newline] \o <<Newline>>
              = [i \in 1 .. n + 1 |-> Newline]
<1> DEFINE s == [i \in 1 .. n |-> Newline]
           t == [i \in 1 .. n + 1 |-> Newline]
<1>1. n + 1 \in Nat
  OBVIOUS
<1>2. s \in [1 .. n -> {Newline}] /\ t \in [1 .. n + 1 -> {Newline}]
  OBVIOUS
<1>3. (\A i \in 1 .. n : t[i] = s[i]) /\ t[n + 1] = Newline
  OBVIOUS
<1> HIDE DEF s, t
<1>4. s \in Seq({Newline}) /\ Len(s) = n /\ t \in Seq({Newline})
  BY <1>1, <1>2, FunctionIsSeq
<1>5. t = Append(s, Newline)
  BY <1>2, <1>3, <1>4, IsAppend
<1>6. Append(s, Newline) = s \o <<Newline>>
  BY <1>4, AppendIsConcat
<1> QED
  BY <1>4, <1>5, <1>6 DEF s, t

LEMMA NewlinePlaces ==
  ASSUME Understood' \in Texts, NEW n \in Nat,
         Fed' = Understood' \o [i \in 1 .. n + 1 |-> Newline]
  PROVE  Placed' \/ expect' # "newline"
<1> DEFINE ends == [i \in 1 .. n + 1 |-> Newline]
<1>1. ends \in Seq({Newline}) /\ Len(ends) = n + 1
  BY MoreNewlines
<1> HIDE DEF ends
<1>2. Len(Understood' \o ends) = Len(Understood') + (n + 1)
      /\ Len(Understood') \in Nat
  <2> DEFINE line == Understood'
  <2>1. line \in Seq(Symbols) /\ ends \in Seq(Symbols)
    BY <1>1 DEF Texts, Symbols
  <2> HIDE DEF line
  <2>2. Len(line \o ends) = Len(line) + Len(ends) /\ Len(line) \in Nat
    BY <2>1
  <2> QED
    BY <1>1, <2>2 DEF line
<1>3. n + 1 \in 1 .. Len(Fed')
  BY <1>2 DEF ends
<1> QED
  BY <1>3 DEF Placed

LEMMA StepPlaced ==
  CInv /\ input \in Seq(Symbols) /\ Placed /\ [Next]_vars => Placed'
<1> SUFFICES ASSUME CInv, input \in Seq(Symbols), Placed, [Next]_vars
             PROVE  Placed'
  OBVIOUS
<1> USE DEF CInv
<1>f. Fail => Placed'
  BY DEF Fail, Placed
<1>u. UNCHANGED cells => Understood' = Understood /\ Comma' = Comma
  BY DEF Understood, Comma
<1>t. Understood \in Texts
  BY UnderstoodIsSeq DEF ParserOK
<1>g. ASSUME NEW c \in Symbols, Feed(c)
      PROVE  /\ Fed \in Seq(Symbols)
             /\ c = Quote => Fed' = Fed
             /\ c # Quote => Fed' = Fed \o <<c>>
  BY <1>g, FedGrows DEF Feed
<1>1. ASSUME NEW c \in Symbols, Feed(c), FeedQuote(c) PROVE Placed'
  <2>0. Fed' = Fed
    BY <1>1, <1>g DEF FeedQuote
  <2>1. CASE expect = "value"
    BY <1>1, <1>u, <2>0, <2>1 DEF FeedQuote, Fail, Placed
  <2>2. CASE expect = "quoted_value"
    <3>1. Cell /\ expect' = "delimiter"
      BY <1>1, <2>2 DEF FeedQuote, Fail
    <3>2. Understood' = Fed /\ value' = <<>> /\ cells' # <<>>
      BY <2>2, <3>1, CellPlaces
    <3> QED
      BY <2>0, <3>1, <3>2 DEF Placed
  <2>3. CASE expect \notin {"value", "quoted_value"}
    BY <1>1, <1>f, <2>3 DEF FeedQuote
  <2> QED
    BY <2>1, <2>2, <2>3
<1>2. ASSUME NEW c \in Symbols, Feed(c), FeedDelimiter(c) PROVE Placed'
  <2>0. Fed' = Fed \o <<Delimiter>> /\ c = Delimiter
    BY <1>2, <1>g DEF FeedDelimiter, Delimiter, Quote
  <2>1. CASE expect = "delimiter"
    <3>1. expect' = "value" /\ UNCHANGED <<value, cells>>
      BY <1>2, <2>1 DEF FeedDelimiter
    <3>2. Fed = Understood /\ value = <<>> /\ cells # <<>>
      BY <2>1 DEF Placed
    <3>3. Understood' = Understood /\ Comma' = <<Delimiter>>
      BY <1>u, <3>1, <3>2 DEF Comma
    <3> QED
      BY <1>t, <2>0, <3>1, <3>2, <3>3, DelimiterPlaces
  <2>2. CASE expect = "quoted_value"
    <3>1. Store(c) /\ input' = Append(input, c)
      BY <1>2, <2>2 DEF FeedDelimiter, Feed
    <3> QED
      BY <2>0, <2>2, <3>1, StorePlaces
  <2>3. CASE expect = "value"
    <3>1. Cell /\ expect' = "value"
      BY <1>2, <2>3 DEF FeedDelimiter
    <3>2. /\ Understood' = Fed /\ Understood' \in Texts
          /\ value' = <<>> /\ Comma' = <<Delimiter>>
      BY <2>3, <3>1, CellPlaces
    <3> QED
      BY <2>0, <3>1, <3>2, DelimiterPlaces
  <2>4. CASE expect \in {"newline", "error"}
    BY <1>2, <1>f, <2>4 DEF FeedDelimiter
  <2> QED
    BY <2>1, <2>2, <2>3, <2>4 DEF ParserOK
<1>3. ASSUME NEW c \in Symbols, Feed(c), FeedNewline(c) PROVE Placed'
  <2>0. Fed' = Fed \o <<Newline>> /\ Fed \in Seq(Symbols)
    BY <1>3, <1>g DEF FeedNewline, Newline, Quote
  <2>1. CASE expect = "value"
    <3>1. Cell /\ expect' = "newline"
      BY <1>3, <2>1 DEF FeedNewline
    <3>2. Understood' = Fed /\ Understood' \in Texts
      BY <2>1, <3>1, CellPlaces
    <3>3. <<Newline>> = [i \in 1 .. 0 + 1 |-> Newline]
      OBVIOUS
    <3>4. 0 \in Nat /\ Fed' = Understood' \o [i \in 1 .. 0 + 1 |-> Newline]
      BY <2>0, <3>2, <3>3
    <3> QED
      BY <3>1, <3>2, <3>4, NewlinePlaces
  <2>2. CASE expect = "newline"
    <3>1. UNCHANGED <<expect, cells>>
      BY <1>3, <2>2 DEF FeedNewline, parser
    <3>2. PICK n \in 1 .. Len(Fed) :
            Fed = Understood \o [i \in 1 .. n |-> Newline]
      BY <2>2 DEF Placed
    <3> DEFINE ends == [i \in 1 .. n |-> Newline]
               more == [i \in 1 .. n + 1 |-> Newline]
    <3>3. n \in Nat /\ n - 1 \in Nat /\ (n - 1) + 1 = n
      BY <2>0
    <3>4. ends \in Seq({Newline})
      <4>1. [i \in 1 .. (n - 1) + 1 |-> Newline] \in Seq({Newline})
        BY <3>3, MoreNewlines
      <4> QED
        BY <3>3, <4>1
    <3>5. ends \o <<Newline>> = more
      BY <3>3, MoreNewlines
    <3>6. (Understood \o ends) \o <<Newline>>
            = Understood \o (ends \o <<Newline>>)
      <4> HIDE DEF ends
      <4>1. /\ Understood \in Seq(Symbols) /\ ends \in Seq(Symbols)
            /\ <<Newline>> \in Seq(Symbols)
        BY <1>t, <3>4 DEF Texts, Symbols
      <4> QED
        BY <4>1, SymbolsAssociate
    <3>7. Fed' = Understood' \o more
      BY <1>u, <2>0, <3>1, <3>2, <3>5, <3>6
    <3>8. Understood' \in Texts /\ expect' = "newline"
      BY <1>t, <1>u, <2>2, <3>1
    <3> QED
      BY <3>3, <3>7, <3>8, NewlinePlaces
  <2>3. CASE expect \in {"delimiter", "quoted_value", "error"}
    BY <1>3, <1>f, <2>3 DEF FeedNewline
  <2> QED
    BY <2>1, <2>2, <2>3 DEF ParserOK
<1>4. ASSUME NEW c \in Symbols, Feed(c), FeedOther(c) PROVE Placed'
  <2>1. CASE expect \in {"value", "quoted_value"}
    <3>1. Store(c) /\ input' = Append(input, c) /\ c \in Chars
      BY <1>4, <2>1 DEF FeedOther, Feed
    <3> QED
      BY <2>1, <3>1, StorePlaces
  <2>2. CASE expect \in {"delimiter", "newline", "error"}
    BY <1>4, <1>f, <2>2 DEF FeedOther
  <2> QED
    BY <2>1, <2>2 DEF ParserOK
<1>5. CASE UNCHANGED vars
  BY <1>5 DEF vars, parser, Placed, Fed, Understood, Comma
<1> QED
  BY <1>1, <1>2, <1>3, <1>4, <1>5 DEF Next, Feed

(* No character is lost, doubled or moved into another cell, whatever the  *)
(* document is and however it is quoted.                                   *)
THEOREM NothingIsMisplaced == Spec => []NothingMisplaced
<1>1. Init => input \in Seq(Symbols)
  BY DEF Init
<1>2. input \in Seq(Symbols) /\ [Next]_vars => (input \in Seq(Symbols))'
  BY DEF Next, Feed, vars
<1>3. CInv /\ Placed => NothingMisplaced
  BY DEF CInv, ParserOK, Placed, NothingMisplaced, Comma
<1> QED
  BY <1>1, <1>2, <1>3, AlwaysCInv, InitPlaced, StepPlaced, PTL DEF Spec
-----------------------------------------------------------------------------
(* LevelIsSecondField needs to know, of a document without quotes, how far *)
(* into it the parser is: in the first field, in the second, behind it, or *)
(* behind a document that has none the sink could be given.                *)
Free(s, a, b) == \A k \in a .. b : s[k] \notin {Delimiter, Newline}

NoQuotes == \A k \in 1 .. Len(input) : input[k] # Quote

InFirst ==
  /\ expect = "value"
  /\ cells = <<>>
  /\ level = 0
  /\ value = input
  /\ Free(input, 1, Len(input))

SecondStarts(i) ==
  /\ input[i] = Delimiter
  /\ Free(input, 1, i - 1)
  /\ Free(input, i + 1, Len(input))
  /\ i - 1 < Capacity
  /\ value = SubSeq(input, i + 1, Len(input))

InSecond ==
  /\ expect = "value"
  /\ Len(cells) = 1
  /\ level = 0
  /\ \E i \in 1 .. Len(input) : SecondStarts(i)

Behind ==
  /\ expect \in {"value", "newline", "error"}
  /\ Len(cells) >= 2
  /\ \E i, j \in 1 .. Len(input) :
       SecondField(i, j) /\ level = Atoi(SubSeq(input, i + 1, j - 1))

(* The first line has one field only, the first field is too long for the  *)
(* buffer, or the second is.                                               *)
NoSecond(s) ==
  \/ \E i \in 1 .. Len(s) : s[i] = Newline /\ Free(s, 1, i - 1)
  \/ Capacity <= Len(s) /\ Free(s, 1, Capacity)
  \/ \E i \in 1 .. Len(s) :
       /\ s[i] = Delimiter
       /\ Free(s, 1, i - 1)
       /\ i + Capacity <= Len(s)
       /\ Free(s, i + 1, i + Capacity)

Never ==
  /\ expect \in {"newline", "error"}
  /\ level = 0
  /\ NoSecond(input)

FieldsOK == NoQuotes => InFirst \/ InSecond \/ Behind \/ Never

LEMMA InitFields == Init => FieldsOK
BY DEF Init, FieldsOK, InFirst, Free

(* The characters fed before stay where they are.                          *)
LEMMA OneMore ==
  ASSUME NEW s \in Seq(Symbols), NEW c \in Symbols
  PROVE  /\ Append(s, c) \in Seq(Symbols)
         /\ Len(s) \in Nat
         /\ Len(Append(s, c)) = Len(s) + 1
         /\ \A k \in 1 .. Len(s) : Append(s, c)[k] = s[k]
         /\ Append(s, c)[Len(s) + 1] = c
<1> HIDE DEF Symbols
<1> QED
  OBVIOUS

LEMMA SubSeqStays ==
  ASSUME NEW s \in Seq(Symbols), NEW c \in Symbols,
         NEW a \in 1 .. Len(s) + 1, NEW b \in 0 .. Len(s)
  PROVE  SubSeq(Append(s, c), a, b) = SubSeq(s, a, b)
<1> DEFINE t == Append(s, c)
<1>1. /\ t \in Seq(Symbols) /\ Len(s) \in Nat /\ a \in Int /\ b \in Int
      /\ \A i \in 1 .. Len(s) : t[i] = s[i]
  BY OneMore
<1> HIDE DEF t
<1>2. \A i \in a .. b : s[i] \in Symbols /\ t[i] = s[i]
  <2> HIDE DEF Symbols
  <2>1. \A i \in 1 .. Len(s) : s[i] \in Symbols
    OBVIOUS
  <2> QED
    BY <1>1, <2>1
<1>3. /\ SubSeq(s, a, b) \in Seq(Symbols)
      /\ Len(SubSeq(s, a, b)) = IF a <= b THEN b - a + 1 ELSE 0
      /\ \A i \in 1 .. b - a + 1 : SubSeq(s, a, b)[i] = s[a + i - 1]
  <2>1. \A i \in a .. b : s[i] \in Symbols
    BY <1>2
  <2> HIDE DEF Symbols
  <2> QED
    BY <1>1, <2>1, SubSeqProperties
<1>4. /\ SubSeq(t, a, b) \in Seq(Symbols)
      /\ Len(SubSeq(t, a, b)) = IF a <= b THEN b - a + 1 ELSE 0
      /\ \A i \in 1 .. b - a + 1 : SubSeq(t, a, b)[i] = t[a + i - 1]
  <2>1. \A i \in a .. b : t[i] \in Symbols
    BY <1>2
  <2> HIDE DEF Symbols
  <2> QED
    BY <1>1, <2>1, SubSeqProperties
<1>5. CASE a <= b
  <2>1. \A i \in 1 .. b - a + 1 : a + i - 1 \in a .. b
    BY <1>1
  <2>2. \A i \in 1 .. b - a + 1 : SubSeq(s, a, b)[i] = SubSeq(t, a, b)[i]
    BY <1>2, <1>3, <1>4, <2>1
  <2>3. \A i \in 1 .. Len(SubSeq(s, a, b)) :
          SubSeq(s, a, b)[i] = SubSeq(t, a, b)[i]
    BY <1>3, <1>5, <2>2
  <2> QED
    BY <1>3, <1>4, <1>5, <2>3, SeqEqual DEF t
<1>6. CASE ~(a <= b)
  <2>1. b < a
    BY <1>1, <1>6
  <2> QED
    BY <1>1, <2>1, SubSeqEmpty DEF t
<1> QED
  BY <1>5, <1>6

LEMMA SubSeqGrows ==
  ASSUME NEW s \in Seq(Symbols), NEW c \in Symbols,
         NEW a \in 1 .. Len(s) + 1
  PROVE  SubSeq(Append(s, c), a, Len(s) + 1) = Append(SubSeq(s, a, Len(s)), c)
<1> DEFINE t == Append(s, c)
<1>1. /\ t \in Seq(Symbols) /\ Len(s) \in Nat /\ Len(t) = Len(s) + 1
      /\ t[Len(s) + 1] = c
  BY OneMore
<1>2. SubSeq(t, a, Len(s)) = SubSeq(s, a, Len(s))
  <2>1. Len(s) \in 0 .. Len(s)
    BY <1>1
  <2> QED
    BY <2>1, SubSeqStays
<1>3. a \in 1 .. Len(t) /\ Len(s) + 1 \in a .. Len(t)
      /\ (Len(s) + 1) - 1 = Len(s)
  BY <1>1
<1> HIDE DEF t
<1>4. SubSeq(t, a, Len(s) + 1)
        = SubSeq(t, a, (Len(s) + 1) - 1) \o <<t[Len(s) + 1]>>
  BY <1>1, <1>3, SubSeqRecursiveSecond
<1>5. SubSeq(s, a, Len(s)) \in Seq(Symbols)
  <2> HIDE DEF Symbols
  <2>1. \A i \in a .. Len(s) : s[i] \in Symbols
    <3>1. \A i \in a .. Len(s) : i \in 1 .. Len(s)
      BY <1>1
    <3> QED
      BY <3>1
  <2>2. a \in Int /\ Len(s) \in Int
    BY <1>1
  <2> QED
    BY <2>1, <2>2, SubSeqProperties
<1>6. SubSeq(s, a, Len(s)) \o <<c>> = Append(SubSeq(s, a, Len(s)), c)
  BY <1>5, AppendIsConcat
<1> QED
  BY <1>1, <1>2, <1>3, <1>4, <1>6 DEF t

LEMMA FreeStays ==
  ASSUME NEW s \in Seq(Symbols), NEW c \in Symbols,
         NEW a \in Nat \ {0}, NEW b \in Int, b <= Len(s)
  PROVE  Free(Append(s, c), a, b) <=> Free(s, a, b)
<1>1. \A k \in a .. b : k \in 1 .. Len(s)
  OBVIOUS
<1> QED
  BY <1>1, OneMore DEF Free

LEMMA FreeGrows ==
  ASSUME NEW s \in Seq(Symbols), NEW c \in Symbols,
         NEW a \in Nat \ {0}, Free(s, a, Len(s)), c \notin {Delimiter, Newline}
  PROVE  Free(Append(s, c), a, Len(s) + 1)
<1>1. \A k \in a .. Len(s) + 1 : \/ k \in 1 .. Len(s) /\ k \in a .. Len(s)
                                 \/ k = Len(s) + 1
  OBVIOUS
<1> QED
  BY <1>1, OneMore DEF Free

LEMMA NoSecondStays ==
  ASSUME NEW s \in Seq(Symbols), NEW c \in Symbols, NoSecond(s)
  PROVE  NoSecond(Append(s, c))
<1> DEFINE t == Append(s, c)
<1>1. /\ Len(s) \in Nat /\ Len(t) = Len(s) + 1
      /\ \A k \in 1 .. Len(s) : t[k] = s[k]
      /\ 1 .. Len(s) \subseteq 1 .. Len(t)
  BY OneMore
<1>2. \A a \in Nat \ {0}, b \in Int :
        b <= Len(s) => (Free(t, a, b) <=> Free(s, a, b))
  BY FreeStays
<1> HIDE DEF t
<1>3. ASSUME NEW i \in 1 .. Len(s), s[i] = Newline, Free(s, 1, i - 1)
      PROVE  NoSecond(t)
  <2>1. i - 1 \in Int /\ i - 1 <= Len(s)
    BY <1>1
  <2>2. Free(t, 1, i - 1) /\ t[i] = Newline /\ i \in 1 .. Len(t)
    BY <1>1, <1>2, <1>3, <2>1
  <2> QED
    BY <2>2 DEF NoSecond
<1>4. ASSUME Capacity <= Len(s), Free(s, 1, Capacity)
      PROVE  NoSecond(t)
  BY <1>1, <1>2, <1>4, InputAssumption DEF NoSecond
<1>5. ASSUME NEW i \in 1 .. Len(s), s[i] = Delimiter, Free(s, 1, i - 1),
             i + Capacity <= Len(s), Free(s, i + 1, i + Capacity)
      PROVE  NoSecond(t)
  <2>1. /\ i - 1 \in Int /\ i - 1 <= Len(s) /\ i + 1 \in Nat \ {0}
        /\ i + Capacity \in Int /\ i + Capacity <= Len(t)
    BY <1>1, <1>5, InputAssumption
  <2>2. /\ Free(t, 1, i - 1) /\ Free(t, i + 1, i + Capacity)
        /\ t[i] = Delimiter /\ i \in 1 .. Len(t)
    BY <1>1, <1>2, <1>5, <2>1
  <2> QED
    BY <2>1, <2>2 DEF NoSecond
<1> QED
  BY <1>3, <1>4, <1>5 DEF NoSecond, t

LEMMA FailsBehind ==
  ASSUME NEW c \in Symbols, input \in Seq(Symbols), input' = Append(input, c),
         NoSecond(input), level' = 0, expect' \in {"newline", "error"}
  PROVE  Never'
<1>1. NoSecond(input')
  BY NoSecondStays
<1> QED
  BY <1>1 DEF Never, NoSecond, Free

LEMMA StepFirst ==
  ASSUME CInv, InFirst, input \in Seq(Symbols),
         NEW c \in Symbols, c # Quote, Feed(c)
  PROVE  FieldsOK'
<1> DEFINE n == Len(input)
<1>1. /\ input' = Append(input, c) /\ n \in Nat
      /\ Len(input') = n + 1 /\ input'[n + 1] = c
      /\ input' \in Seq(Symbols)
  BY OneMore DEF Feed
<1>2. /\ expect = "value" /\ cells = <<>> /\ level = 0 /\ value = input
      /\ Free(input, 1, n) /\ Len(cells) = 0
  BY DEF InFirst
<1>3. row = 0 /\ column = 0 /\ n < Capacity
  BY <1>2 DEF CInv, CountersOK, CellsFit
<1>4. Free(input', 1, n)
  BY <1>1, <1>2, FreeStays
<1>5. CASE c = Delimiter
  <2>1. Cell /\ expect' = "value"
    BY <1>2, <1>5, InputAssumption
       DEF Feed, FeedDelimiter, FeedQuote, FeedNewline, FeedOther, Newline,
           Quote, Delimiter
  <2>2. level' = 0 /\ value' = <<>>
    BY <1>2, <1>3, <2>1 DEF Cell
  <2>3. Len(cells') = 1
    BY <1>2, <2>1, CellKeeps DEF CInv
  <2>4. SubSeq(input', (n + 1) + 1, n + 1) = <<>>
    <3>1. (n + 1) + 1 \in Int /\ n + 1 \in Int /\ n + 1 < (n + 1) + 1
      BY <1>1
    <3> QED
      BY <3>1, SubSeqEmpty
  <2>5. Free(input', (n + 1) + 1, n + 1)
    BY <1>1 DEF Free
  <2>6. n + 1 \in 1 .. Len(input') /\ (n + 1) - 1 = n
    BY <1>1
  <2> HIDE DEF n
  <2>7. InSecond'
    <3>1. PICK m \in 1 .. Len(input') : m = n + 1
      BY <2>6
    <3>2. SecondStarts(m)'
      BY <1>1, <1>3, <1>4, <1>5, <2>2, <2>4, <2>5, <2>6, <3>1
         DEF SecondStarts, Free
    <3> QED
      BY <2>1, <2>2, <2>3, <3>2 DEF InSecond
  <2> QED
    BY <2>7 DEF FieldsOK
<1>6. CASE c = Newline
  <2>1. Cell /\ expect' = "newline"
    BY <1>2, <1>6, InputAssumption
       DEF Feed, FeedDelimiter, FeedQuote, FeedNewline, FeedOther, Newline,
           Quote, Delimiter
  <2>2. level' = 0
    BY <1>2, <1>3, <2>1 DEF Cell
  <2>3. n + 1 \in 1 .. Len(input') /\ (n + 1) - 1 = n
    BY <1>1
  <2> HIDE DEF n
  <2>4. NoSecond(input')
    BY <1>1, <1>4, <1>6, <2>3 DEF NoSecond
  <2> QED
    BY <2>1, <2>2, <2>4 DEF FieldsOK, Never, NoSecond, Free
<1>7. CASE c \notin {Delimiter, Newline}
  <2>1. Store(c)
    BY <1>2, <1>7
       DEF Feed, FeedDelimiter, FeedQuote, FeedNewline, FeedOther
  <2>2. Free(input', 1, n + 1)
    BY <1>1, <1>2, <1>7, FreeGrows
  <2>3. CASE HasRoom
    <3>1. value' = input' /\ UNCHANGED <<expect, cells, level>>
      BY <1>1, <1>2, <2>1, <2>3 DEF Store
    <3> QED
      BY <1>1, <1>2, <2>2, <3>1 DEF FieldsOK, InFirst, Free
  <2>4. CASE ~HasRoom
    <3>1. n + 1 = Capacity
      BY <1>1, <1>2, <1>3, <2>4, InputAssumption DEF HasRoom
    <3>2. expect' = "error" /\ level' = 0
      BY <1>2, <2>1, <2>4 DEF Store, Fail
    <3> HIDE DEF n
    <3>3. NoSecond(input')
      BY <1>1, <2>2, <3>1, InputAssumption DEF NoSecond
    <3> QED
      BY <3>2, <3>3 DEF FieldsOK, Never, NoSecond, Free
  <2> QED
    BY <2>3, <2>4
<1> QED
  BY <1>5, <1>6, <1>7

LEMMA StepSecond ==
  ASSUME CInv, InSecond, input \in Seq(Symbols),
         NEW c \in Symbols, c # Quote, Feed(c)
  PROVE  FieldsOK'
<1> DEFINE n == Len(input)
<1>1. /\ input' = Append(input, c) /\ n \in Nat
      /\ Len(input') = n + 1 /\ input'[n + 1] = c
      /\ \A k \in 1 .. n : input'[k] = input[k]
  BY OneMore DEF Feed
<1>2. /\ expect = "value" /\ Len(cells) = 1 /\ level = 0
  BY DEF InSecond
<1>3. row = 0 /\ column = 1
  BY <1>2 DEF CInv, CountersOK
<1>4. PICK i \in 1 .. n : SecondStarts(i)
  BY DEF InSecond
<1>5. /\ input[i] = Delimiter /\ Free(input, 1, i - 1)
      /\ Free(input, i + 1, n) /\ i - 1 < Capacity
      /\ value = SubSeq(input, i + 1, n)
  BY <1>4 DEF SecondStarts
<1>6. Len(value) = n - i /\ n - i < Capacity
  <2>1. Len(SubSeq(input, i + 1, n)) = IF i + 1 <= n THEN n - (i + 1) + 1 ELSE 0
    <3>1. \A k \in i + 1 .. n : input[k] \in Symbols
      <4> HIDE DEF Symbols
      <4>1. \A k \in i + 1 .. n : k \in 1 .. Len(input)
        OBVIOUS
      <4> QED
        BY <4>1
    <3>2. i + 1 \in Int /\ n \in Int
      BY <1>1
    <3> HIDE DEF n
    <3> QED
      BY <3>1, <3>2, SubSeqProperties
  <2>2. Len(value) < Capacity
    BY DEF CInv, CellsFit
  <2>3. Len(value) = n - i
    BY <1>1, <1>5, <2>1
  <2> QED
    BY <2>2, <2>3
<1>7. i + 1 \in 1 .. n + 1 /\ i \in 1 .. n + 1 /\ i \in Nat
      /\ i + 1 \in Nat \ {0}
  BY <1>1
<1>8. Free(input', 1, i - 1) /\ Free(input', i + 1, n) /\ input'[i] = Delimiter
  <2>1. i - 1 \in Int /\ i - 1 <= n /\ n \in Int /\ n <= n
    BY <1>1
  <2> QED
    BY <1>1, <1>5, <1>7, <2>1, FreeStays
<1>9. CASE c \in {Delimiter, Newline}
  <2>1. Cell /\ expect' \in {"value", "newline"}
    BY <1>2, <1>9, InputAssumption
       DEF Feed, FeedDelimiter, FeedQuote, FeedNewline, FeedOther, Newline,
           Quote, Delimiter
  <2>2. level' = Atoi(SubSeq(input, i + 1, n))
    BY <1>3, <1>5, <2>1 DEF Cell
  <2>3. Len(cells') = 2
    BY <1>2, <2>1, CellKeeps DEF CInv
  <2>4. SubSeq(input', i + 1, (n + 1) - 1) = SubSeq(input, i + 1, n)
    <3>1. (n + 1) - 1 = n /\ n \in 0 .. n
      BY <1>1
    <3> QED
      BY <1>1, <1>7, <3>1, SubSeqStays
  <2>5. /\ i < n + 1 /\ (n + 1) - i - 1 < Capacity
        /\ n + 1 \in 1 .. Len(input') /\ i \in 1 .. Len(input')
    BY <1>1, <1>6
  <2>6. \A k \in 1 .. n + 1 :
          k \in 1 .. i - 1 \/ k \in i + 1 .. n \/ k \in {i, n + 1}
    BY <1>1
  <2> HIDE DEF n
  <2>7. PICK m \in 1 .. Len(input') : m = n + 1
    BY <2>5
  <2>8. SecondField(i, m)'
    BY <1>1, <1>5, <1>8, <1>9, <2>5, <2>6, <2>7
       DEF SecondField, EndsField, Free
  <2>9. level' = Atoi(SubSeq(input', i + 1, m - 1))
    BY <2>2, <2>4, <2>7
  <2>10. Behind'
    BY <2>1, <2>3, <2>5, <2>8, <2>9 DEF Behind
  <2> QED
    BY <2>10 DEF FieldsOK
<1>10. CASE c \notin {Delimiter, Newline}
  <2>1. Store(c)
    BY <1>2, <1>10
       DEF Feed, FeedDelimiter, FeedQuote, FeedNewline, FeedOther
  <2>2. Free(input', i + 1, n + 1)
    BY <1>1, <1>5, <1>7, <1>10, FreeGrows
  <2>3. CASE HasRoom
    <3>1. value' = Append(value, c) /\ UNCHANGED <<expect, cells, level>>
      BY <2>1, <2>3 DEF Store
    <3>2. value' = SubSeq(input', i + 1, n + 1)
      BY <1>1, <1>5, <1>7, <3>1, SubSeqGrows
    <3> HIDE DEF n
    <3>3. SecondStarts(i)'
      BY <1>1, <1>5, <1>8, <2>2, <3>2 DEF SecondStarts, Free
    <3> QED
      BY <1>1, <1>2, <1>7, <3>1, <3>3 DEF FieldsOK, InSecond
  <2>4. CASE ~HasRoom
    <3>1. n + 1 = i + Capacity
      BY <1>1, <1>6, <2>4, InputAssumption DEF HasRoom
    <3>2. expect' = "error" /\ level' = 0
      BY <1>2, <2>1, <2>4 DEF Store, Fail
    <3>3. i + Capacity <= Len(input')
      BY <1>1, <3>1
    <3> HIDE DEF n
    <3>4. NoSecond(input')
      BY <1>1, <1>7, <1>8, <2>2, <3>1, <3>3 DEF NoSecond
    <3> QED
      BY <3>2, <3>4 DEF FieldsOK, Never, NoSecond, Free
  <2> QED
    BY <2>3, <2>4
<1> QED
  BY <1>9, <1>10

(* The level is set once: the sink is never given column 1 again.          *)
LEMMA LevelStays ==
  ASSUME CInv, Len(cells) >= 2, expect \in {"value", "newline", "error"},
         NEW c \in Symbols, c # Quote, Feed(c)
  PROVE  /\ level' = level
         /\ Len(cells') >= 2
         /\ expect' \in {"value", "newline", "error"}
<1>1. CASE UNCHANGED <<cells, level>>
  BY <1>1
     DEF Feed, FeedDelimiter, FeedQuote, FeedNewline, FeedOther, Store, Fail,
         parser
<1>2. CASE Cell /\ expect = "value"
  <2>1. column = Len(cells) /\ Len(cells) \in Nat
    BY <1>2 DEF CInv, CountersOK, ParserOK
  <2>2. Len(cells') = Len(cells) + 1
    BY <1>2, CellKeeps DEF CInv
  <2>3. level' = level
    BY <1>2, <2>1 DEF Cell
  <2>4. expect' \in {"value", "newline", "error"}
    BY <1>2
       DEF Feed, FeedDelimiter, FeedQuote, FeedNewline, FeedOther, Store, Fail
  <2> QED
    BY <2>1, <2>2, <2>3, <2>4
<1> QED
  BY <1>1, <1>2
     DEF Feed, FeedDelimiter, FeedQuote, FeedNewline, FeedOther, Store, Fail,
         parser

LEMMA StepBehind ==
  ASSUME CInv, Behind, input \in Seq(Symbols),
         NEW c \in Symbols, c # Quote, Feed(c)
  PROVE  FieldsOK'
<1> DEFINE n == Len(input)
<1>1. /\ input' = Append(input, c) /\ n \in Nat /\ Len(input') = n + 1
      /\ \A k \in 1 .. n : input'[k] = input[k]
  BY OneMore DEF Feed
<1>2. PICK i, j \in 1 .. n :
        SecondField(i, j) /\ level = Atoi(SubSeq(input, i + 1, j - 1))
  BY DEF Behind
<1>3. /\ i + 1 \in 1 .. n + 1 /\ j - 1 \in 0 .. n
      /\ i \in 1 .. n + 1 /\ j \in 1 .. n + 1
      /\ \A k \in 1 .. j : k \in 1 .. n
  BY <1>1
<1>4. SubSeq(input', i + 1, j - 1) = SubSeq(input, i + 1, j - 1)
  BY <1>1, <1>3, SubSeqStays
<1>5. /\ level' = level /\ Len(cells') >= 2
      /\ expect' \in {"value", "newline", "error"}
  BY LevelStays DEF Behind
<1> HIDE DEF n
<1>6. SecondField(i, j)'
  BY <1>1, <1>2, <1>3 DEF SecondField, EndsField
<1>7. Behind'
  BY <1>1, <1>2, <1>3, <1>4, <1>5, <1>6 DEF Behind
<1> QED
  BY <1>7 DEF FieldsOK

LEMMA StepNever ==
  ASSUME Never, input \in Seq(Symbols),
         NEW c \in Symbols, c # Quote, Feed(c)
  PROVE  FieldsOK'
<1>1. level' = 0 /\ expect' \in {"newline", "error"}
  BY DEF Never, Feed, FeedDelimiter, FeedQuote, FeedNewline, FeedOther, Fail,
         parser
<1>2. NoSecond(input) /\ input' = Append(input, c)
  BY DEF Never, Feed
<1>3. Never'
  BY <1>1, <1>2, FailsBehind
<1> QED
  BY <1>3 DEF FieldsOK

LEMMA StepFields ==
  CInv /\ input \in Seq(Symbols) /\ FieldsOK /\ [Next]_vars => FieldsOK'
<1> SUFFICES ASSUME CInv, input \in Seq(Symbols), FieldsOK, [Next]_vars
             PROVE  FieldsOK'
  OBVIOUS
<1>1. ASSUME NEW c \in Symbols, Feed(c), NoQuotes'
      PROVE  FieldsOK'
  <2>1. /\ input' = Append(input, c) /\ Len(input) \in Nat
        /\ Len(input') = Len(input) + 1 /\ input'[Len(input) + 1] = c
        /\ \A k \in 1 .. Len(input) : input'[k] = input[k]
    BY <1>1, OneMore DEF Feed
  <2>2. /\ Len(input) + 1 \in 1 .. Len(input')
        /\ \A k \in 1 .. Len(input) : k \in 1 .. Len(input')
    BY <2>1
  <2>3. c # Quote /\ NoQuotes
    BY <1>1, <2>1, <2>2 DEF NoQuotes
  <2>4. InFirst \/ InSecond \/ Behind \/ Never
    BY <2>3 DEF FieldsOK
  <2> QED
    BY <1>1, <2>3, <2>4, StepFirst, StepSecond, StepBehind, StepNever
<1>2. CASE UNCHANGED vars
  BY <1>2
     DEF vars, parser, FieldsOK, NoQuotes, InFirst, InSecond, Behind, Never,
         NoSecond, SecondStarts, SecondField, EndsField, Free
<1>3. ~NoQuotes' => FieldsOK'
  BY DEF FieldsOK
<1> QED
  BY <1>1, <1>2, <1>3 DEF Next

(* A document in one of those phases has a complete second field exactly   *)
(* when the parser is behind it.                                           *)
LEMMA NoneComplete ==
  ASSUME input \in Seq(Symbols), NEW i \in 1 .. Len(input),
         NEW j \in 1 .. Len(input), SecondField(i, j),
         NoSecond(input)
  PROVE  FALSE
<1>1. /\ i < j /\ input[i] = Delimiter /\ EndsField(j)
      /\ \A k \in 1 .. j : EndsField(k) => k \in {i, j}
      /\ i - 1 < Capacity /\ j - i - 1 < Capacity
  BY DEF SecondField
<1>2. Delimiter # Newline
  BY DEF Delimiter, Newline
<1>3. ASSUME NEW h \in 1 .. Len(input), input[h] = Newline,
             Free(input, 1, h - 1)
      PROVE  FALSE
  <2>1. ~(i \in 1 .. h - 1) /\ ~(j \in 1 .. h - 1)
    BY <1>1, <1>3 DEF Free, EndsField
  <2>2. h \in 1 .. j /\ (h < i \/ h = i)
    BY <1>1, <2>1
  <2> QED
    BY <1>1, <1>2, <1>3, <2>2 DEF EndsField
<1>4. ASSUME Free(input, 1, Capacity) PROVE FALSE
  <2>1. i \in 1 .. Capacity
    BY <1>1, InputAssumption
  <2> QED
    BY <1>1, <1>4, <2>1 DEF Free
<1>5. ASSUME NEW h \in 1 .. Len(input), input[h] = Delimiter,
             Free(input, 1, h - 1), Free(input, h + 1, h + Capacity)
      PROVE  FALSE
  <2>1. ~(i \in 1 .. h - 1)
    BY <1>1, <1>5 DEF Free
  <2>2. i = h
    <3>1. h \in 1 .. j
      BY <1>1, <2>1
    <3>2. h \in {i, j}
      BY <1>1, <1>5, <3>1 DEF EndsField
    <3> QED
      BY <1>1, <2>1, <3>2
  <2>3. j \in h + 1 .. h + Capacity
    BY <1>1, <2>2, InputAssumption
  <2> QED
    BY <1>1, <1>5, <2>3 DEF Free, EndsField
<1> QED
  BY <1>3, <1>4, <1>5 DEF NoSecond

LEMMA FieldsImplyLevel ==
  input \in Seq(Symbols) /\ FieldsOK => LevelIsSecondField
<1> SUFFICES ASSUME input \in Seq(Symbols), FieldsOK, NoQuotes
             PROVE  LevelIsSecondField
  BY DEF LevelIsSecondField, NoQuotes
<1> DEFINE complete == {p \in (1 .. Len(input)) \X (1 .. Len(input)) :
                          SecondField(p[1], p[2])}
<1>1. SUFFICES \/ complete = {} /\ level = 0
               \/ \E p \in complete :
                    level = Atoi(SubSeq(input, p[1] + 1, p[2] - 1))
  BY DEF LevelIsSecondField
<1>2. CASE InFirst
  <2>1. \A i, j \in 1 .. Len(input) : ~SecondField(i, j)
    BY <1>2 DEF InFirst, SecondField, EndsField, Free
  <2> QED
    BY <1>2, <2>1 DEF InFirst
<1>3. CASE InSecond
  <2>1. PICK h \in 1 .. Len(input) : SecondStarts(h)
    BY <1>3 DEF InSecond
  <2>2. ASSUME NEW i \in 1 .. Len(input), NEW j \in 1 .. Len(input),
               SecondField(i, j)
        PROVE  FALSE
    <3>1. i < j /\ input[i] \in {Delimiter, Newline}
          /\ input[j] \in {Delimiter, Newline}
      BY <2>2 DEF SecondField, EndsField
    <3>2. \A k \in 1 .. Len(input) :
            input[k] \in {Delimiter, Newline} => k = h
      <4>1. \A k \in 1 .. Len(input) :
              k \in 1 .. h - 1 \/ k \in h + 1 .. Len(input) \/ k = h
        OBVIOUS
      <4> QED
        BY <2>1, <4>1 DEF SecondStarts, Free
    <3> QED
      BY <3>1, <3>2
  <2> QED
    BY <1>3, <2>2 DEF InSecond
<1>4. CASE Behind
  <2>1. PICK i, j \in 1 .. Len(input) :
          SecondField(i, j) /\ level = Atoi(SubSeq(input, i + 1, j - 1))
    BY <1>4 DEF Behind
  <2>2. <<i, j>> \in complete /\ <<i, j>>[1] = i /\ <<i, j>>[2] = j
    BY <2>1
  <2> HIDE DEF complete
  <2> QED
    BY <2>1, <2>2
<1>5. CASE Never
  BY <1>5, NoneComplete DEF Never
<1> QED
  BY <1>2, <1>3, <1>4, <1>5 DEF FieldsOK

(* The level is the number in the second field of the first line: set once *)
(* that field is complete, never from another field, and never from half   *)
(* of one, however the document goes on.                                   *)
THEOREM LevelIsTheSecondField == Spec => []LevelIsSecondField
<1>1. Init => input \in Seq(Symbols)
  BY DEF Init
<1>2. input \in Seq(Symbols) /\ [Next]_vars => (input \in Seq(Symbols))'
  BY DEF Next, Feed, vars
<1> QED
  BY <1>1, <1>2, AlwaysCInv, InitFields, StepFields, FieldsImplyLevel, PTL
     DEF Spec
=============================================================================
