----------------------------- MODULE TexLayout -----------------------------
(***************************************************************************)
(* What a LaTeX table consists of, and the two dialects it is written in   *)
(* (gerrytools/latex: _table_options.py, _table_layout.py,                 *)
(* _table_preamble.py, _text.py, formatters.py, commands.py, table.py,     *)
(* tikz_table.py).                                                         *)
(*                                                                         *)
(* Rows, columns and boundaries count from 0 as in the code, and are the   *)
(* domains of functions; what is typeset counts from 1.  A boundary lies   *)
(* before every column and after the last.  Text is left out: a header     *)
(* cell is the column it names, a cell is what has formatted it.           *)
(***************************************************************************)
EXTENDS Integers, SequencesExt

CONSTANTS
  Columns,            \* the column labels of the data frame, in order
  Rows,               \* the number of its rows
  CellKinds,          \* by row and column: "nan", "bool", "low", "high" or "text"
  Primitives,         \* the formatters that are not composed of others
  CommandsOf,         \* by primitive: the LaTeX commands that define it
  FillOf              \* by primitive: the color it fills cells with, or "none", and which kinds

NColumns == Len(Columns)
RowIndices == 0..(Rows - 1)

ASSUME LayoutAssumption ==
  /\ Columns \in Seq(STRING) /\ Columns # <<>> /\ IsInjective(Columns)
  /\ Rows \in Nat
  /\ CellKinds \in [RowIndices -> [ToSet(Columns) -> {"nan", "bool", "low", "high", "text"}]]
  /\ DOMAIN CommandsOf = Primitives /\ DOMAIN FillOf = Primitives

-----------------------------------------------------------------------------
(* Boundaries and preambles *)

NoBoundary == [vrules |-> 0, extra |-> <<>>]

Merged(left, right) ==
  [vrules |-> left.vrules + right.vrules, extra |-> left.extra \o right.extra]

WithRules(boundary, count) == [boundary EXCEPT !.vrules = @ + count]

\* The tokens around a column: what closes the one before, stands between, opens the next.
Closing(boundary) == SelectSeq(boundary.extra, LAMBDA token : token = "<")
Between(boundary) == SelectSeq(boundary.extra, LAMBDA token : token \in {"@", "!"})
Opening(boundary) == SelectSeq(boundary.extra, LAMBDA token : token = ">")

PlainPreamble(n) ==
  [alignments |-> [i \in 0..(n - 1) |-> "c"], boundaries |-> [b \in 0..n |-> NoBoundary]]

\* The check on lengths that every use of a preamble begins with.
Fits(preamble, n) ==
  DOMAIN preamble.alignments = 0..(n - 1) /\ DOMAIN preamble.boundaries = 0..n

WithoutVRules(preamble) ==
  [preamble EXCEPT !.boundaries = [b \in DOMAIN @ |-> [@[b] EXCEPT !.vrules = 0]]]

\* Columns take their alignment and the tokens that open and close them along; rules and the
\* tokens between columns stay where they are.
Reordered(preamble, order, n) ==
  LET at == preamble.boundaries
  IN  IF order = [i \in 0..(n - 1) |-> i] THEN preamble
      ELSE [alignments |-> [i \in 0..(n - 1) |-> preamble.alignments[order[i]]],
            boundaries |->
              [b \in 0..n |->
                 [vrules |-> at[b].vrules,
                  extra |-> Closing(at[IF b = 0 THEN 0 ELSE order[b - 1] + 1])
                            \o Between(at[b])
                            \o Opening(at[IF b = n THEN n ELSE order[b]])]]]

PlainIndex == [alignment |-> "c", left |-> NoBoundary, right |-> NoBoundary]

IndexWithoutVRules(index) == [index EXCEPT !.left.vrules = 0, !.right.vrules = 0]

\* The index column and its two boundaries, split off a format that begins with it.
IndexOf(parsed) ==
  [alignment |-> parsed.alignments[0], left |-> parsed.boundaries[0], right |-> parsed.boundaries[1]]
WithoutIndex(parsed, n) ==
  [alignments |-> [i \in 0..(n - 1) |-> parsed.alignments[i + 1]],
   boundaries |-> [b \in 0..n |-> IF b = 0 THEN NoBoundary ELSE parsed.boundaries[b + 1]]]

-----------------------------------------------------------------------------
(* Formats: a tabular format is a sequence of tokens *)

ColumnTypes == {"l", "c", "r", "p", "m", "b", "S", "D"}
BoundaryTokens == {"|", "@", "!", ">", "<"}

IsColumn(token) == token \in ColumnTypes
NumberOfColumns(fmt) == Cardinality({i \in DOMAIN fmt : IsColumn(fmt[i])})

\* A stray or unbalanced token is refused.
IsParsed(fmt) == \A i \in DOMAIN fmt : fmt[i] \in ColumnTypes \cup BoundaryTokens

\* Where the k-th column stands; the format begins after column 0 and ends before the last.
ColumnAt(fmt, k) ==
  CASE k = 0 -> 0
    [] k > NumberOfColumns(fmt) -> Len(fmt) + 1
    [] OTHER -> CHOOSE i \in DOMAIN fmt :
                  IsColumn(fmt[i]) /\ NumberOfColumns(SubSeq(fmt, 1, i)) = k

ParseTabularPreamble(fmt) ==
  LET n == NumberOfColumns(fmt)
      tokens(b) == SubSeq(fmt, ColumnAt(fmt, b) + 1, ColumnAt(fmt, b + 1) - 1)
  IN  [alignments |-> [i \in 0..(n - 1) |-> fmt[ColumnAt(fmt, i + 1)]],
       boundaries |-> [b \in 0..n |->
          [vrules |-> Cardinality({i \in DOMAIN fmt : fmt[i] = "|"
                                                      /\ NumberOfColumns(SubSeq(fmt, 1, i)) = b}),
           extra |-> SelectSeq(tokens(b), LAMBDA token : token # "|")]]]

\* The packages a format needs.
ColspecPackages(fmt) ==
  LET has(tokens) == \E i \in DOMAIN fmt : fmt[i] \in tokens
  IN  (IF has({"S"}) THEN {"siunitx"} ELSE {}) \cup (IF has({"D"}) THEN {"dcolumn"} ELSE {})
      \cup (IF has({"m", "b", ">", "<", "!"}) THEN {"array"} ELSE {})

-----------------------------------------------------------------------------
(* Formatters: one is the sequence of primitives it composes, applied from the right *)

NoFormatter == <<>>
Decimals == <<"decimals">>

CommandsFor(formatter) == UNION {CommandsOf[formatter[i]] : i \in DOMAIN formatter}

\* The fill of the step that is applied last.
FillFor(formatter, kind) ==
  LET filling == {i \in DOMAIN formatter : kind \in FillOf[formatter[i]].kinds}
  IN  IF filling = {} THEN "none"
      ELSE FillOf[formatter[CHOOSE i \in filling : \A j \in filling : i <= j]].color

Formatted(formatter, kind) ==
  [by |-> formatter, fill |-> FillFor(formatter, kind), commands |-> CommandsFor(formatter)]

\* What is not a number keeps its text, and so does a missing value.
Escaped == [by |-> NoFormatter, fill |-> "none", commands |-> {}]

-----------------------------------------------------------------------------
(* The layout that both dialects typeset *)

HasGroups(options) == {options.groups[g].name : g \in DOMAIN options.groups} # {""}

GroupColumns(options) == [g \in DOMAIN options.groups |-> options.groups[g].columns]

ColumnOrdering(options) == IF HasGroups(options) THEN FlattenSeq(GroupColumns(options)) ELSE Columns

PositionOf(column) == (CHOOSE i \in DOMAIN Columns : Columns[i] = column) - 1

ResolvedPreamble(options) ==
  LET ordering == ColumnOrdering(options)
      data == Reordered(options.preamble, [i \in 0..(NColumns - 1) |-> PositionOf(ordering[i + 1])],
                        NColumns)
      index == options.index_column
  IN  IF ~options.include_index THEN data
      ELSE [alignments |-> [i \in 0..NColumns |->
                              IF i = 0 THEN index.alignment ELSE data.alignments[i - 1]],
            boundaries |-> [b \in 0..(NColumns + 1) |->
                              CASE b = 0 -> index.left
                                [] b = 1 -> Merged(index.right, data.boundaries[0])
                                [] OTHER -> data.boundaries[b - 1]]]

IndexCells(options) == IF options.include_index THEN 1 ELSE 0

\* A formatter of the column comes before one of the row, and either before one of the kind.
FormatCellValue(options, r, column) ==
  LET kind == CellKinds[r][column]
  IN  CASE kind = "nan" -> Escaped
        [] kind # "nan" /\ options.col_formatters[column] # NoFormatter
             -> Formatted(options.col_formatters[column], kind)
        [] kind # "nan" /\ options.col_formatters[column] = NoFormatter
             /\ options.row_formatters[r] # NoFormatter
             -> Formatted(options.row_formatters[r], kind)
        [] OTHER -> IF kind \in {"low", "high"} THEN Formatted(options.number_fmt, kind)
                    ELSE IF kind = "text" THEN Formatted(options.str_fmt, kind)
                    ELSE Escaped

FormatIndexCell(options) == Formatted(options.index_fmt, "text")

NonEmpty(groups) == SelectSeq(groups, LAMBDA group : group.columns # <<>>)
NonEmptyGroups(options) == NonEmpty(options.groups)

\* The data columns of a group in the ordering: those after the groups before it.
GroupStart(groups, g) == Len(FlattenSeq([h \in 1..(g - 1) |-> groups[h].columns]))

InferGroupCellAlign(preamble, start, end) ==
  LET base == {IF preamble.alignments[i] \in {"l", "r"} THEN preamble.alignments[i] ELSE "c" :
                 i \in start..(end - 1)}
  IN  IF Cardinality(base) = 1 THEN CHOOSE align \in base : TRUE ELSE "c"

GroupHeaderCell(text, span, alignment, left, right) ==
  [text |-> text, span |-> span, alignment |-> alignment, left |-> left, right |-> right]

\* The header cells of the groups: under a format of their own, or where the columns are.
GroupHeaderCells(options, preamble) ==
  LET groups == NonEmptyGroups(options)
      explicit == options.group_preamble[1]
      index == IF options.group_index # <<>> THEN options.group_index[1] ELSE options.index_column
      asked(g) == GroupHeaderCell(groups[g].name, Len(groups[g].columns), explicit.alignments[g - 1],
                                  explicit.boundaries[g - 1], explicit.boundaries[g])
      start(g) == GroupStart(groups, g) + IndexCells(options)
      inferred(g) ==
        LET end == start(g) + Len(groups[g].columns)
        IN  GroupHeaderCell(groups[g].name, Len(groups[g].columns),
                            InferGroupCellAlign(preamble, start(g), end),
                            preamble.boundaries[start(g)], preamble.boundaries[end])
      leading ==
        IF options.group_preamble # <<>>
        THEN GroupHeaderCell("", 1, index.alignment, index.left,
                             Merged(index.right, explicit.boundaries[0]))
        ELSE GroupHeaderCell("", 1, preamble.alignments[0], preamble.boundaries[0],
                             preamble.boundaries[1])
  IN  (IF options.include_index THEN <<leading>> ELSE <<>>)
      \o [g \in DOMAIN groups |-> IF options.group_preamble # <<>> THEN asked(g) ELSE inferred(g)]

\* Resolving a layout raises unless both preambles have the number of cells they are for.
IsResolved(options) ==
  /\ Fits(options.preamble, NColumns)
  /\ HasGroups(options) /\ options.include_group_headers /\ options.group_preamble # <<>>
       => Fits(options.group_preamble[1], Len(NonEmptyGroups(options)))

IndexName == "index"

ColumnHeaderCells(options) ==
  (IF options.include_index THEN <<IndexName>> ELSE <<>>) \o ColumnOrdering(options)

DataCells(options, r) ==
  LET ordering == ColumnOrdering(options)
  IN  (IF options.include_index THEN <<FormatIndexCell(options)>> ELSE <<>>)
      \o [i \in DOMAIN ordering |-> FormatCellValue(options, r, ordering[i])]

ResolveLayout(options) ==
  LET preamble == ResolvedPreamble(options)
      header(kind, cells) == [kind |-> kind, cells |-> cells, rules_before |-> 0, fill |-> "none"]
      data(r) == [kind |-> "data", cells |-> DataCells(options, r),
                  rules_before |-> options.hrule_counts[r], fill |-> options.row_colors[r]]
  IN  [preamble |-> preamble,
       rows |-> (IF HasGroups(options) /\ options.include_group_headers
                 THEN <<header("group", GroupHeaderCells(options, preamble))>> ELSE <<>>)
                \o (IF options.include_column_headers
                    THEN <<header("columns", ColumnHeaderCells(options))>> ELSE <<>>)
                \o [i \in 1..Rows |-> data(i - 1)],
       trailing_rules |-> options.hrule_counts[Rows],
       hrule |-> options.hrule_cmd, top_rule |-> options.toprule_cmd,
       bottom_rule |-> options.bottomrule_cmd]

IsOfData(row) == row.kind = "data"
HeaderRows(layout) == SelectSeq(layout.rows, LAMBDA row : ~IsOfData(row))
DataRows(layout) == SelectSeq(layout.rows, IsOfData)

\* The line of the first row of data, headers included.
DataStart(layout) == 1 + Len(HeaderRows(layout))

=============================================================================
