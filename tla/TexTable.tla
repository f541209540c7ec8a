------------------------------ MODULE TexTable ------------------------------
(***************************************************************************)
(* A table builder and the document it writes itself into                  *)
(* (gerrytools/latex: _table_base.py, table.py, tikz_table.py).            *)
(*                                                                         *)
(* The setters change the options, and packages and commands of the        *)
(* document.  A call that is refused at once changes nothing and is no     *)
(* action; one that is refused midway is.                                  *)
(***************************************************************************)
EXTENDS TexLayout, TexDocument

CONSTANTS
  Dialects,           \* of {"tabular", "nicetabular"}
  IndexLists,         \* the row or column indices a call lists, out of bounds ones included
  RuleCommands,       \* the rule commands a table is given
  Formats,            \* the tabular formats
  HeaderGroups,       \* the header groups, as sequences of a name and a sequence of columns
  Formatters,         \* the formatters, as sequences of primitives
  Unfit               \* those of them whose signature is refused

ASSUME TableAssumption ==
  /\ Dialects \subseteq {"tabular", "nicetabular"}
  /\ IndexLists \subseteq Seq(Nat) /\ Formats \subseteq Seq(ColumnTypes \cup BoundaryTokens \cup {"?"})
  /\ \A groups \in HeaderGroups : groups \in Seq([name : STRING, columns : Seq(STRING)])
  /\ NoFormatter \notin Formatters /\ Formatters \cup {Decimals} \subseteq Seq(Primitives)
  /\ Unfit \subseteq Formatters
  /\ \A p \in Primitives : CommandsOf[p] \subseteq Commands
  /\ CommandsOf["decimals"] = {} /\ FillOf["decimals"].kinds = {}
  /\ "calc" \in Commands

VARIABLES
  dialect,            \* TexTable or TikzTable
  options,            \* _options
  formatter_commands  \* _formatter_commands

tableVars == <<dialect, options, formatter_commands, document, disk, saved, user, called>>

-----------------------------------------------------------------------------
(* The options *)

OneGroup == <<[name |-> "", columns |-> Columns]>>

FreshOptions ==
  [toprule_cmd |-> "none", bottomrule_cmd |-> "none", hrule_cmd |-> "hline",
   include_column_headers |-> TRUE, include_group_headers |-> TRUE,
   include_index |-> FALSE, index_name |-> "none", index_column |-> PlainIndex, group_index |-> <<>>,
   hrule_counts |-> [r \in 0..Rows |-> 0],
   preamble |-> PlainPreamble(NColumns), group_preamble |-> <<>>,
   row_colors |-> [r \in RowIndices |-> "none"],
   number_fmt |-> NoFormatter, str_fmt |-> NoFormatter, index_fmt |-> NoFormatter,
   col_formatters |-> [column \in ToSet(Columns) |-> NoFormatter],
   row_formatters |-> [r \in RowIndices |-> NoFormatter],
   groups |-> OneGroup, cell_borders |-> {}, extra_draws |-> 0]

DefaultOptions == [FreshOptions EXCEPT !.hrule_counts[0] = 2, !.number_fmt = Decimals]

\* TikzTable draws with nicematrix, which needs the positions of a first pass.
SetupDocument(d) ==
  IF d = "tabular" THEN NewDocument
  ELSE [WithCommand(WithPackages(NewDocument, {"nicematrix", "tikz"}), "calc")
          EXCEPT !.compile_passes = 2]

-----------------------------------------------------------------------------
(* The two dialects *)

Line(kind, row) == [kind |-> kind, row |-> row]
Repeated(line, n) == [i \in 1..n |-> line]
HLines(layout, n) == Repeated(Line("rule", 0), n)
TopRule(layout) == IF layout.top_rule = "none" THEN <<>> ELSE <<Line("top", 0)>>
BottomRule(layout) == IF layout.bottom_rule = "none" THEN <<>> ELSE <<Line("bottom", 0)>>

\* TexTable: rules and row colors stand before their row, a cell's fill within it.
TabularLines(layout) ==
  LET headers == Len(HeaderRows(layout))
      before(i) == HLines(layout, layout.rows[headers + i].rules_before)
                   \o (IF layout.rows[headers + i].fill = "none" THEN <<>>
                       ELSE <<Line("rowcolor", headers + i)>>)
  IN  TopRule(layout)
      \o [i \in 1..headers |-> Line("row", i)]
      \o FlattenSeq([i \in 1..Rows |-> Append(before(i), Line("row", headers + i))])
      \o HLines(layout, layout.trailing_rules)
      \o BottomRule(layout)

FirstRules(layout) == IF DataRows(layout) = <<>> THEN 0 ELSE DataRows(layout)[1].rules_before

\* TikzTable: of several rules under the headers one is set with the data, and the others are
\* drawn above it, where the last header row leaves room for them.
PushesHeaderDouble(layout) == FirstRules(layout) >= 2 /\ HeaderRows(layout) # <<>>

NiceTabularLines(layout) ==
  LET headers == Len(HeaderRows(layout))
      pushed == PushesHeaderDouble(layout)
      struts(i) == pushed /\ (layout.rows[i].kind = "columns" \/ ~\E j \in 1..headers :
                                                                   layout.rows[j].kind = "columns")
      rules(i) == IF i = 1 /\ pushed THEN 1 ELSE layout.rows[headers + i].rules_before
  IN  TopRule(layout)
      \o [i \in 1..headers |-> Line(IF struts(i) THEN "strutted" ELSE "row", i)]
      \o FlattenSeq([i \in 1..Rows |-> Append(HLines(layout, rules(i)), Line("row", headers + i))])
      \o HLines(layout, layout.trailing_rules)
      \o BottomRule(layout)

\* \CodeBefore: the fills, at the lines and columns of nicematrix
CodeBefore(layout) ==
  LET line(i) == DataStart(layout) + i - 1
      row(i) == DataRows(layout)[i]
  IN  {<<line(i), 0, row(i).fill>> : i \in {j \in 1..Rows : row(j).fill # "none"}}
      \cup UNION {{<<line(i), c, row(i).cells[c].fill>> :
                     c \in {k \in DOMAIN row(i).cells : row(i).cells[k].fill # "none"}} : i \in 1..Rows}

\* Mistake: the rule that is set with the data is drawn too.
PushedWithTheFirst(layout) ==
  IF PushesHeaderDouble(layout) THEN {<<DataStart(layout), k>> : k \in 1..FirstRules(layout)} ELSE {}

\* \CodeAfter: the rules above the line of the first data row
PushedHeaderRules(layout) ==
  IF PushesHeaderDouble(layout) THEN {<<DataStart(layout), k>> : k \in 1..(FirstRules(layout) - 1)}
  ELSE {}

-----------------------------------------------------------------------------
(* The body of the document *)

RuleMacros(cmd) == IF cmd \in {"toprule", "midrule", "bottomrule"} THEN {"booktabs"} ELSE {}

GroupCells(layout) ==
  UNION {ToSet(row.cells) : row \in {r \in ToSet(HeaderRows(layout)) : r.kind = "group"}}

\* The column types and tokens that a package defines.
ColumnMacros(layout) ==
  LET boundaries == Range(layout.preamble.boundaries)
                    \cup UNION {{cell.left, cell.right} : cell \in GroupCells(layout)}
      types == Range(layout.preamble.alignments) \cup {cell.alignment : cell \in GroupCells(layout)}
  IN  (types \cup UNION {ToSet(boundary.extra) : boundary \in boundaries})
      \ {"l", "c", "r", "p", "@"}

DataOf(layout) == {row \in ToSet(layout.rows) : IsOfData(row)}
CellsOf(layout) == UNION {ToSet(row.cells) : row \in DataOf(layout)}

FillMacros(layout) ==
  LET fills == ({row.fill : row \in DataOf(layout)}
                \cup {cell.fill : cell \in CellsOf(layout)}) \ {"none"}
  IN  IF fills = {} THEN {} ELSE {"fill"} \cup UNION {ColorMacros(fill) : fill \in fills}

CommandsUsed(layout) == UNION {cell.commands : cell \in CellsOf(layout)}

BodyMacros(d, layout) ==
  (IF layout.trailing_rules + FoldLeft(LAMBDA n, row : n + row.rules_before, 0, layout.rows) > 0
   THEN RuleMacros(layout.hrule) ELSE {})
  \cup RuleMacros(layout.top_rule) \cup RuleMacros(layout.bottom_rule)
  \cup ColumnMacros(layout) \cup FillMacros(layout)
  \cup IF d = "nicetabular" THEN {"NiceTabular", "tikz"} ELSE {}

GenerateLatex ==
  [macros |-> BodyMacros(dialect, ResolveLayout(options)), positioned |-> dialect = "nicetabular",
   content |-> <<options>>]

-----------------------------------------------------------------------------
(* Setters *)

\* A setter changes the options, and the document it adds packages or commands to.
Sets(topic, opts, doc, added) ==
  /\ Calls(topic)
  /\ options' = opts
  /\ document' = doc
  /\ formatter_commands' = formatter_commands \cup added
  /\ UNCHANGED <<dialect, disk, saved, user>>

SetsOptions(topic, opts) == Sets(topic, opts, document, {})

\* The indices before the first that is out of bounds: each is applied before the next is
\* looked at.
Applied(indices, limit) ==
  LET bad == {i \in DOMAIN indices : indices[i] > limit}
  IN  IF bad = {} THEN indices
      ELSE SubSeq(indices, 1, (CHOOSE i \in bad : \A j \in bad : i <= j) - 1)

Times(indices, index) == Cardinality({i \in DOMAIN indices : indices[i] = index})

-----------------------------------------------------------------------------
(* Horizontal rules *)

\* ACTION add_hrule_above
AddHruleAbove ==
  \E indices \in IndexLists, count \in 1..2 :
    LET applied == Applied(indices, Rows)
    IN  SetsOptions("rows", [options EXCEPT !.hrule_counts =
                               [r \in 0..Rows |-> @[r] + count * Times(applied, r)]])

\* ACTION add_hrule_above_all: no rule is added under the last row
AddHruleAboveAll ==
  SetsOptions("rows", [options EXCEPT !.hrule_counts =
                         [r \in 0..Rows |-> IF r < Rows THEN @[r] + 1 ELSE @[r]]])

\* ACTION set_all_hrule
SetAllHrule ==
  \E count \in 0..2 :
    SetsOptions("rows", [options EXCEPT !.hrule_counts =
                           [r \in 0..Rows |-> IF r < Rows THEN count ELSE 0]])

\* ACTION clear_all_hrule
ClearAllHrule ==
  SetsOptions("rows", [options EXCEPT !.toprule_cmd = "none", !.bottomrule_cmd = "none",
                                      !.hrule_counts = [r \in 0..Rows |-> 0]])

\* ACTION set_hrule_command, set_toprule_command and set_bottomrule_command, add_ and remove_:
\* a rule that is asked for without a command takes that of the rows
SetRuleCommand ==
  \E cmd \in RuleCommands \cup {"none", options.hrule_cmd} :
    \/ cmd # "none" /\ SetsOptions("rows", [options EXCEPT !.hrule_cmd = cmd])
    \/ SetsOptions("rows", [options EXCEPT !.toprule_cmd = cmd])
    \/ SetsOptions("rows", [options EXCEPT !.bottomrule_cmd = cmd])

-----------------------------------------------------------------------------
(* Vertical rules: boundaries are those displayed, the index included *)

DisplayedColumns == NColumns + IndexCells(options)

\* Mistake: boundaries are taken for those of the data frame's columns.
WithDataVRules(opts, added) ==
  [opts EXCEPT !.preamble.boundaries = [b \in 0..NColumns |-> WithRules(@[b], added[b])]]

WithVRules(opts, added) ==
  IF ~opts.include_index
  THEN [opts EXCEPT !.preamble.boundaries =
          [b \in 0..NColumns |-> WithRules(@[b], added[b])]]
  ELSE [opts EXCEPT !.index_column.left = WithRules(@, added[0]),
                    !.index_column.right = WithRules(@, added[1]),
                    !.preamble.boundaries =
                      [b \in 0..NColumns |-> IF b = 0 THEN @[b] ELSE WithRules(@[b], added[b + 1])]]

\* The rules that a call adds at the boundaries left or right of columns.
VRulesAt(indices, count, side) ==
  LET right == IF side = "right" THEN 1 ELSE 0
      applied == Applied(indices, DisplayedColumns - right)
  IN  [b \in 0..DisplayedColumns |-> count * Times(applied, b - right)]

\* ACTION add_vrule_left_of and add_vrule_right_of
AddVRules(indices, count, side) ==
  SetsOptions("columns", WithVRules(options, VRulesAt(indices, count, side)))

\* ACTION add_vrule_all: an index that is not displayed gets its left rule
AddVRuleAll ==
  LET everywhere == WithVRules(options, [b \in 0..DisplayedColumns |-> 1])
  IN  SetsOptions("columns", IF options.include_index THEN everywhere
                             ELSE [everywhere EXCEPT !.index_column.left = WithRules(@, 1)])

\* ACTION clear_all_vrule
ClearAllVRule ==
  SetsOptions("columns",
    [options EXCEPT !.preamble = WithoutVRules(@), !.index_column = IndexWithoutVRules(@),
                    !.group_preamble = IF @ = <<>> THEN @ ELSE <<WithoutVRules(@[1])>>,
                    !.group_index = IF @ = <<>> THEN @ ELSE <<IndexWithoutVRules(@[1])>>])

-----------------------------------------------------------------------------
(* The index, the headers and the formats *)

\* ACTION include_index: the name is taken before the alignment is refused
IncludeIndex ==
  \E name \in {options.index_name, "named"}, fmt \in Formats \cup {<<>>} :
    LET named == [options EXCEPT !.index_name = name]
        given == fmt # <<>>
    IN  IF ~given
        THEN SetsOptions("columns", [named EXCEPT !.include_index = TRUE])
        ELSE IF ~IsParsed(fmt) \/ NumberOfColumns(fmt) # 1 THEN SetsOptions("columns", named)
        ELSE Sets("columns", [named EXCEPT !.include_index = TRUE,
                                           !.index_column = IndexOf(ParseTabularPreamble(fmt))],
                  WithPackages(document, ColspecPackages(fmt)), {})

\* ACTION remove_index
RemoveIndex == SetsOptions("columns", [options EXCEPT !.include_index = FALSE])

\* ACTION remove_ and include_column_headers, _group_headers and _all_headers
SetHeaders ==
  \E columns, groups \in BOOLEAN :
    SetsOptions("headers", [options EXCEPT !.include_column_headers = columns,
                                           !.include_group_headers = groups])

\* ACTION set_tabular_format: a format for another number of columns is refused
SetTabularFormat ==
  \E fmt \in Formats :
    LET parsed == ParseTabularPreamble(fmt)
        documented == WithPackages(document, ColspecPackages(fmt))
    IN  /\ IsParsed(fmt)
        /\ NumberOfColumns(fmt) = DisplayedColumns
        /\ Sets("columns",
                IF options.include_index
                THEN [options EXCEPT !.index_column = IndexOf(parsed),
                                     !.preamble = WithoutIndex(parsed, NColumns)]
                ELSE [options EXCEPT !.preamble = parsed],
                documented, {})

\* A format one cell short leaves the index out: it gets a centered cell, with the rules of
\* the index column unless the format begins with some of its own.
ImpliedGroupIndex(opts, parsed) ==
  [alignment |-> "c", left |-> opts.index_column.left,
   right |-> IF parsed.boundaries[0] # NoBoundary THEN NoBoundary ELSE opts.index_column.right]

WithGroupFormat(opts, parsed, omitted, cells) ==
  CASE ~opts.include_index -> [opts EXCEPT !.group_index = <<>>, !.group_preamble = <<parsed>>]
    [] opts.include_index /\ omitted
         -> [opts EXCEPT !.group_index = <<ImpliedGroupIndex(opts, parsed)>>,
                         !.group_preamble = <<parsed>>]
    [] opts.include_index /\ ~omitted
         -> [opts EXCEPT !.group_index = <<IndexOf(parsed)>>,
                         !.group_preamble = <<WithoutIndex(parsed, cells)>>]

\* ACTION set_group_tabular_format
SetGroupTabularFormat ==
  \E fmt \in Formats :
    LET cells == Len(NonEmptyGroups(options))
        omitted == options.include_index /\ NumberOfColumns(fmt) = cells
    IN  /\ IsParsed(fmt)
        /\ NumberOfColumns(fmt) = cells \/ (options.include_index /\ NumberOfColumns(fmt) = cells + 1)
        /\ Sets("headers", WithGroupFormat(options, ParseTabularPreamble(fmt), omitted, cells),
                WithPackages(document, ColspecPackages(fmt)), {})

\* The columns that are not listed, in the order of the data frame.
Unlisted(listed) ==
  LET upto[i \in 0..NColumns] ==
        IF i = 0 THEN <<>>
        ELSE IF Columns[i] \in listed THEN upto[i - 1] ELSE Append(upto[i - 1], Columns[i])
  IN  upto[NColumns]

\* Header groups as they are kept: the columns that are not listed join the group without
\* a name, which is added at the end if need be.
WithUnlisted(groups) ==
  LET listed == UNION {ToSet(groups[g].columns) : g \in DOMAIN groups}
      missing == Unlisted(listed)
  IN  IF \E g \in DOMAIN groups : groups[g].name = ""
      THEN [g \in DOMAIN groups |-> IF groups[g].name = ""
                                    THEN [groups[g] EXCEPT !.columns = @ \o missing] ELSE groups[g]]
      ELSE IF missing = <<>> THEN groups ELSE Append(groups, [name |-> "", columns |-> missing])

\* Every group lists columns of the data frame, and no column is listed twice.
AreListedOnce(groups) ==
  LET places == {p \in (DOMAIN groups) \X (1..NColumns) : p[2] \in DOMAIN groups[p[1]].columns}
  IN  /\ \A g \in DOMAIN groups : ToSet(groups[g].columns) \subseteq ToSet(Columns)
      /\ \A p, q \in places : groups[p[1]].columns[p[2]] = groups[q[1]].columns[q[2]] => p = q

\* Mistake: a format for other groups is kept.
SetHeaderGroupsOnly ==
  \E groups \in HeaderGroups :
    /\ AreListedOnce(groups)
    /\ SetsOptions("headers", [options EXCEPT !.groups = WithUnlisted(groups)])

\* ACTION set_header_groups: a format for other groups is dropped
SetHeaderGroups ==
  \E groups \in HeaderGroups :
    /\ AreListedOnce(groups)
    /\ SetsOptions("headers", [options EXCEPT !.groups = WithUnlisted(groups),
                                              !.group_preamble = <<>>, !.group_index = <<>>])

\* ACTION clear_header_groups
ClearHeaderGroups ==
  SetsOptions("headers", [options EXCEPT !.groups = OneGroup, !.group_preamble = <<>>,
                                         !.group_index = <<>>])

-----------------------------------------------------------------------------
(* Fills and formatters *)

\* ACTION highlight_rows
HighlightRows ==
  \E indices \in IndexLists, color \in Colors :
    LET applied == Applied(indices, Rows - 1)
    IN  /\ color \in Representable
        /\ SetsOptions("cells", [options EXCEPT !.row_colors =
                                   [r \in RowIndices |-> IF Times(applied, r) > 0 THEN color ELSE @[r]]])

\* The commands of a formatter that the document does not have are added, before its
\* signature may be refused.
Registered(formatter) == {c \in CommandsFor(formatter) : ~HasCommand(document, c)}

WithCommands(doc, added) ==
  [doc EXCEPT !.command_list = [c \in Commands |-> IF c \in added THEN @[c] + 1 ELSE @[c]]]

SetsFormatter(formatter, opts) ==
  LET added == Registered(formatter)
  IN  Sets("cells", IF formatter \in Unfit THEN options ELSE opts,
           WithCommands(document, added), added)

\* ACTION set_number_formatter, set_string_formatter and set_index_formatter
SetFormatter ==
  \E formatter \in Formatters :
    \/ SetsFormatter(formatter, [options EXCEPT !.number_fmt = formatter])
    \/ SetsFormatter(formatter, [options EXCEPT !.str_fmt = formatter])
    \/ SetsFormatter(formatter, [options EXCEPT !.index_fmt = formatter])

\* ACTION set_decimal_count
SetDecimalCount == SetsOptions("cells", [options EXCEPT !.number_fmt = Decimals])

\* ACTION set_column_formatter, for columns of which the last may be unknown
SetColumnFormatter ==
  \E formatter \in Formatters, columns \in SUBSET ToSet(Columns) :
    /\ columns # {}
    /\ SetsFormatter(formatter, [options EXCEPT !.col_formatters =
                              [c \in ToSet(Columns) |-> IF c \in columns THEN formatter ELSE @[c]]])

\* ACTION set_row_formatter; nothing is registered if the first index is out of bounds
SetRowFormatter ==
  \E formatter \in Formatters, indices \in IndexLists :
    LET applied == Applied(indices, Rows - 1)
    IN  /\ applied # <<>>
        /\ SetsFormatter(formatter, [options EXCEPT !.row_formatters =
                      [r \in RowIndices |-> IF Times(applied, r) > 0 THEN formatter ELSE @[r]]])

\* ACTION clear_options: the commands of formatters are dropped again
ClearOptions ==
  /\ Calls("cells")
  /\ options' = FreshOptions
  /\ document' = [document EXCEPT !.command_list =
                    [c \in Commands |-> IF c \in formatter_commands /\ @[c] > 0 THEN @[c] - 1 ELSE @[c]]]
  /\ formatter_commands' = {}
  /\ UNCHANGED <<dialect, disk, saved, user>>

-----------------------------------------------------------------------------
(* The drawings of a TikzTable *)

BorderSides == {"top", "bottom", "left", "right"}

\* ACTION set_cell_border: coordinates are those of the layout at the time of the call
SetCellBorder ==
  LET layout == ResolveLayout(options)
  IN  \E r \in 1..Len(layout.rows), c \in {1, DisplayedColumns}, sides \in {{"top"}, BorderSides} :
        /\ dialect = "nicetabular"
        /\ SetsOptions("draws", [options EXCEPT !.cell_borders = @ \cup ({r} \X {c} \X sides)])

\* ACTION add_draw
AddDraw ==
  /\ dialect = "nicetabular"
  /\ SetsOptions("draws", [options EXCEPT !.extra_draws = @ + 1])

\* ACTION clear_cell_borders, clear_extra_draws
ClearDraws ==
  /\ dialect = "nicetabular"
  /\ \/ SetsOptions("draws", [options EXCEPT !.cell_borders = {}])
     \/ SetsOptions("draws", [options EXCEPT !.extra_draws = 0])

-----------------------------------------------------------------------------

\* The constructor
TableInit ==
  /\ dialect \in Dialects
  /\ options \in {FreshOptions, DefaultOptions}
  /\ formatter_commands = {}
  /\ DocumentInit(SetupDocument(dialect))

AddVRulesOf ==
  \E indices \in IndexLists, count \in 1..2, side \in {"left", "right"} : AddVRules(indices, count, side)

SetsRules ==
  \/ AddHruleAbove \/ AddHruleAboveAll \/ SetAllHrule \/ ClearAllHrule \/ SetRuleCommand
  \/ AddVRulesOf \/ AddVRuleAll \/ ClearAllVRule

SetsColumns ==
  \/ IncludeIndex \/ RemoveIndex \/ SetHeaders \/ SetTabularFormat
  \/ SetGroupTabularFormat \/ SetHeaderGroups \/ ClearHeaderGroups

SetsCells ==
  \/ HighlightRows \/ SetFormatter \/ SetDecimalCount \/ SetColumnFormatter \/ SetRowFormatter
  \/ ClearOptions

SetsDraws == SetCellBorder \/ AddDraw \/ ClearDraws

UsesTableDocument == UsesDocument({GenerateLatex}) /\ UNCHANGED <<dialect, options, formatter_commands>>

TableNext == SetsRules \/ SetsColumns \/ SetsCells \/ SetsDraws \/ UsesTableDocument

TableSpec == TableInit /\ [][TableNext]_tableVars

-----------------------------------------------------------------------------
(* Properties *)

\* The groups' columns are those of the data frame, each in one place.
GroupsPartition(groups) ==
  /\ \A column \in ToSet(Columns) : \E g \in DOMAIN groups : column \in ToSet(groups[g].columns)
  /\ AreListedOnce(groups)

\* Every formatter in use finds its commands in the document; a command is defined once for
\* all formatters, and clearing the options drops none that the caller or the dialect has added.
CommandsAreDefined ==
  /\ \A c \in CommandsUsed(ResolveLayout(options)) : HasCommand(document, c)
  /\ \A c \in Commands :
       document.command_list[c] = user[c] + (IF c \in formatter_commands THEN 1 ELSE 0)

\* Invariant.  No sequence of calls leaves a table that cannot be typeset: whatever index,
\* formats, header groups and formatters were set, changed, cleared or refused, the preambles
\* have a cell for each column and each group, and every command of a cell is defined.
TableStaysRenderable == IsResolved(options) /\ CommandsAreDefined

\* The rules displayed at each boundary.
VRulesDisplayed(opts) == [b \in 0..(NColumns + IndexCells(opts)) |-> ResolvedPreamble(opts).boundaries[b].vrules]

\* Action property.  Vertical rules appear at the boundaries they are asked for, and no
\* others, whether or not the index is displayed and wherever header groups have put the
\* columns; of a call that is refused midway, those before the refused index.
RulesLandWhereAsked ==
  [][\A indices \in IndexLists, side \in {"left", "right"} :
       AddVRules(indices, 1, side) =>
         VRulesDisplayed(options') =
           [b \in 0..DisplayedColumns |-> VRulesDisplayed(options)[b] + VRulesAt(indices, 1, side)[b]]]_tableVars

\* What the lines of a dialect typeset: the rows, the rules above each row and below the last.
RowLines(lines) == SelectSeq(lines, LAMBDA line : line.kind \in {"row", "strutted"})
LinesBefore(lines, i) == RowLines(SubSeq(lines, 1, i - 1))
RulesAbove(lines, n) ==
  Cardinality({i \in DOMAIN lines : lines[i].kind = "rule" /\ Len(LinesBefore(lines, i)) = n - 1})

TabularShows(layout) ==
  LET lines == TabularLines(layout)
  IN  [rows |-> [i \in DOMAIN RowLines(lines) |-> RowLines(lines)[i].row],
       rules |-> [n \in 1..(Len(layout.rows) + 1) |-> RulesAbove(lines, n)],
       fills |-> {<<Len(LinesBefore(lines, i)) + 1, 0, layout.rows[lines[i].row].fill>> :
                    i \in {j \in DOMAIN lines : lines[j].kind = "rowcolor"}}
                 \cup UNION {{<<n, c, layout.rows[n].cells[c].fill>> :
                                c \in {k \in DOMAIN layout.rows[n].cells :
                                         layout.rows[n].cells[k].fill # "none"}} :
                             n \in {m \in DOMAIN layout.rows : IsOfData(layout.rows[m])}}]

NiceTabularShows(layout) ==
  LET lines == NiceTabularLines(layout)
      drawn(n) == Cardinality({draw \in PushedHeaderRules(layout) : draw[1] = n})
  IN  [rows |-> [i \in DOMAIN RowLines(lines) |-> RowLines(lines)[i].row],
       rules |-> [n \in 1..(Len(layout.rows) + 1) |-> RulesAbove(lines, n) + drawn(n)],
       fills |-> CodeBefore(layout)]

\* Room for the rules that are drawn is left by the row just above them, if any are.
LeavesRoom(layout) ==
  {i \in DOMAIN layout.rows : \E line \in ToSet(NiceTabularLines(layout)) : line = Line("strutted", i)}
  = {draw[1] - 1 : draw \in PushedHeaderRules(layout)}

\* Every column keeps its alignment and the tokens around its cells, wherever it is put, and
\* the group headers span the columns of their groups.
ColumnsLineUp(layout) ==
  LET index == IndexCells(options)
      at(i) == layout.preamble.boundaries[i]
  IN  /\ \A i \in 1..NColumns :
           LET p == PositionOf(ColumnOrdering(options)[i])
               own == options.preamble.boundaries
           IN  /\ layout.preamble.alignments[i - 1 + index] = options.preamble.alignments[p]
               /\ Opening(own[p]) = <<>> \/ Opening(at(i - 1 + index)) # <<>>
               /\ Closing(at(i + index)) = Closing(own[p + 1])
      /\ \A row \in ToSet(HeaderRows(layout)) :
           row.kind = "group" =>
             FoldLeft(LAMBDA n, cell : n + cell.span, 0, row.cells) = NColumns + index
      /\ options.group_preamble = <<>> /\ HasGroups(options) =>
           \A g \in DOMAIN NonEmptyGroups(options) :
             GroupStart(NonEmptyGroups(options), g) =
               (CHOOSE i \in 1..NColumns :
                  ColumnOrdering(options)[i] = NonEmptyGroups(options)[g].columns[1]) - 1

\* Invariant.  Both dialects typeset the same table, and the one that was asked for: the rows
\* with the rules above and below them, the fills at their lines and columns, and columns that
\* keep what is theirs when header groups move them.
DialectsAgree ==
  LET layout == ResolveLayout(options)
  IN  /\ TabularShows(layout) = NiceTabularShows(layout)
      /\ [r \in 0..Rows |-> TabularShows(layout).rules[DataStart(layout) + r]] = options.hrule_counts
      /\ LeavesRoom(layout)
      /\ GroupsPartition(options.groups)
      /\ ColumnsLineUp(layout)

HeaderGroup == [name : {""} \cup STRING, columns : Seq(ToSet(Columns))]

TableTypeOK ==
  /\ dialect \in Dialects
  /\ options.include_index \in BOOLEAN
  /\ options.groups \in Seq(HeaderGroup)
  /\ user \in [Commands -> Nat] /\ document.command_list \in [Commands -> Nat]
  /\ formatter_commands \subseteq Commands

=============================================================================
