---------------------------- MODULE MCTexFigures ----------------------------
(***************************************************************************)
(* A builder is a table or a tikz.  Tables have two columns and two rows   *)
(* with a cell of every kind but booleans; formatters are a literal        *)
(* highlighter, one with a command, and their composition.  Plots have     *)
(* elections in up to three districts, one with a tie and two that are     *)
(* refused, and guide lines of which one is refused.                       *)
(***************************************************************************)
EXTENDS TexTable, TikzPlots

MCColumns == <<"a", "b">>
MCCellKinds ==
  [r \in 0..1 |-> [c \in {"a", "b"} |-> IF r = 0 THEN (IF c = "a" THEN "high" ELSE "text")
                                        ELSE IF c = "a" THEN "low" ELSE "nan"]]

MCPrimitives == {"decimals", "highlight", "command"}
MCCommandsOf == [p \in MCPrimitives |-> IF p = "command" THEN {"heat"} ELSE {}]
MCFillOf ==
  [p \in MCPrimitives |-> IF p = "highlight" THEN [color |-> "denim", kinds |-> {"high"}]
                          ELSE [color |-> "none", kinds |-> {}]]
MCMacrosOf ==
  [c \in {"calc", "heat"} |-> IF c = "calc" THEN {"tikz"} ELSE {"fill", "color", "fpeval", "num"}]

MCIndexLists == {<<0>>, <<1, 1>>, <<2, 9, 0>>}
MCFormats == {<<"|", "S">>, <<"|", "l", "|", "|", ">", "m", "<">>, <<"@", "r", "c", "D", "|">>, <<"c", "?">>}
MCHeaderGroups ==
  {<<[name |-> "A", columns |-> <<"b">>]>>,
   <<[name |-> "", columns |-> <<>>], [name |-> "A", columns |-> <<"b">>], [name |-> "B", columns |-> <<"a">>]>>,
   <<[name |-> "A", columns |-> <<"b", "a">>], [name |-> "B", columns |-> <<"a">>]>>}
MCFormatters == {<<"highlight">>, <<"command">>, <<"highlight", "command">>}
MCUnfit == {<<"highlight", "command">>}

Election(pov, total, color, name) ==
  [pov |-> pov, total |-> total, linecolor |-> color, markercolor |-> color,
   name |-> name, marker_label |-> "Election Result"]
MCElections ==
  {Election(<<5, 1, 9>>, <<10, 10, 10>>, "#RRGGBB", "A"),
   [Election(<<4, 4, 7>>, <<6, 4, 24>>, "#RRGGBB", "B") EXCEPT !.linecolor = "none"],
   [Election(<<3, 0>>, <<4, 3>>, "denim", "A") EXCEPT !.markercolor = "clear"],
   Election(<<0>>, <<0>>, "denim", "A"), Election(<<5, 1>>, <<4, 3>>, "denim", "A")}
MCLine(slope, label) == [slope |-> slope, linecolor |-> "denim", linestyle |-> "-", label |-> label]
MCLineLists ==
  {<<MCLine(Frac(2, 1), "EG")>>, <<MCLine(Frac(-1, 3), "")>>,
   <<MCLine(Infinite, ""), MCLine(Frac(1, 1), "P"), MCLine(Frac(-2, 1), ""), MCLine(NaN, ""),
     MCLine(Frac(2, 1), "")>>,
   <<[MCLine(Frac(2, 1), "EG") EXCEPT !.linestyle = "wavy"]>>}
MCLimits == {<<Frac(0, 1), Half>>, <<Frac(1, 50), Frac(1, 30)>>, <<Half, Half>>}
MCScales == {Frac(5, 1), Frac(1, 50), Frac(0, 1)}

MCTopics == {{"rows", "headers"}, {"columns", "headers"}, {"cells", "document"}, {"cells", "files"},
             {"columns", "document"}, {"rows", "cells"}, {"draws", "headers"},
             {"plot", "document"}, {"plot", "files"}}

-----------------------------------------------------------------------------

NoPlot == NewPlot("none", FALSE)

\* Either builder leaves the other alone.
Init ==
  \/ TableInit /\ tikz = NoPlot
  \/ PlotInit /\ dialect = "none" /\ options = FreshOptions /\ formatter_commands = {}

IsTable == dialect # "none"

Next ==
  \/ IsTable /\ TableNext /\ UNCHANGED tikz
  \/ ~IsTable /\ PlotNext /\ UNCHANGED <<dialect, options, formatter_commands>>

vars == <<dialect, options, formatter_commands, plotVars>>

Spec == Init /\ [][Next]_vars

\* What the builder renders.
Rendered == IF IsTable THEN {GenerateLatex} ELSE GeneratePicture

\* Invariant.  The document of a table or a plot can be loaded by LaTeX, whatever was set,
\* cleared and added to it: every macro and column type in it has its package, and no package is
\* loaded both with and without options.
DocumentIsLoadable == \A handle \in Handles(Rendered) : IsLoadable(handle)

=============================================================================
