------------------------------ MODULE TikzPlots ------------------------------
(***************************************************************************)
(* The plots that are written as TikZ pictures: seats-votes curves and     *)
(* paintballs (gerrytools/latex: _tikz_plot_base.py, seatsvotes.py,        *)
(* paintball.py, and the arithmetic of _election_math.py, _partisan_math.py*)
(* and _geometry.py).                                                      *)
(*                                                                         *)
(* A picture is the sequence of its shapes with their colors, styles and   *)
(* names; sizes, widths and opacities are left out but for whether they    *)
(* are refused.  A paintball has two documents, of the points and of their *)
(* hull, which share nothing but the options: the model follows one.  A    *)
(* call that is refused at once changes nothing and is no action.          *)
(***************************************************************************)
EXTENDS TexDocument, Fractions, SequencesExt

CONSTANTS
  PlotKinds,          \* of {"seatsvotes", "points", "hull"}
  Elections,          \* what add_election is given: votes by district, colors and names
  LineLists,          \* the guide lines of a call: slope, linecolor, linestyle and label
  Limits,             \* pairs of fractions
  Scales,             \* fractions
  Precision           \* paintballs round to a part of one; 10000 in the code

ASSUME PlotAssumption ==
  /\ PlotKinds \subseteq {"seatsvotes", "points", "hull"}
  /\ \A election \in Elections : DOMAIN election.pov # {}
  /\ Precision \in Nat \ {0}

VARIABLE tikz         \* a plot without its documents

plotVars == <<tikz, document, disk, saved, user, called>>

-----------------------------------------------------------------------------
(* Options *)

IsSeatsVotes == tikz.kind = "seatsvotes"

NotGiven == "unset"

\* The colors a plot begins with stand for those of their kind: names of latexcolors, an
\* expression of basic names, and hexadecimal ones.
FreshPlotOptions(kind) ==
  [limits |-> [axis \in {"x", "y"} |-> <<Int2Frac(0), Int2Frac(1)>>],
   scale |-> [axis \in {"x", "y"} |-> Int2Frac(10)],
   crosshair |-> IF kind = "seatsvotes" THEN "denim" ELSE "yellow",
   marker |-> "denim", edge |-> "denim", hull |-> NotGiven, hulledge |-> NotGiven]

\* Paintballs round what they are given, once it has been looked at.
Rounded(x) ==
  IF IsSeatsVotes THEN x
  ELSE Frac((2 * x[1] * Precision + x[2]) \div (2 * x[2]), Precision)

Span(limits) == Minus(limits[2], limits[1])

Rescaled(scale, old, new) == Frac(scale[1] * old[1] * new[2], scale[2] * old[2] * new[1])

IsPositive(x) == Less(Int2Frac(0), x)

-----------------------------------------------------------------------------
(* Elections *)

SumOf(votes) == FoldSeq(+, 0, votes)

\* What counts are refused for.
AreCounts(pov, total) ==
  /\ Len(pov) = Len(total)
  /\ \A d \in DOMAIN total : total[d] > 0 /\ pov[d] >= 0 /\ pov[d] <= total[d]

OverallVoteShare(pov, total) == Frac(SumOf(pov), SumOf(total))
DistrictVoteShares(pov, total) == [d \in DOMAIN pov |-> Frac(pov[d], total[d])]

\* Mistake: the swing is taken the wrong way round.
SwingBreakpointsBackwards(shares, reference) ==
  [d \in DOMAIN shares |-> Clamp(Plus(Minus(shares[d], reference), Half))]

SwingBreakpoints(shares, reference) ==
  [d \in DOMAIN shares |-> Clamp(Plus(Minus(reference, shares[d]), Half))]

\* The corners of the step curve: its vote shares and its seat shares.
SeatsVotesCurveValues(pov, total) ==
  LET breakpoints == SwingBreakpoints(DistrictVoteShares(pov, total), OverallVoteShare(pov, total))
      seats == Len(pov)
  IN  [votes |-> <<Int2Frac(0)>> \o SortSeq(breakpoints, Less) \o <<Int2Frac(1)>>,
       seats |-> <<Int2Frac(0)>> \o [i \in 1..(seats + 1) |-> Frac(i - 1, seats)]]

StepPath(curve) ==
  <<<<curve.votes[1], curve.seats[1]>>>>
  \o FlattenSeq([i \in 1..(Len(curve.votes) - 1) |->
       <<<<curve.votes[i], curve.seats[i + 1]>>, <<curve.votes[i + 1], curve.seats[i + 1]>>>>])

\* A tie is not won.
OverallElectionPoint(pov, total) ==
  <<OverallVoteShare(pov, total),
    Frac(Cardinality({d \in DOMAIN pov : pov[d] > total[d] - pov[d]}), Len(pov))>>

-----------------------------------------------------------------------------
(* Guide lines *)

\* A slope is a fraction, NaN, or infinite.
Infinite == <<1, 0>>

LineSegmentThroughUnitSquare(slope) ==
  LET run == Frac(slope[2], 2 * slope[1])
      fall == Frac(-slope[2], -2 * slope[1])
      rise == Frac(slope[1], 2 * slope[2])
      steep(half) == <<Minus(Half, half), Int2Frac(0), Plus(Half, half), Int2Frac(1)>>
  IN  IF slope = Infinite THEN steep(Int2Frac(0))
      ELSE IF slope[1] >= slope[2] THEN steep(run)
      ELSE IF -slope[1] >= slope[2] THEN steep(fall)
      ELSE <<Int2Frac(0), Minus(Half, rise), Int2Frac(1), Plus(Half, rise)>>

ToTikzLinestyle(style) ==
  CASE style = "-" -> "solid"
    [] style = "--" -> "dashed"
    [] style \in {"-.", "dashdot"} -> "dashdotted"
    [] style = ":" -> "dotted"
    [] OTHER -> style

TikzLinestyles == {"solid", "dashed", "dotted", "dashdotted"}

IsGuideLine(line) == line.slope # NaN /\ ToTikzLinestyle(line.linestyle) \in TikzLinestyles

GuideLine(line) == [line EXCEPT !.linestyle = ToTikzLinestyle(@)]

-----------------------------------------------------------------------------
(* The picture *)

\* A color is classified when it is drawn; only then is one refused.
CanBeDrawn(color) == color \in Representable \cup {"none"}

Shape(kind, color, style, name, path) ==
  [kind |-> kind, color |-> color, style |-> style, name |-> name, path |-> path]

Crosshairs ==
  IF IsSeatsVotes /\ ~tikz.crosshairs THEN <<>>
  ELSE LET hair == Shape("crosshair", tikz.options.crosshair, "", "", <<>>) IN <<hair, hair>>

LineShape(line) ==
  Shape("line", line.linecolor, line.linestyle, line.label, LineSegmentThroughUnitSquare(line.slope))

\* Paintballs draw lines with a name first.
OrderedLines ==
  IF IsSeatsVotes THEN tikz.lines
  ELSE SelectSeq(tikz.lines, LAMBDA line : line.label # "")
       \o SelectSeq(tikz.lines, LAMBDA line : line.label = "")

Lines == [i \in DOMAIN tikz.lines |-> LineShape(OrderedLines[i])]

CurveShape(e) == Shape("curve", e.linecolor, "solid", e.name, StepPath(SeatsVotesCurveValues(e.pov, e.total)))
MarkerShape(e) == Shape("marker", e.markercolor, "solid", e.marker_label, <<OverallElectionPoint(e.pov, e.total)>>)

Curves == [i \in DOMAIN tikz.elections |-> CurveShape(tikz.elections[i])]
Markers == IF tikz.markers THEN [i \in DOMAIN tikz.elections |-> MarkerShape(tikz.elections[i])] ELSE <<>>

\* The legend: a row for each color and name among the curves and among the markers, drawn or
\* removed by the color None, and for each line that has a name.
RemoveDuplicates(rows) ==
  FoldLeft(LAMBDA kept, row : IF row \in ToSet(kept) THEN kept ELSE Append(kept, row), <<>>, rows)

LegendRow(shape) == [shape EXCEPT !.path = <<>>]
RowsOf(shapes) == [i \in DOMAIN shapes |-> LegendRow(shapes[i])]

Legend ==
  IF ~tikz.legend THEN <<>>
  ELSE RemoveDuplicates(RowsOf(Curves)) \o RemoveDuplicates(RowsOf(Markers))
       \o IF tikz.line_legend THEN RowsOf(SelectSeq(Lines, LAMBDA shape : shape.name # "")) ELSE <<>>

\* Points, or their hull, take two colors; a hull takes those of the points unless it has
\* been given its own, "none" included.
OwnOr(color, default) == IF color = NotGiven THEN default ELSE color

Paintballs ==
  LET given == tikz.options
  IN  IF tikz.kind = "points"
      THEN <<Shape("fill", given.marker, "", "", <<>>), Shape("edge", given.edge, "", "", <<>>)>>
      ELSE <<Shape("fill", OwnOr(given.hull, given.marker), "", "", <<>>),
             Shape("edge", OwnOr(given.hulledge, given.edge), "", "", <<>>)>>

Picture == Crosshairs \o Lines \o IF IsSeatsVotes THEN Curves \o Markers \o Legend ELSE Paintballs

\* A color is set by a macro around a shape, or given to it: the colors of points and the
\* fill of their hull are given.
IsInline(shape) == shape.kind = "fill" \/ (shape.kind = "edge" /\ tikz.kind = "points")

PictureMacros ==
  {"tikz"} \cup UNION {IF shape.color = "none" THEN {}
                       ELSE IF IsInline(shape) THEN ColorMacros(shape.color) \ {"color"}
                       ELSE ColorMacros(shape.color) : shape \in ToSet(Picture)}

GeneratePicture ==
  IF \A shape \in ToSet(Picture) : CanBeDrawn(shape.color)
  THEN {[macros |-> PictureMacros, positioned |-> FALSE, content |-> Picture]} ELSE {}

-----------------------------------------------------------------------------
(* Setters *)

Plots(changed) ==
  /\ Calls("plot")
  /\ tikz' = changed
  /\ UNCHANGED <<document, disk, saved, user>>

\* ACTION set_xlim and set_ylim: limits that are accepted stay when the scale is refused
SetLimits(axis, given, rescale) ==
  LET scale == Rescaled(tikz.options.scale[axis], Span(tikz.options.limits[axis]), Span(given))
      limited == [tikz EXCEPT !.options.limits[axis] = <<Rounded(given[1]), Rounded(given[2])>>]
  IN  /\ Less(given[1], given[2])
      /\ Plots(IF rescale /\ IsPositive(scale)
               THEN [limited EXCEPT !.options.scale[axis] = Rounded(scale)] ELSE limited)

\* ACTION set_xscale, set_yscale and set_scale: the scale of x is set before that of y is refused
SetScale ==
  \E scale \in Scales, axes \in {{"x"}, {"y"}, {"x", "y"}}, refused \in BOOLEAN :
    /\ IsPositive(scale)
    /\ refused => axes = {"x"}
    /\ Plots([tikz EXCEPT !.options.scale =
                [axis \in {"x", "y"} |-> IF axis \in axes THEN Rounded(scale) ELSE @[axis]]])

\* ACTION update_crosshair_settings and set_crosshair_options: the color is kept when the
\* opacity, or the width, is refused; widths come before it on a seats-votes plot
UpdateCrosshairs ==
  \E color \in Colors, refused \in {"none", "before", "after"} :
    /\ refused = "before" => IsSeatsVotes
    /\ Plots([tikz EXCEPT !.options.crosshair = IF refused = "before" THEN @ ELSE color,
                          !.crosshairs = IF refused = "none" THEN TRUE ELSE @])

\* ACTION remove_crosshairs, display_election_markers, display_additional_lines_in_legend
SetFlags ==
  /\ IsSeatsVotes
  /\ \/ Plots([tikz EXCEPT !.crosshairs = FALSE])
     \/ \E enabled \in BOOLEAN : \/ Plots([tikz EXCEPT !.markers = enabled])
                                 \/ Plots([tikz EXCEPT !.line_legend = enabled])

\* ACTION add_election
AddElection ==
  \E election \in Elections :
    /\ IsSeatsVotes
    /\ AreCounts(election.pov, election.total)
    /\ Plots([tikz EXCEPT !.elections = Append(@, election)])

\* ACTION add_custom_line, add_proportionality_line, add_efficiency_gap_line, and
\* add_lines_with_slope: the lines before the first that is refused are added
AddLines ==
  \E lines \in LineLists :
    LET refused == {i \in DOMAIN lines : ~IsGuideLine(lines[i])}
        added == {i \in DOMAIN lines : \A j \in refused : i < j}
    IN  /\ IsSeatsVotes => Len(lines) = 1
        /\ added # {}
        /\ Plots([tikz EXCEPT !.lines = @ \o [i \in added |-> GuideLine(lines[i])]])

\* ACTION clear_lines
ClearLines == ~IsSeatsVotes /\ Plots([tikz EXCEPT !.lines = <<>>])

\* ACTION set_marker_options: given one by one, of which a size, an opacity or a width is refused
SetMarkerOptions ==
  \E color, edge \in Colors \cup {NotGiven}, stop \in {"color", "edge", "end"} :
    /\ ~IsSeatsVotes
    /\ Plots([tikz EXCEPT !.options.marker = OwnOr(color, @),
                          !.options.edge = IF stop = "color" THEN @ ELSE OwnOr(edge, @)])

\* ACTION set_hull_options
SetHullOptions ==
  \E color, edge \in Colors \cup {NotGiven, "none"}, stop \in {"color", "edge", "end"} :
    /\ ~IsSeatsVotes
    /\ Plots([tikz EXCEPT !.options.hull = OwnOr(color, @),
                          !.options.hulledge = IF stop = "color" THEN @ ELSE OwnOr(edge, @)])

\* ACTION clear_options of a plot: what was added stays
ClearPlotOptions ==
  LET cleared == [tikz EXCEPT !.options = FreshPlotOptions(tikz.kind)]
  IN  Plots(IF IsSeatsVotes
            THEN [cleared EXCEPT !.crosshairs = TRUE, !.markers = TRUE, !.line_legend = TRUE]
            ELSE cleared)

-----------------------------------------------------------------------------

NewPlot(kind, legend) ==
  [kind |-> kind, legend |-> legend, options |-> FreshPlotOptions(kind), elections |-> <<>>,
   lines |-> <<>>, crosshairs |-> TRUE, markers |-> TRUE, line_legend |-> TRUE]

PlotInit ==
  /\ \E kind \in PlotKinds, legend \in BOOLEAN : tikz = NewPlot(kind, legend)
  /\ DocumentInit(WithPackages(NewDocument, {"tikz"}))

SetsLimits ==
  \E axis \in {"x", "y"}, given \in Limits, rescale \in BOOLEAN : SetLimits(axis, given, rescale)

SetsPlot ==
  \/ SetsLimits \/ SetScale \/ UpdateCrosshairs \/ SetFlags \/ AddElection \/ AddLines \/ ClearLines
  \/ SetMarkerOptions \/ SetHullOptions \/ ClearPlotOptions

UsesPlotDocument == UsesDocument(GeneratePicture) /\ UNCHANGED tikz

PlotNext == SetsPlot \/ UsesPlotDocument

PlotSpec == PlotInit /\ [][PlotNext]_plotVars

-----------------------------------------------------------------------------
(* Properties *)

AtMost(x, y) == x # NaN /\ y # NaN /\ ~Less(y, x)

IsBetween(x, a, b) == AtMost(a, x) /\ AtMost(x, b)

\* A point on a path of horizontal and vertical steps.
IsOnPath(point, path) ==
  \E i \in 1..(Len(path) - 1) :
    IsBetween(point[1], path[i][1], path[i + 1][1]) /\ IsBetween(point[2], path[i][2], path[i + 1][2])

\* The marker of an election lies on its curve, though the two are computed apart:
\* the swing that turns a district is the one at which the curve takes its seat.
MarkersLieOnCurves ==
  IsSeatsVotes /\ tikz.markers =>
    \A i \in DOMAIN tikz.elections : IsOnPath(Markers[i].path[1], Curves[i].path)

\* The share of the seats that are won when every district swings by as much as the whole.
SeatsAfterSwing(pov, total, votes) ==
  LET swing == Minus(votes, OverallVoteShare(pov, total))
      won == {d \in DOMAIN pov : Less(Half, Plus(DistrictVoteShares(pov, total)[d], swing))}
  IN  Frac(Cardinality(won), Len(pov))

\* Wherever a curve is level it shows the seats that are won at the vote share in its middle.
CurvesCountSeats ==
  \A i \in DOMAIN tikz.elections :
    LET election == tikz.elections[i]
        path == Curves[i].path
        middle(j) == Divide(Plus(path[j][1], path[j + 1][1]), 2)
    IN  \A j \in 1..(Len(path) - 1) :
          Less(path[j][1], path[j + 1][1]) =>
            /\ path[j][2] = path[j + 1][2]
            /\ path[j][2] = SeatsAfterSwing(election.pov, election.total, middle(j))

\* A guide line has its slope, its middle in the center of the unit square, and its ends
\* on the border.
LinesCrossTheSquare ==
  \A i \in DOMAIN tikz.lines :
    LET end == Lines[i].path
        slope == OrderedLines[i].slope
        One == Int2Frac(1)
        Border == {Int2Frac(0), One}
    IN  /\ Plus(end[1], end[3]) = One /\ Plus(end[2], end[4]) = One
        /\ \A c \in 1..4 : IsBetween(end[c], Int2Frac(0), One)
        /\ {end[1], end[3]} = Border \/ {end[2], end[4]} = Border
        /\ LET across == Minus(end[3], end[1])
               up == Minus(end[4], end[2])
           IN  slope[2] * up[1] * across[2] = slope[1] * across[1] * up[2]

\* Invariant.  A picture shows what was given to it, whatever was refused, cleared, hidden or
\* shown again: a curve the seats of a uniform swing, a marker the point of its curve where
\* the election was, with ties and districts won by all votes among them, and a guide line
\* its slope through the center.
PicturesAreAccurate == MarkersLieOnCurves /\ CurvesCountSeats /\ LinesCrossTheSquare

=============================================================================
