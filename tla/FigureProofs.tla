---------------------------- MODULE FigureProofs ----------------------------
(***************************************************************************)
(* What is shown and saved of plots and tables, for any settings and calls *)
(*                                                                         *)
(* Plots on shared axes: wherever the plot goes, neither a rendering nor a *)
(* figure of it stays behind.  The first argument is about one axes under  *)
(* a rebuild: between removing the old rendering and drawing the new one,  *)
(* nothing that is applied touches what is drawn.  The second is about the *)
(* figures: the plot owns the one it made last or none.  The two meet      *)
(* where the plot leaves an axes: what the registry does not keep is on a  *)
(* figure that is closed.                                                  *)
(*                                                                         *)
(* What the plot was asked for is on its axes whenever it needs no update: *)
(* a claim is recorded with what the axes shows, or nothing is recorded of *)
(* it yet, on this axes and in the history of every axes that was left.    *)
(*                                                                         *)
(* Tables: the options always have preambles for their columns and groups, *)
(* and the document has the commands of every formatter in use; files are  *)
(* written only by passes that have settled; rules are counted at their    *)
(* boundaries through parsing, splitting off the index and reordering.     *)
(***************************************************************************)
EXTENDS ManagedAxes, TexTable, TikzPlots, FiniteSetTheorems, SequenceTheorems, WellFoundedInduction,
        TLAPS

\* matplotlib's ax.figure of an axes in a subfigure is the subfigure: a plot that is bound to
\* such an axes of its own figure closes the figure it is on.
NoSubfigures == "nested" \notin OwnPanels

(***************************************************************************)
(* A rebuild of one axes                                                   *)
(***************************************************************************)

IsDrawable(a) == "drawn" \in DOMAIN a

IsWork(w) ==
    /\ {"a", "units", "hid", "tracked", "failed"} \subseteq DOMAIN w
    /\ IsDrawable(w.a)
    /\ w.failed \in BOOLEAN

\* What is drawn, and whether it is tracked, is not touched.
Keeps(w, v) == IsWork(v) /\ v.a.drawn = w.a.drawn /\ v.tracked = w.tracked

\* Nothing is drawn, or one rendering.
IsDrawnOnce(drawn) == drawn = <<>> \/ \E data : drawn = <<data>>

LEMMA KeepsIsTransitive ==
    ASSUME NEW w, NEW v, NEW z, Keeps(w, v), Keeps(v, z)
    PROVE  Keeps(w, z)
BY DEF Keeps

\* An axes with the same drawing.
LEMMA AxesReplaced ==
    ASSUME NEW w, IsWork(w), NEW a, IsDrawable(a), a.drawn = w.a.drawn
    PROVE  Keeps(w, [w EXCEPT !.a = a])
BY DEF Keeps, IsWork

LEMMA ReconcileKeeps ==
    ASSUME NEW w, IsWork(w), NEW u, NEW external, NEW a, IsDrawable(a), a.drawn = w.a.drawn
    PROVE  Keeps(w, Reconcile(w, u, external, a))
BY DEF Keeps, IsWork, Reconcile

LEMMA LimitsKeep ==
    ASSUME NEW a, IsDrawable(a), NEW limits
    PROVE  IsDrawable(WithLimits(a, limits)) /\ WithLimits(a, limits).drawn = a.drawn
BY DEF IsDrawable, WithLimits

LEMMA TicksKeep ==
    ASSUME NEW a, IsDrawable(a), NEW at
    PROVE  IsDrawable(WithTicks(a, at)) /\ WithTicks(a, at).drawn = a.drawn
BY DEF IsDrawable, WithTicks

LEMMA ProtectedKeeps ==
    ASSUME NEW w, IsWork(w), NEW before, NEW external
    PROVE  Keeps(w, RestoreAutoscaleProtected(w, before, external))
<1>1. IsDrawable(w.a)
    BY DEF IsWork
<1>2. CASE "limits" \in external
    <2>1. Keeps(w, [w EXCEPT !.a = WithLimits(w.a, before["limits"][1])])
        BY <1>1, LimitsKeep, AxesReplaced
    <2>2. QED
        BY <1>2, <2>1 DEF RestoreAutoscaleProtected
<1>3. CASE "limits" \notin external
    BY <1>3 DEF RestoreAutoscaleProtected, Keeps
<1>4. QED
    BY <1>2, <1>3

LEMMA ApplyLimitsKeeps ==
    ASSUME NEW w, IsWork(w), NEW p, NEW external
    PROVE  Keeps(w, ApplyLimits(w, p, external))
<1> DEFINE a == IF p.limits # None THEN WithLimits(w.a, LimitsAsked(p)) ELSE w.a
<1>1. IsDrawable(a) /\ a.drawn = w.a.drawn
    BY LimitsKeep DEF IsWork
<1>2. QED
    BY <1>1, ReconcileKeeps DEF ApplyLimits

LEMMA FieldsKeep ==
    ASSUME NEW w, IsWork(w), NEW value
    PROVE  /\ Keeps(w, [w EXCEPT !.a.label = value])
           /\ \A a \in {[w.a EXCEPT !.label = value], [w.a EXCEPT !.frame = value],
                        [w.a EXCEPT !.legend = value], [w.a EXCEPT !.tick_style = value],
                        [w.a EXCEPT !.axis_visibility = value]} :
                 IsDrawable(a) /\ a.drawn = w.a.drawn
BY DEF Keeps, IsWork, IsDrawable

LEMMA AppliedFieldsKeep ==
    ASSUME NEW w, IsWork(w), NEW p, NEW external
    PROVE  /\ Keeps(w, ApplyText(w, p, external))
           /\ Keeps(w, ApplyFrameVisibility(w, p, external))
           /\ Keeps(w, ApplyTickStyle(w, p, external))
           /\ \A u : Keeps(w, ApplyRecorded(w, u, external))
<1>0. IsDrawable(w.a) /\ Keeps(w, w)
    BY DEF IsWork, Keeps
<1>1. Keeps(w, ApplyText(w, p, external))
    BY <1>0, FieldsKeep, ReconcileKeeps DEF ApplyText
<1>2. Keeps(w, ApplyFrameVisibility(w, p, external))
    BY FieldsKeep, ReconcileKeeps DEF ApplyFrameVisibility
<1>3. Keeps(w, ApplyTickStyle(w, p, external))
    BY <1>0, FieldsKeep, ReconcileKeeps DEF ApplyTickStyle
<1>4. \A u : Keeps(w, ApplyRecorded(w, u, external))
    BY <1>0, ReconcileKeeps DEF ApplyRecorded
<1>5. QED
    BY <1>1, <1>2, <1>3, <1>4

LEMMA ApplyLegendKeeps ==
    ASSUME NEW w, IsWork(w), NEW p, NEW external
    PROVE  Keeps(w, ApplyLegend(w, p, external))
<1>1. \A value : /\ Keeps(w, [w EXCEPT !.a = [w.a EXCEPT !.legend = value]])
                 /\ \A units : Keeps(w, [w EXCEPT !.a = [w.a EXCEPT !.legend = value],
                                                  !.units = units])
    BY DEF Keeps, IsWork, IsDrawable
<1>2. Keeps(w, w)
    BY DEF Keeps
<1>3. QED
    BY <1>1, <1>2 DEF ApplyLegend

LEMMA ApplyTicksNowKeeps ==
    ASSUME NEW w, IsWork(w), NEW p
    PROVE  Keeps(w, ApplyTicksNow(w, p))
<1> DEFINE at == TickLocations(p)
           placed == IF at = <<"auto">> THEN w.a ELSE WithTicks(w.a, at)
           visible == [placed EXCEPT !.ticks.hidden = IF w.hid THEN FALSE ELSE @]
           shown == IF IsDefaultLocator(visible.ticks) THEN <<"shown", visible.limits>>
                    ELSE visible.ticks.at
           fixed == IF at # <<"auto">> THEN visible ELSE WithTicks(visible, shown)
           Same(a) == IsDrawable(a) /\ a.drawn = w.a.drawn
<1>1. Same(placed)
    BY TicksKeep DEF IsWork
<1>2. Same(visible) /\ Same([placed EXCEPT !.ticks.hidden = TRUE])
    <2> HIDE DEF placed
    <2>1. QED
        BY <1>1 DEF IsDrawable
<1>3. Same(fixed)
    <2> HIDE DEF visible, shown
    <2>1. QED
        BY <1>2, TicksKeep
<1>4. /\ Same([visible EXCEPT !.ticks.text = "category"])
      /\ \A text : Same([fixed EXCEPT !.ticks.text = text])
    <2> HIDE DEF visible, fixed
    <2>1. QED
        BY <1>2, <1>3 DEF IsDrawable
<1> DEFINE Hidden(a) == [w EXCEPT !.a = a, !.hid = TRUE]
           Shown(a) == [w EXCEPT !.hid = FALSE, !.a = a]
           Failed(a) == [w EXCEPT !.hid = FALSE, !.a = a, !.failed = TRUE]
<1>5. ASSUME NEW a, Same(a)
      PROVE  Keeps(w, Hidden(a)) /\ Keeps(w, Shown(a)) /\ Keeps(w, Failed(a))
    BY <1>5 DEF Keeps, IsWork
<1> DEFINE hides == p.labels = 0 /\ at # <<"plot", 0>>
           counted == p.labels = NumberOfTicks(fixed.ticks.at)
<1>6. CASE hides
    <2>1. ApplyTicksNow(w, p) = Hidden([placed EXCEPT !.ticks.hidden = TRUE])
        BY <1>6 DEF ApplyTicksNow
    <2> HIDE DEF placed, Same, Hidden
    <2>2. QED
        BY <2>1, <1>2, <1>5
<1>7. CASE ~hides /\ p.labels = None
    <2>1. /\ p.kind # "categorical" => ApplyTicksNow(w, p) = Shown(visible)
          /\ p.kind = "categorical" =>
                 ApplyTicksNow(w, p) = Shown([visible EXCEPT !.ticks.text = "category"])
        BY <1>7 DEF ApplyTicksNow
    <2> HIDE DEF visible, Same, Shown
    <2>2. QED
        BY <2>1, <1>2, <1>4, <1>5
<1>8. CASE ~hides /\ p.labels # None /\ ~counted
    <2>1. ApplyTicksNow(w, p) = Failed(fixed)
        BY <1>8 DEF ApplyTicksNow
    <2> HIDE DEF fixed, Same, Failed
    <2>2. QED
        BY <2>1, <1>3, <1>5
<1>9. CASE ~hides /\ p.labels # None /\ counted
    <2>1. ApplyTicksNow(w, p) =
              Shown([fixed EXCEPT !.ticks.text = IF p.labels = 0 THEN "blank" ELSE "plot"])
        BY <1>9 DEF ApplyTicksNow
    <2> HIDE DEF fixed, Same, Shown
    <2>2. QED
        BY <2>1, <1>4, <1>5
<1>10. QED
    BY <1>6, <1>7, <1>8, <1>9

LEMMA ApplyTicksKeeps ==
    ASSUME NEW w, IsWork(w), NEW p, NEW external
    PROVE  Keeps(w, ApplyTicks(w, p, external))
<1>1. Keeps(w, ApplyTicksNow(w, p)) /\ IsWork(ApplyTicksNow(w, p))
    BY ApplyTicksNowKeeps DEF Keeps
<1>2. ASSUME NEW v, Keeps(w, v)
      PROVE  Keeps(w, RecordTicks(v, external))
    <2>1. IsWork(v) /\ IsDrawable(v.a)
        BY <1>2 DEF Keeps, IsWork
    <2>2. Keeps(v, Reconcile(v, "ticks", external, v.a))
        BY <2>1, ReconcileKeeps
    <2>3. Keeps(w, Reconcile(v, "ticks", external, v.a))
        BY <1>2, <2>2, KeepsIsTransitive
    <2>4. QED
        BY <1>2, <2>3 DEF RecordTicks
<1>3. Keeps(w, w)
    BY DEF Keeps
<1>4. QED
    BY <1>1, <1>2, <1>3 DEF ApplyTicks

\* The rendering that is tracked is the only one.
IsTracked(w) == IsWork(w) /\ (IF w.tracked THEN IsDrawnOnce(w.a.drawn) ELSE w.a.drawn = <<>>)

IsCleared(w) == IsWork(w) /\ ~w.tracked /\ w.a.drawn = <<>>

LEMMA FrontOfOne ==
    ASSUME NEW drawn, IsDrawnOnce(drawn)
    PROVE  Front(drawn) = <<>>
<1>1. Front(<<>>) = <<>>
    BY DEF Front
<1>2. ASSUME NEW data
      PROVE  Front(<<data>>) = <<>>
    BY DEF Front
<1>3. QED
    BY <1>1, <1>2 DEF IsDrawnOnce

LEMMA RemoveAllClears ==
    ASSUME NEW w, IsTracked(w)
    PROVE  IsCleared(RemoveAll(w)) /\ RemoveAll(w).failed = w.failed
<1>1. CASE w.tracked
    <2>1. Front(w.a.drawn) = <<>>
        BY <1>1, FrontOfOne DEF IsTracked
    <2>2. RemoveAll(w) = [w EXCEPT !.a = [w.a EXCEPT !.drawn = <<>>], !.tracked = FALSE]
        BY <1>1, <2>1 DEF RemoveAll
    <2>3. QED
        BY <2>2 DEF IsTracked, IsCleared, IsWork, IsDrawable
<1>2. CASE ~w.tracked
    BY <1>2 DEF RemoveAll, IsTracked, IsCleared
<1>3. QED
    BY <1>1, <1>2

LEMMA BeginRebuildClears ==
    ASSUME NEW w, IsTracked(w)
    PROVE  IsCleared(BeginRebuild(w)) /\ BeginRebuild(w).failed = w.failed
<1> DEFINE v == [w EXCEPT !.units = DetectExternalChanges(w.units, ReadSnapshot(w.a))]
<1>1. IsTracked(v) /\ v.failed = w.failed
    BY DEF IsTracked, IsWork
<1> HIDE DEF v
<1>2. IsCleared(RemoveAll(v)) /\ RemoveAll(v).failed = w.failed
    BY <1>1, RemoveAllClears
<1>3. QED
    BY <1>2 DEF BeginRebuild, v

\* One rendering of the plot's data, and it is tracked.
ShowsData(w, p) == IsWork(w) /\ w.tracked /\ w.a.drawn = <<p.data>>

LEMMA DrawnShowsData ==
    ASSUME NEW w, IsCleared(w), NEW p
    PROVE  ShowsData(Drawn(w, p), p)
<1> DEFINE a == WithArtists(w.a, p)
<1>1. IsDrawable(a) /\ a.drawn = Append(<<>>, p.data)
    BY DEF WithArtists, IsCleared, IsWork, IsDrawable
<1>2. Append(<<>>, p.data) = <<p.data>>
    OBVIOUS
<1> HIDE DEF a
<1>3. ShowsData([w EXCEPT !.a = a, !.tracked = TRUE], p)
    BY <1>1, <1>2 DEF IsCleared, IsWork, ShowsData
<1>4. QED
    BY <1>3 DEF Drawn, a

LEMMA KeptShowsData ==
    ASSUME NEW w, NEW v, NEW p, ShowsData(w, p), Keeps(w, v)
    PROVE  ShowsData(v, p)
BY DEF ShowsData, Keeps

LEMMA LaidShowsData ==
    ASSUME NEW w, IsCleared(w), NEW p, NEW before, NEW external
    PROVE  ShowsData(Laid(w, p, before, external), p)
<1> DEFINE one == Drawn(w, p)
           two == RestoreAutoscaleProtected(one, before, external)
           three == ApplyLimits(two, p, external)
           four == ApplyFrameVisibility(three, p, external)
           five == ApplyText(four, p, external)
           six == ApplyRecorded(five, "scale", external)
           seven == ApplyRecorded(six, "aspect", external)
<1>1. ShowsData(one, p)
    BY DrawnShowsData
<1> HIDE DEF one
<1>2. ShowsData(two, p)
    BY <1>1, ProtectedKeeps, KeptShowsData DEF ShowsData
<1> HIDE DEF two
<1>3. ShowsData(three, p)
    BY <1>2, ApplyLimitsKeeps, KeptShowsData DEF ShowsData
<1> HIDE DEF three
<1>4. ShowsData(four, p)
    BY <1>3, AppliedFieldsKeep, KeptShowsData DEF ShowsData
<1> HIDE DEF four
<1>5. ShowsData(five, p)
    BY <1>4, AppliedFieldsKeep, KeptShowsData DEF ShowsData
<1> HIDE DEF five
<1>6. ShowsData(six, p)
    BY <1>5, AppliedFieldsKeep, KeptShowsData DEF ShowsData
<1> HIDE DEF six
<1>7. ShowsData(seven, p)
    BY <1>6, AppliedFieldsKeep, KeptShowsData DEF ShowsData
<1> HIDE DEF seven
<1>8. ShowsData(ApplyLegend(seven, p, external), p)
    BY <1>7, ApplyLegendKeeps, KeptShowsData DEF ShowsData
<1>9. QED
    BY <1>8 DEF Laid, seven, six, five, four, three, two, one

LEMMA AnnotatedKeeps ==
    ASSUME NEW w, IsWork(w), NEW p
    PROVE  Keeps(w, Annotated(w, p))
<1>1. IsDrawable(WithAnnotations(w.a, p)) /\ WithAnnotations(w.a, p).drawn = w.a.drawn
    BY DEF WithAnnotations, IsWork, IsDrawable
<1>2. Keeps(w, [w EXCEPT !.a = WithAnnotations(w.a, p)])
    BY <1>1, AxesReplaced
<1>3. QED
    BY <1>2 DEF Annotated

LEMMA FinishedShowsData ==
    ASSUME NEW w, NEW p, ShowsData(w, p), NEW before, NEW external
    PROVE  ShowsData(Finished(w, p, before, external), p)
<1> DEFINE styled == ApplyTickStyle(w, p, external)
           annotated == Annotated(styled, p)
           again == ApplyTicks(annotated, p, external)
           protected == RestoreAutoscaleProtected(again, before, external)
           limited == ApplyLimits(protected, p, external)
<1>1. ShowsData(styled, p)
    BY AppliedFieldsKeep, KeptShowsData DEF ShowsData
<1> HIDE DEF styled
<1>2. ShowsData(annotated, p)
    BY <1>1, AnnotatedKeeps, KeptShowsData DEF ShowsData
<1> HIDE DEF annotated
<1>3. ShowsData(again, p)
    BY <1>2, ApplyTicksKeeps, KeptShowsData DEF ShowsData
<1> HIDE DEF again
<1>4. ShowsData(protected, p)
    BY <1>3, ProtectedKeeps, KeptShowsData DEF ShowsData
<1> HIDE DEF protected
<1>5. ShowsData(limited, p)
    BY <1>4, ApplyLimitsKeeps, KeptShowsData DEF ShowsData
<1> HIDE DEF limited
<1>6. ShowsData(ApplyTickStyle(limited, p, external), p)
    BY <1>5, AppliedFieldsKeep, KeptShowsData DEF ShowsData
<1>7. QED
    BY <1>6 DEF Finished, limited, protected, again, annotated, styled

\* A rebuild that has not failed shows the data, and one that has may have drawn nothing.
Redone(w, p) == ShowsData(w, p) \/ (IsCleared(w) /\ w.failed)

LEMMA RebuiltDataRedone ==
    ASSUME NEW w, IsCleared(w), NEW p, NEW before, NEW external
    PROVE  Redone(RebuiltData(w, p, before, external), p)
<1>1. CASE p.data = 0
    BY <1>1 DEF RebuiltData, Redone, IsCleared, IsWork
<1>2. CASE p.data # 0
    <2> DEFINE laid == Laid(w, p, before, external)
               ticked == ApplyTicks(laid, p, external)
    <2>1. ShowsData(laid, p)
        BY LaidShowsData
    <2> HIDE DEF laid
    <2>2. ShowsData(ticked, p)
        BY <2>1, ApplyTicksKeeps, KeptShowsData DEF ShowsData
    <2> HIDE DEF ticked
    <2>3. ShowsData(Finished(ticked, p, before, external), p)
        BY <2>2, FinishedShowsData
    <2>4. QED
        BY <1>2, <2>3 DEF RebuiltData, Redone, ticked, laid
<1>3. QED
    BY <1>1, <1>2

LEMMA RebuiltGeometryRedone ==
    ASSUME NEW w, IsCleared(w), NEW p, NEW before, NEW external
    PROVE  Redone(RebuiltGeometry(w, p, before, external), p)
<1> DEFINE one == Drawn(w, p)
           two == RestoreAutoscaleProtected(one, before, external)
           titled == ApplyText(two, p, external)
           visible == Reconcile(titled, "axis_visibility", external,
                                [titled.a EXCEPT !.axis_visibility = p.show_axis])
           shaped == IF "aspect" \in external
                     THEN [visible EXCEPT !.a.aspect = before["aspect"][1]]
                     ELSE [visible EXCEPT !.units =
                               RecordDefault(visible.units, "aspect", <<visible.a.aspect>>)]
<1>1. ShowsData(one, p)
    BY DrawnShowsData
<1> HIDE DEF one
<1>2. ShowsData(two, p)
    BY <1>1, ProtectedKeeps, KeptShowsData DEF ShowsData
<1> HIDE DEF two
<1>3. ShowsData(titled, p)
    BY <1>2, AppliedFieldsKeep, KeptShowsData DEF ShowsData
<1> HIDE DEF titled
<1>4. ShowsData(visible, p)
    <2> DEFINE a == [titled.a EXCEPT !.axis_visibility = p.show_axis]
    <2>1. IsDrawable(a) /\ a.drawn = titled.a.drawn
        BY <1>3, FieldsKeep DEF ShowsData
    <2> HIDE DEF a
    <2>2. Keeps(titled, Reconcile(titled, "axis_visibility", external, a))
        BY <1>3, <2>1, ReconcileKeeps DEF ShowsData
    <2>3. QED
        BY <1>3, <2>2, KeptShowsData DEF a
<1> HIDE DEF visible
<1>5. ShowsData(shaped, p)
    BY <1>4 DEF ShowsData, IsWork, IsDrawable
<1> HIDE DEF shaped
<1>6. ShowsData(ApplyLimits(shaped, p, external), p)
    BY <1>5, ApplyLimitsKeeps, KeptShowsData DEF ShowsData
<1>7. QED
    BY <1>6 DEF RebuiltGeometry, Redone, shaped, visible, titled, two, one

LEMMA RebuildRedone ==
    ASSUME NEW w, IsTracked(w), NEW p
    PROVE  Redone(Rebuild(w, p), p)
<1>1. IsCleared(BeginRebuild(w))
    BY BeginRebuildClears
<1>2. QED
    BY <1>1, RebuiltDataRedone, RebuiltGeometryRedone DEF Rebuild, Rebuilt

(***************************************************************************)
(* The figures                                                             *)
(***************************************************************************)

FigureType ==
    [bound : Axes \cup {<<>>}, shared : BOOLEAN, finalizer : Nat, open : SUBSET Nat, made : Nat]

CallsType == [units : SUBSET Units, settings : Nat, direct : Nat, binds : 0..MaxBinds]

\* The plot owns the figure it made last, or none, and pyplot holds that figure and the
\* caller's; it is bound to an axes of the one or the other.
FiguresTold ==
    /\ figure \in FigureType /\ calls \in CallsType
    /\ {"kind", "data"} \subseteq DOMAIN plot
    /\ figure.bound = <<>> => figure.shared
    /\ (figure.bound = <<>>) <=> (plot.kind = "none")
    /\ figure.bound # <<>> =>
           /\ figure.made <= calls.binds + 1
           /\ FigureOf(figure.bound) = IF figure.shared THEN CallersFigure ELSE figure.made
    /\ figure.open = {CallersFigure} \cup (IF figure.shared THEN {} ELSE {figure.made})
    /\ figure.finalizer = IF figure.shared THEN CallersFigure ELSE figure.made
    /\ ~figure.shared => figure.made # CallersFigure

LEMMA FiguresAreClosed ==
    ASSUME FiguresTold
    PROVE  OwnedFiguresAreClosed
BY DEF FiguresTold, FigureType, OwnedFiguresAreClosed, IsAlive, bound, CallersFigure

LEMMA InitFigures ==
    ASSUME Init
    PROVE  FiguresTold
BY AxesAssumption DEF Init, FiguresTold, FigureType, CallsType, NoPlot, CallersFigure

LEMMA OwnedIsTyped ==
    ASSUME NEW place \in Axes, NEW held \in SUBSET Nat, NEW number \in Nat
    PROVE  [bound |-> place, shared |-> FALSE, finalizer |-> number, open |-> held,
            made |-> number] \in FigureType
BY DEF FigureType

\* A figure of the plot's own is new.
LEMMA FreshFigureTold ==
    ASSUME FiguresTold, figure.made <= MaxBinds,
           NEW f, f = AttachAxes(figure, <<>>)
    PROVE  /\ f.made = figure.made + 1 /\ f.bound = <<f.made, "main">> /\ f.bound \in Axes
           /\ f.shared = FALSE /\ f.finalizer = f.made
           /\ f.open = {CallersFigure, f.made}
           /\ f \in FigureType
<1>1. f.made = figure.made + 1 /\ f.bound = <<f.made, "main">> /\ ~f.shared /\ f.finalizer = f.made
    BY DEF AttachAxes
<1>2. f.bound \in Axes
    <2>1. f.made \in Figures
        BY <1>1, AxesAssumption DEF Figures, FiguresTold, FigureType, CallsType
    <2>2. "main" \in OwnPanels
        BY AxesAssumption
    <2>3. <<f.made, "main">> \in Figures \X OwnPanels
        BY <2>1, <2>2
    <2>4. QED
        BY <1>1, <2>3 DEF Axes
<1>3. f.open = {CallersFigure, f.made}
    BY DEF AttachAxes, Leaves, IsOwned, FiguresTold, FigureType, CallsType, FigureType, CallsType, CallersFigure
<1>4. f \in FigureType
    <2>1. f = [bound |-> f.bound, shared |-> FALSE, finalizer |-> f.made, open |-> f.open,
               made |-> f.made]
        BY <1>1 DEF AttachAxes
    <2>2. f.made \in Nat /\ f.open \in SUBSET Nat
        BY <1>1, <1>2, <1>3 DEF FiguresTold, FigureType, CallersFigure
    <2>3. QED
        BY <1>2, <2>1, <2>2, OwnedIsTyped
<1>5. QED
    BY <1>1, <1>2, <1>3, <1>4

\* An axes that is given is the caller's, or on the figure the plot owns.
LEMMA GivenAxesTold ==
    ASSUME FiguresTold, NoSubfigures, figure.bound # <<>>,
           NEW x \in Axes, FigureOf(x) \in figure.open,
           NEW f, f = AttachAxes(figure, x)
    PROVE  /\ f.made = figure.made /\ f.bound = x
           /\ f.shared = (FigureOf(x) = CallersFigure)
           /\ FigureOf(x) = IF f.shared THEN CallersFigure ELSE figure.made
           /\ f.open = {CallersFigure} \cup (IF f.shared THEN {} ELSE {figure.made})
           /\ f.finalizer = IF f.shared THEN CallersFigure ELSE figure.made
           /\ f \in FigureType
<1>1. x # <<>>
    BY DEF Axes
<1>2. CASE FigureOf(x) = CallersFigure
    <2>1. CASE figure.shared
        <3>1. f = [figure EXCEPT !.bound = x, !.shared = TRUE, !.finalizer = 0]
            BY <1>1, <2>1 DEF AttachAxes, Leaves, IsOwned
        <3>2. QED
            BY <1>2, <2>1, <3>1 DEF FiguresTold, FigureType, CallsType, CallersFigure
    <2>2. CASE ~figure.shared
        <3>1. FigureOf(figure.bound) = figure.made /\ figure.made # CallersFigure
            BY <2>2 DEF FiguresTold, FigureType, CallsType
        <3>2. DirectFigure(x) # figure.made
            BY <1>2, <3>1 DEF DirectFigure, FigureOf, CallersFigure, FiguresTold, FigureType
        <3>3. f = [[figure EXCEPT !.open = figure.open \ {figure.made}, !.finalizer = 0]
                       EXCEPT !.bound = x, !.shared = TRUE, !.finalizer = 0]
            BY <1>1, <1>2, <2>2, <3>1, <3>2 DEF AttachAxes, Leaves, IsOwned
        <3>4. QED
            BY <1>2, <2>2, <3>1, <3>3 DEF FiguresTold, FigureType, CallsType, CallersFigure
    <2>3. QED
        BY <2>1, <2>2 DEF FiguresTold, FigureType, CallsType
<1>3. CASE FigureOf(x) # CallersFigure
    <2>1. ~figure.shared /\ FigureOf(x) = figure.made
        BY <1>3 DEF FiguresTold, FigureType, CallsType
    <2>2. x[2] # "nested"
        BY <1>3 DEF NoSubfigures, Axes, FigureOf
    <2>3. QED
        BY <1>1, <1>3, <2>1, <2>2
           DEF AttachAxes, Leaves, IsOwned, FiguresTold, FigureType, CallsType, DirectFigure, FigureOf, CallersFigure
<1>4. QED
    BY <1>2, <1>3

(***************************************************************************)
(* The drawings                                                            *)
(***************************************************************************)

IsCanvas(as) ==
    /\ as = [x \in Axes |-> as[x]]
    /\ \A x \in Axes : IsDrawable(as[x]) /\ IsDrawnOnce(as[x].drawn)

\* What a plot has drawn is tracked, on the axes it is bound to and on those it can come
\* back to.  Nothing is drawn on a figure that is not made yet, or before there is a plot.
DrawingsTold ==
    /\ IsCanvas(axes)
    /\ figure.bound # <<>> =>
           \A x \in Axes : axes[x].drawn # <<>> =>
               IF x = figure.bound THEN registry.tracked ELSE x \in registry.histories
    /\ \A x \in Axes : FigureOf(x) > figure.made => axes[x].drawn = <<>>
    /\ figure.made = 0 /\ figure.bound = <<>> => \A x \in Axes : axes[x].drawn = <<>>
    /\ figure.bound # <<>> /\ ~needs_update => axes[figure.bound].drawn = <<plot.data>>

IInv == FiguresTold /\ DrawingsTold

LEMMA InvariantIsEnough ==
    ASSUME IInv
    PROVE  NothingIsLeftBehind
<1>1. OwnedFiguresAreClosed
    BY FiguresAreClosed DEF IInv
<1>2. ASSUME NEW x \in Axes
      PROVE  Len(axes[x].drawn) <= 1
    <2>1. IsDrawnOnce(axes[x].drawn)
        BY DEF IInv, DrawingsTold, IsCanvas
    <2>2. Len(<<>>) <= 1 /\ \A data : Len(<<data>>) <= 1
        OBVIOUS
    <2>3. QED
        BY <2>1, <2>2 DEF IsDrawnOnce
<1>3. IsAlive /\ ~needs_update => axes[bound].drawn = <<plot.data>>
    BY DEF IInv, DrawingsTold, IsAlive, bound
<1>4. QED
    BY <1>1, <1>2, <1>3 DEF NothingIsLeftBehind, DrawnOnce

LEMMA InitHolds ==
    ASSUME Init
    PROVE  IInv
<1>1. IsDrawable(FreshAxes) /\ FreshAxes.drawn = <<>>
    BY DEF FreshAxes, IsDrawable
<1>2. IsCanvas(axes) /\ \A x \in Axes : axes[x].drawn = <<>>
    BY <1>1 DEF Init, IsCanvas, IsDrawnOnce
<1>3. figure.bound = <<>>
    BY DEF Init
<1>4. QED
    BY <1>2, <1>3, InitFigures DEF IInv, DrawingsTold

LEMMA AfterUpdateDraws ==
    ASSUME NEW rebound, NEW x \in Axes, NEW g, AfterUpdate(rebound, x, g),
           IsCanvas(rebound.axes), IsTracked(rebound.work)
    PROVE  /\ IsCanvas(axes')
           /\ \A y \in Axes \ {x} : axes'[y] = rebound.axes[y]
           /\ axes'[x].drawn # <<>> => registry'.tracked
           /\ registry'.histories = rebound.kept
           /\ ~needs_update' => axes'[x].drawn = <<plot.data>>
<1> DEFINE done == Rebuild(rebound.work, plot)
<1>1. Redone(done, plot)
    BY RebuildRedone
<1> HIDE DEF done
<1>2. /\ axes' = [rebound.axes EXCEPT ![x] = done.a]
      /\ registry' = [tracked |-> done.tracked, histories |-> rebound.kept]
      /\ needs_update' = done.failed
    BY DEF AfterUpdate, done
<1>3. IsDrawable(done.a) /\ IsDrawnOnce(done.a.drawn)
    BY <1>1 DEF Redone, ShowsData, IsCleared, IsWork, IsDrawnOnce
<1>4. IsCanvas(axes') /\ axes'[x] = done.a /\ \A y \in Axes \ {x} : axes'[y] = rebound.axes[y]
    BY <1>2, <1>3 DEF IsCanvas
<1>5. QED
    BY <1>1, <1>2, <1>4 DEF Redone, ShowsData, IsCleared, IsWork

\* The axes the plot is bound to is an axes of a figure that is open.
LEMMA BoundIsOpen ==
    ASSUME IInv, figure.bound # <<>>
    PROVE  /\ bound = figure.bound /\ bound \in Axes /\ ~(FigureOf(bound) > figure.made)
           /\ FigureOf(bound) \in figure.open /\ FigureOf(bound) \in Nat
BY DEF IInv, FiguresTold, FigureType, bound, CallersFigure

LEMMA CurrentIsTracked ==
    ASSUME IInv, figure.bound # <<>>
    PROVE  /\ IsTracked(Current.work) /\ Current.axes = axes /\ Current.kept = registry.histories
           /\ Current.work.a = axes[bound] /\ Current.work.failed = FALSE
<1>1. bound = figure.bound /\ bound \in Axes
    BY BoundIsOpen
<1>2. IsDrawable(axes[bound]) /\ IsDrawnOnce(axes[bound].drawn)
    BY <1>1 DEF IInv, DrawingsTold, IsCanvas
<1>3. ~registry.tracked => axes[bound].drawn = <<>>
    BY <1>1 DEF IInv, DrawingsTold
<1>4. QED
    BY <1>2, <1>3 DEF Current, Work, IsTracked, IsWork

\* The plot stays where it is, and only what is drawn there may change.
LEMMA StaysInPlace ==
    ASSUME IInv, figure.bound # <<>>, plot.kind' = plot.kind, plot.data' = plot.data,
           {"kind", "data"} \subseteq DOMAIN plot',
           figure' = figure, IsCanvas(axes'), registry'.histories = registry.histories,
           calls' \in CallsType,
           calls'.binds >= calls.binds,
           \A y \in Axes \ {bound} : axes'[y].drawn = axes[y].drawn,
           axes'[bound].drawn # <<>> => registry'.tracked,
           ~needs_update' => axes'[bound].drawn = <<plot'.data>>
    PROVE  IInv'
<1>1. bound = figure.bound /\ bound \in Axes /\ ~(FigureOf(bound) > figure.made)
    BY BoundIsOpen
<1>2. FiguresTold'
    BY DEF IInv, FiguresTold, FigureType, CallsType
<1>3. DrawingsTold'
    BY <1>1 DEF IInv, DrawingsTold
<1>4. QED
    BY <1>2, <1>3 DEF IInv

LEMMA UpdateAxisHolds ==
    ASSUME IInv, UpdateAxis
    PROVE  IInv'
<1>1. figure.bound # <<>> /\ AfterUpdate(Current, bound, ghost)
      /\ UNCHANGED <<plot, figure, calls>>
    BY DEF UpdateAxis, IsAlive, bound
<1>2. IsCanvas(Current.axes) /\ Current.axes = axes /\ Current.kept = registry.histories
    BY <1>1, CurrentIsTracked DEF IInv, DrawingsTold
<1>3. bound \in Axes /\ IsTracked(Current.work)
    BY <1>1, BoundIsOpen, CurrentIsTracked
<1>4. /\ IsCanvas(axes')
      /\ \A y \in Axes \ {bound} : axes'[y] = axes[y]
      /\ axes'[bound].drawn # <<>> => registry'.tracked
      /\ registry'.histories = registry.histories
      /\ ~needs_update' => axes'[bound].drawn = <<plot.data>>
    BY <1>1, <1>2, <1>3, AfterUpdateDraws
<1>5. QED
    BY <1>1, <1>4, StaysInPlace DEF IInv, FiguresTold, FigureType, CallsType

\* A call that asks the plot for something leaves every drawing.
LEMMA SettingHolds ==
    ASSUME IInv, NEW settings, NEW a,
           IsDrawable(a), a.drawn = Here.drawn,
           figure.bound # <<>>, plot' = settings, settings.kind = plot.kind,
           {"kind", "data"} \subseteq DOMAIN settings,
           axes' = [axes EXCEPT ![bound] = a], needs_update' = TRUE,
           calls' \in CallsType,
           calls'.binds = calls.binds, UNCHANGED <<registry, figure>>
    PROVE  IInv'
<1>1. bound = figure.bound /\ bound \in Axes /\ ~(FigureOf(bound) > figure.made)
    BY BoundIsOpen
<1>2. IsCanvas(axes') /\ \A y \in Axes : axes'[y].drawn = axes[y].drawn
    BY <1>1 DEF IInv, DrawingsTold, IsCanvas, Here
<1>3. FiguresTold'
    BY DEF IInv, FiguresTold, FigureType, CallsType
<1>4. DrawingsTold'
    BY <1>1, <1>2 DEF IInv, DrawingsTold
<1>5. QED
    BY <1>3, <1>4 DEF IInv

LEMMA ClaimsHold ==
    ASSUME IInv, NEW u \in Units, NEW settings, NEW a, NEW now, Claims(u, settings, a, now),
           IsDrawable(a), a.drawn = Here.drawn, settings.kind = plot.kind,
           {"kind", "data"} \subseteq DOMAIN settings
    PROVE  IInv'
<1>1. figure.bound # <<>>
    BY DEF Claims, IsAlive, bound
<1>2. calls' \in CallsType
      /\ calls'.binds = calls.binds
    <2>1. calls.units \cup {u} \subseteq Units /\ calls.settings + 1 \in Nat
        BY DEF IInv, FiguresTold, FigureType, CallsType
    <2>2. calls' = [calls EXCEPT !.settings = calls.settings + 1, !.units = calls.units \cup {u}]
        BY DEF Claims
    <2>3. calls \in CallsType
        BY DEF IInv, FiguresTold, FigureType, CallsType
    <2>4. QED
        BY <2>1, <2>2, <2>3 DEF CallsType
<1>3. QED
    BY <1>1, <1>2, SettingHolds DEF Claims

LEMMA AddsHold ==
    ASSUME IInv, NEW settings, NEW a, NEW units, NEW released, Adds(settings, a, units, released),
           IsDrawable(a), a.drawn = Here.drawn, settings.kind = plot.kind,
           {"kind", "data"} \subseteq DOMAIN settings
    PROVE  IInv'
<1>1. figure.bound # <<>>
    BY DEF Adds, IsAlive, bound
<1>2. calls' \in CallsType
      /\ calls'.binds = calls.binds
    <2> DEFINE more == IF plot.data = 0 THEN calls.settings ELSE calls.settings + 1
    <2>1. calls \in CallsType
        BY DEF IInv, FiguresTold, FigureType, CallsType
    <2>2. calls' = [calls EXCEPT !.settings = more]
        BY DEF Adds
    <2>3. more \in Nat
        BY <2>1 DEF CallsType
    <2> HIDE DEF more
    <2>4. QED
        BY <2>1, <2>2, <2>3 DEF CallsType
<1>3. QED
    BY <1>1, <1>2, SettingHolds DEF Adds

LEMMA RefuseHolds ==
    ASSUME IInv, Refuse
    PROVE  IInv'
<1>1. calls' \in CallsType /\ calls'.binds = calls.binds
    <2> DEFINE more == calls.settings + 1
    <2>1. calls \in CallsType
        BY DEF IInv, FiguresTold, FigureType, CallsType
    <2>2. calls' = [calls EXCEPT !.settings = more]
        BY DEF Refuse
    <2>3. more \in Nat
        BY <2>1 DEF CallsType
    <2> HIDE DEF more
    <2>4. QED
        BY <2>1, <2>2, <2>3 DEF CallsType
<1>2. UNCHANGED <<axes, plot, registry, figure>> /\ needs_update' = TRUE
    BY DEF Refuse
<1>3. FiguresTold'
    BY <1>1, <1>2 DEF IInv, FiguresTold
<1>4. DrawingsTold'
    BY <1>2 DEF IInv, DrawingsTold
<1>5. QED
    BY <1>3, <1>4 DEF IInv

\* What a setter does to the axes and to the settings.
LEMMA SettingsKeep ==
    ASSUME IInv, figure.bound # <<>>
    PROVE  /\ IsDrawable(Here)
           /\ \A limits : LET a == WithLimits(Here, limits)
                          IN  IsDrawable(a) /\ a.drawn = Here.drawn
           /\ \A value : \A a \in {[Here EXCEPT !.label = value], [Here EXCEPT !.frame = value],
                                   [Here EXCEPT !.axis_visibility = value],
                                   [Here EXCEPT !.auto = TRUE],
                                   [Here EXCEPT !.auto = TRUE, !.limits = value]} :
                  IsDrawable(a) /\ a.drawn = Here.drawn
           /\ \A value, other : \A settings \in
                  {[plot EXCEPT !.limits = value], [plot EXCEPT !.style = value],
                   [plot EXCEPT !.text = value], [plot EXCEPT !.text_style = value],
                   [plot EXCEPT !.frame = value], [plot EXCEPT !.legend = value],
                   [plot EXCEPT !.show_axis = value], [plot EXCEPT !.far_lines = value],
                   [plot EXCEPT !.data = value],
                   [plot EXCEPT !.ticks = value, !.labels = other]} :
                  settings.kind = plot.kind /\ {"kind", "data"} \subseteq DOMAIN settings
<1>1. IsDrawable(Here)
    BY BoundIsOpen DEF IInv, DrawingsTold, IsCanvas, Here
<1>2. \A limits : LET a == WithLimits(Here, limits)
                  IN  IsDrawable(a) /\ a.drawn = Here.drawn
    BY <1>1, LimitsKeep
<1>3. ASSUME NEW value
      PROVE  \A a \in {[Here EXCEPT !.label = value], [Here EXCEPT !.frame = value],
                       [Here EXCEPT !.axis_visibility = value],
                       [Here EXCEPT !.auto = TRUE],
                       [Here EXCEPT !.auto = TRUE, !.limits = value]} :
                  IsDrawable(a) /\ a.drawn = Here.drawn
    BY <1>1 DEF IsDrawable
<1>4. {"kind", "data"} \subseteq DOMAIN plot
    BY DEF IInv, FiguresTold, FigureType, CallsType
<1>5. ASSUME NEW value, NEW other
      PROVE  \A settings \in
                  {[plot EXCEPT !.limits = value], [plot EXCEPT !.style = value],
                   [plot EXCEPT !.text = value], [plot EXCEPT !.text_style = value],
                   [plot EXCEPT !.frame = value], [plot EXCEPT !.legend = value],
                   [plot EXCEPT !.show_axis = value], [plot EXCEPT !.far_lines = value],
                   [plot EXCEPT !.data = value],
                   [plot EXCEPT !.ticks = value, !.labels = other]} :
                  settings.kind = plot.kind /\ {"kind", "data"} \subseteq DOMAIN settings
    BY <1>4
<1>6. QED
    BY <1>1, <1>2, <1>3, <1>5

LEMMA SettersHold ==
    ASSUME IInv, Setting
    PROVE  IInv'
<1>1. ASSUME IsAlive PROVE figure.bound # <<>>
    BY <1>1 DEF IsAlive, bound
<1>2. CASE SetLim
    <2> DEFINE settings == [plot EXCEPT !.limits = 1]
               a == WithLimits(Here, LimitsAsked(settings))
    <2>1. Claims("limits", settings, a, TRUE)
        BY <1>2 DEF SetLim
    <2>2. figure.bound # <<>>
        BY <2>1, <1>1 DEF Claims
    <2>3. settings.kind = plot.kind /\ {"kind", "data"} \subseteq DOMAIN settings
        BY <2>2, SettingsKeep
    <2>4. IsDrawable(a) /\ a.drawn = Here.drawn
        BY <2>2, SettingsKeep
    <2> HIDE DEF settings, a
    <2>5. QED
        BY <2>1, <2>3, <2>4, ClaimsHold DEF Units
<1>3. CASE SetTicks
    <2>1. PICK locations, labels \in TickCounts \cup {None} :
              LET resolved == ResolveTickLabelUpdate(plot, locations, labels)
              IN  Claims("ticks", [plot EXCEPT !.ticks = resolved.ticks, !.labels = resolved.labels],
                         Here, FALSE)
        BY <1>3 DEF SetTicks
    <2> DEFINE resolved == ResolveTickLabelUpdate(plot, locations, labels)
               settings == [plot EXCEPT !.ticks = resolved.ticks, !.labels = resolved.labels]
    <2>2. Claims("ticks", settings, Here, FALSE)
        BY <2>1
    <2> HIDE DEF resolved
    <2>3. figure.bound # <<>>
        BY <2>2, <1>1 DEF Claims
    <2>4. IsDrawable(Here) /\ settings.kind = plot.kind /\ {"kind", "data"} \subseteq DOMAIN settings
        BY <2>3, SettingsKeep
    <2> HIDE DEF settings
    <2>5. QED
        BY <2>2, <2>4, ClaimsHold DEF Units
<1>4. CASE SetTickStyle
    <2> DEFINE settings == [plot EXCEPT !.style = "plot"]
    <2>1. Claims("tick_style", settings, Here, FALSE)
        BY <1>4 DEF SetTickStyle
    <2>2. figure.bound # <<>>
        BY <2>1, <1>1 DEF Claims
    <2>3. IsDrawable(Here) /\ settings.kind = plot.kind /\ {"kind", "data"} \subseteq DOMAIN settings
        BY <2>2, SettingsKeep
    <2> HIDE DEF settings
    <2>4. QED
        BY <2>1, <2>3, ClaimsHold DEF Units
<1>5. CASE SetText
    <2>1. PICK text \in {"", "plot"} :
              Claims("label", [plot EXCEPT !.text = text],
                     [Here EXCEPT !.label = TextAsked([plot EXCEPT !.text = text])], TRUE)
        BY <1>5 DEF SetText
    <2> DEFINE settings == [plot EXCEPT !.text = text]
               asked == TextAsked(settings)
               a == [Here EXCEPT !.label = asked]
    <2>2. Claims("label", settings, a, TRUE)
        BY <2>1
    <2> HIDE DEF asked
    <2>3. figure.bound # <<>>
        BY <2>2, <1>1 DEF Claims
    <2>4. settings.kind = plot.kind /\ {"kind", "data"} \subseteq DOMAIN settings
        BY <2>3, SettingsKeep
    <2>5. IsDrawable(a) /\ a.drawn = Here.drawn
        BY <2>3, SettingsKeep
    <2> HIDE DEF settings, a
    <2>6. QED
        BY <2>2, <2>4, <2>5, ClaimsHold DEF Units
<1>6. CASE SetTextStyle
    <2>1. PICK styled \in BOOLEAN :
              \/ Claims("label", [plot EXCEPT !.text_style = styled],
                        [Here EXCEPT !.label = TextAsked([plot EXCEPT !.text_style = styled])], TRUE)
              \/ Claims("label", [plot EXCEPT !.text_style = styled], Here, FALSE)
        BY <1>6 DEF SetTextStyle
    <2> DEFINE settings == [plot EXCEPT !.text_style = styled]
               asked == TextAsked(settings)
               a == [Here EXCEPT !.label = asked]
    <2>2. Claims("label", settings, a, TRUE) \/ Claims("label", settings, Here, FALSE)
        BY <2>1
    <2> HIDE DEF asked
    <2>3. figure.bound # <<>>
        BY <2>2, <1>1 DEF Claims
    <2>4. settings.kind = plot.kind /\ {"kind", "data"} \subseteq DOMAIN settings
        BY <2>3, SettingsKeep
    <2>5. IsDrawable(Here) /\ IsDrawable(a) /\ a.drawn = Here.drawn
        BY <2>3, SettingsKeep
    <2> HIDE DEF settings, a
    <2>6. QED
        BY <2>2, <2>4, <2>5, ClaimsHold DEF Units
<1>7. CASE SetFrameVisibility
    <2>1. PICK frame \in {"fresh", "plot"} :
              Claims("frame", [plot EXCEPT !.frame = frame], [Here EXCEPT !.frame = frame], TRUE)
        BY <1>7 DEF SetFrameVisibility
    <2> DEFINE settings == [plot EXCEPT !.frame = frame]
               a == [Here EXCEPT !.frame = frame]
    <2>2. figure.bound # <<>>
        BY <2>1, <1>1 DEF Claims
    <2>3. settings.kind = plot.kind /\ {"kind", "data"} \subseteq DOMAIN settings
        BY <2>2, SettingsKeep
    <2>4. IsDrawable(a) /\ a.drawn = Here.drawn
        BY <2>2, SettingsKeep
    <2>5. Claims("frame", settings, a, TRUE)
        BY <2>1
    <2> HIDE DEF settings, a
    <2>6. QED
        BY <2>3, <2>4, <2>5, ClaimsHold DEF Units
<1>8. CASE SetLegend
    <2>1. PICK legend \in BOOLEAN :
              Claims("legend", [plot EXCEPT !.legend = legend], Here, FALSE)
        BY <1>8 DEF SetLegend
    <2> DEFINE settings == [plot EXCEPT !.legend = legend]
    <2>2. figure.bound # <<>>
        BY <2>1, <1>1 DEF Claims
    <2>3. IsDrawable(Here) /\ settings.kind = plot.kind /\ {"kind", "data"} \subseteq DOMAIN settings
        BY <2>2, SettingsKeep
    <2>4. Claims("legend", settings, Here, FALSE)
        BY <2>1
    <2> HIDE DEF settings
    <2>5. QED
        BY <2>3, <2>4, ClaimsHold DEF Units
<1>9. CASE SetShowAxis
    <2>1. PICK show_axis \in BOOLEAN :
              Claims("axis_visibility", [plot EXCEPT !.show_axis = show_axis],
                     [Here EXCEPT !.axis_visibility = show_axis], TRUE)
        BY <1>9 DEF SetShowAxis
    <2> DEFINE settings == [plot EXCEPT !.show_axis = show_axis]
               a == [Here EXCEPT !.axis_visibility = show_axis]
    <2>2. figure.bound # <<>>
        BY <2>1, <1>1 DEF Claims
    <2>3. settings.kind = plot.kind /\ {"kind", "data"} \subseteq DOMAIN settings
        BY <2>2, SettingsKeep
    <2>4. IsDrawable(a) /\ a.drawn = Here.drawn
        BY <2>2, SettingsKeep
    <2>5. Claims("axis_visibility", settings, a, TRUE)
        BY <2>1
    <2> HIDE DEF settings, a
    <2>6. QED
        BY <2>3, <2>4, <2>5, ClaimsHold DEF Units
<1>10. CASE AddUnnamed
    <2>1. PICK settings \in {[plot EXCEPT !.data = @ + 1], [plot EXCEPT !.far_lines = TRUE]} :
              Adds(settings, Here, managed.units, {})
        BY <1>10 DEF AddUnnamed
    <2>2. figure.bound # <<>>
        BY <2>1, <1>1 DEF Adds
    <2>3. settings.kind = plot.kind /\ {"kind", "data"} \subseteq DOMAIN settings
        BY <2>1, <2>2, SettingsKeep
    <2>4. IsDrawable(Here)
        BY <2>2, SettingsKeep
    <2>5. QED
        BY <2>1, <2>3, <2>4, AddsHold
<1>11. CASE AddNamed
    <2> DEFINE settings == [plot EXCEPT !.data = @ + 1]
    <2>1. Claims("legend", settings, Here, FALSE)
        BY <1>11 DEF AddNamed
    <2>2. figure.bound # <<>>
        BY <2>1, <1>1 DEF Claims
    <2>3. IsDrawable(Here) /\ settings.kind = plot.kind /\ {"kind", "data"} \subseteq DOMAIN settings
        BY <2>2, SettingsKeep
    <2> HIDE DEF settings
    <2>4. QED
        BY <2>1, <2>3, ClaimsHold DEF Units
<1>12. CASE ClearLimits
    <2> DEFINE shown == IF Here.drawn = <<>> THEN 0 ELSE Here.drawn[Len(Here.drawn)]
               limits == <<"data", shown, FALSE>>
               a == [Here EXCEPT !.auto = TRUE, !.limits = limits]
               settings == [plot EXCEPT !.limits = None]
    <2>1. Adds(settings, a, Released(a), {"limits"})
        BY <1>12 DEF ClearLimits
    <2> HIDE DEF limits
    <2>2. figure.bound # <<>>
        BY <2>1, <1>1 DEF Adds
    <2>3. settings.kind = plot.kind /\ {"kind", "data"} \subseteq DOMAIN settings
        BY <2>2, SettingsKeep
    <2>4. IsDrawable(a) /\ a.drawn = Here.drawn
        BY <2>2, SettingsKeep
    <2> HIDE DEF settings, a
    <2>5. QED
        BY <2>1, <2>3, <2>4, AddsHold
<1>13. CASE SetTargetCRS
    <2> DEFINE a == [Here EXCEPT !.auto = TRUE]
               settings == [plot EXCEPT !.limits = None]
    <2>1. Adds(settings, a, Released(a), {"limits"})
        BY <1>13 DEF SetTargetCRS
    <2>2. figure.bound # <<>>
        BY <2>1, <1>1 DEF Adds
    <2>3. settings.kind = plot.kind /\ {"kind", "data"} \subseteq DOMAIN settings
        BY <2>2, SettingsKeep
    <2>4. IsDrawable(a) /\ a.drawn = Here.drawn
        BY <2>2, SettingsKeep
    <2> HIDE DEF settings, a
    <2>5. QED
        BY <2>1, <2>3, <2>4, AddsHold
<1>14. CASE Refuse
    BY <1>14, RefuseHolds
<1>15. QED
    BY <1>2, <1>3, <1>4, <1>5, <1>6, <1>7, <1>8, <1>9, <1>10, <1>11, <1>12, <1>13, <1>14 DEF Setting

LEMMA ChangeDirectlyHolds ==
    ASSUME IInv, ChangeDirectly
    PROVE  IInv'
<1>1. PICK x \in Axes, u \in Units :
          /\ axes' = [axes EXCEPT ![x] = CallersAxes(axes[x], u)]
          /\ calls' = [calls EXCEPT !.direct = @ + 1, !.units = @ \cup {u}]
          /\ UNCHANGED <<plot, managed, registry, figure, needs_update>>
    BY DEF ChangeDirectly
<1> DEFINE a == CallersAxes(axes[x], u)
<1>2. IsDrawable(axes[x]) /\ IsDrawnOnce(axes[x].drawn)
    BY DEF IInv, DrawingsTold, IsCanvas
<1>3. IsDrawable(a) /\ a.drawn = axes[x].drawn
    <2>1. CASE u = "limits"
        <3>1. a = WithLimits(axes[x], <<"caller", 0, FALSE>>)
            BY <2>1 DEF CallersAxes
        <3>2. QED
            BY <1>2, <3>1, LimitsKeep
    <2>2. CASE u = "ticks"
        <3>1. a = [axes[x] EXCEPT !.ticks = [at |-> <<"caller">>, text |-> "caller", hidden |-> FALSE]]
            BY <2>2, u # "limits", Zenon DEF CallersAxes
        <3>2. QED
            BY <1>2, <3>1 DEF IsDrawable
    <2>3. CASE u = "axis_visibility"
        <3>1. a = [axes[x] EXCEPT !.axis_visibility = ~@]
            BY <2>3, u # "limits", u # "ticks", Zenon DEF CallersAxes
        <3>2. QED
            BY <1>2, <3>1 DEF IsDrawable
    <2>4. CASE u \notin {"limits", "ticks", "axis_visibility"}
        <3>1. u # "limits" /\ u # "ticks" /\ u # "axis_visibility" /\ u # "drawn"
            BY <2>4 DEF Units
        <3>2. a = [axes[x] EXCEPT ![u] = "caller"]
            BY <3>1, Zenon DEF CallersAxes
        <3>3. QED
            BY <1>2, <3>1, <3>2 DEF IsDrawable
    <2>5. QED
        BY <2>1, <2>2, <2>3, <2>4
<1> HIDE DEF a
<1>4. IsCanvas(axes') /\ \A y \in Axes : axes'[y].drawn = axes[y].drawn
    BY <1>1, <1>2, <1>3 DEF IInv, DrawingsTold, IsCanvas, a
<1>5. calls' \in CallsType /\ calls'.binds = calls.binds
    <2>1. calls.units \cup {u} \in SUBSET Units /\ calls.direct + 1 \in Nat /\ calls \in CallsType
        BY DEF IInv, FiguresTold, CallsType
    <2>2. QED
        BY <1>1, <2>1 DEF CallsType
<1>6. FiguresTold'
    BY <1>1, <1>5 DEF IInv, FiguresTold
<1>7. figure.bound # <<>> => figure.bound \in Axes
    BY DEF IInv, FiguresTold, FigureType
<1>8. DrawingsTold'
    BY <1>1, <1>4, <1>7 DEF IInv, DrawingsTold
<1>9. QED
    BY <1>6, <1>8 DEF IInv

LEMMA CollectHolds ==
    ASSUME IInv, Collect
    PROVE  IInv'
<1>1. /\ figure' = [figure EXCEPT !.open = @ \ ({figure.finalizer} \ {CallersFigure}),
                                 !.bound = <<>>, !.shared = TRUE, !.finalizer = 0,
                                 !.made = MaxBinds + 1]
      /\ plot' = NoPlot
      /\ axes' = axes /\ calls' = calls
    BY DEF Collect
<1>2. MaxBinds + 1 \in Nat /\ MaxBinds + 1 # 0
    BY AxesAssumption
<1>3. figure' \in FigureType /\ figure'.made = MaxBinds + 1 /\ figure'.bound = <<>>
      /\ figure'.shared /\ figure'.finalizer = CallersFigure
    BY <1>1, <1>2 DEF IInv, FiguresTold, FigureType, CallersFigure
<1>4. figure'.open = {CallersFigure}
    BY <1>1 DEF IInv, FiguresTold, FigureType, CallersFigure
<1>5. FiguresTold'
    BY <1>1, <1>3, <1>4 DEF IInv, FiguresTold, NoPlot
<1>6. ASSUME NEW x \in Axes
      PROVE  ~(FigureOf(x) > MaxBinds + 1)
    BY AxesAssumption DEF Axes, Figures, FigureOf, CallersFigure
<1>7. DrawingsTold'
    BY <1>1, <1>2, <1>3, <1>6 DEF IInv, DrawingsTold
<1>8. QED
    BY <1>5, <1>7 DEF IInv

LEMMA ConstructHolds ==
    ASSUME IInv, Construct
    PROVE  IInv'
<1>1. PICK kind \in Kinds, x \in {<<>>} \cup ({CallersFigure} \X CallerPanels) :
          /\ plot.kind = "none" /\ figure.made = 0
          /\ plot' = [plot EXCEPT !.kind = kind, !.data = IF kind = "geometry" THEN 1 ELSE 0]
          /\ figure' = AttachAxes(figure, x)
          /\ needs_update' = TRUE
          /\ UNCHANGED <<axes, registry, ghost, calls>>
    BY DEF Construct
<1>2. figure.bound = <<>> /\ figure.shared
    BY <1>1 DEF IInv, FiguresTold
<1>3. plot'.kind # "none" /\ {"kind", "data"} \subseteq DOMAIN plot'
    BY <1>1, AxesAssumption DEF IInv, FiguresTold
<1>4. calls.binds \in Nat /\ calls' = calls
    BY <1>1, AxesAssumption DEF IInv, FiguresTold, CallsType
<1>5. ASSUME x = <<>> PROVE FiguresTold' /\ figure'.bound # <<>>
    <2>1. figure.made <= MaxBinds
        BY <1>1, AxesAssumption
    <2>2. /\ figure'.made = 1 /\ figure'.bound = <<1, "main">>
          /\ ~figure'.shared /\ figure'.finalizer = 1
          /\ figure'.open = {CallersFigure, 1} /\ figure' \in FigureType
        <3>1. figure' = AttachAxes(figure, <<>>)
            BY <1>1, <1>5
        <3>2. /\ figure'.made = figure.made + 1 /\ figure'.bound = <<figure'.made, "main">>
              /\ figure'.shared = FALSE /\ figure'.finalizer = figure'.made
              /\ figure'.open = {CallersFigure, figure'.made} /\ figure' \in FigureType
            BY <2>1, <3>1, FreshFigureTold DEF IInv
        <3>3. QED
            BY <1>1, <3>2
    <2>3. FiguresTold'
        BY <1>3, <1>4, <2>2 DEF IInv, FiguresTold, FigureOf, CallersFigure
    <2>4. QED
        BY <2>2, <2>3
<1>6. ASSUME x # <<>> PROVE FiguresTold' /\ figure'.bound # <<>>
    <2>1. x \in Axes /\ FigureOf(x) = CallersFigure
        BY <1>6 DEF Axes, FigureOf
    <2>2. figure' = [figure EXCEPT !.bound = x, !.shared = TRUE, !.finalizer = 0]
        BY <1>1, <1>2, <1>6 DEF AttachAxes, Leaves, IsOwned
    <2>3. figure' \in FigureType /\ figure'.bound = x /\ figure'.shared /\ figure'.finalizer = CallersFigure
          /\ figure'.made = 0 /\ figure'.open = figure.open
        BY <1>1, <2>1, <2>2 DEF IInv, FiguresTold, FigureType, CallersFigure
    <2>4. FiguresTold'
        BY <1>2, <1>3, <1>4, <1>6, <2>1, <2>3 DEF IInv, FiguresTold, CallersFigure
    <2>5. QED
        BY <1>6, <2>3, <2>4
<1>7. FiguresTold' /\ figure'.bound # <<>>
    BY <1>5, <1>6
<1>8. \A y \in Axes : axes[y].drawn = <<>>
    BY <1>1, <1>2 DEF IInv, DrawingsTold
<1>9. DrawingsTold'
    BY <1>1, <1>7, <1>8 DEF IInv, DrawingsTold
<1>10. QED
    BY <1>7, <1>9 DEF IInv

(***************************************************************************)
(* Leaving an axes                                                         *)
(***************************************************************************)

\* An axes whose rendering is not kept is on a figure that closes.
LEMMA LeftIsKeptOrClosed ==
    ASSUME IInv, figure.bound # <<>>, NEW x \in Axes
    PROVE  figure.open \ AttachAxes(figure, x).open =
               IF figure.shared \/ DirectFigure(x) = FigureOf(bound) THEN {} ELSE {FigureOf(bound)}
<1>1. x # <<>>
    BY DEF Axes
<1>2. figure \in FigureType /\ bound = figure.bound /\ FigureOf(bound) \in figure.open
    BY BoundIsOpen DEF IInv, FiguresTold
<1>3. CASE ~Leaves(figure, x)
    <2>1. figure.shared \/ DirectFigure(x) = FigureOf(bound)
        BY <1>2, <1>3 DEF Leaves, IsOwned
    <2>2. AttachAxes(figure, x).open = figure.open
        BY <1>1, <1>2, <1>3 DEF AttachAxes, FigureType
    <2>3. QED
        BY <2>1, <2>2
<1>4. CASE Leaves(figure, x)
    <2>1. ~(figure.shared \/ DirectFigure(x) = FigureOf(bound))
        BY <1>1, <1>2, <1>4 DEF Leaves, IsOwned
    <2>2. AttachAxes(figure, x).open = figure.open \ {FigureOf(bound)}
        BY <1>1, <1>2, <1>4 DEF AttachAxes, FigureType
    <2>3. QED
        BY <1>2, <2>1, <2>2
<1>5. QED
    BY <1>3, <1>4

LEMMA ReboundIsCleared ==
    ASSUME IInv, figure.bound # <<>>, NEW x \in Axes, x # bound
    PROVE  /\ IsCleared(Rebound(x).work)
           /\ IsCanvas(Rebound(x).axes)
           /\ \A y \in Axes : Rebound(x).axes[y].drawn # <<>> =>
                  /\ axes[y].drawn # <<>>
                  /\ y # x => y \in Rebound(x).kept
<1> DEFINE after == AttachAxes(figure, x)
           keeps == figure.shared \/ DirectFigure(x) = FigureOf(bound)
           kept == IF keeps /\ registry.tracked THEN registry.histories \cup {bound}
                   ELSE registry.histories
           histories == [managed.histories EXCEPT ![bound] = <<managed.units>>]
           units == InitializeFromAx(RestoreAxes(managed.units, histories[x]), axes[x])
           there == Forgotten(after, axes, FreshAxes)
<1>1. /\ Rebound(x).work = RemoveAll(Work(x, units, x \in kept))
      /\ Rebound(x).axes = there
      /\ Rebound(x).kept = kept \ {x}
    BY DEF Rebound
<1>2. bound = figure.bound /\ bound \in Axes
    BY BoundIsOpen
<1>3. \A y \in Axes : /\ IsDrawable(axes[y]) /\ IsDrawnOnce(axes[y].drawn)
                      /\ axes[y].drawn # <<>> => IF y = bound THEN registry.tracked
                                                  ELSE y \in registry.histories
    BY <1>2 DEF IInv, DrawingsTold, IsCanvas
<1>4. IsCleared(Rebound(x).work)
    <2> HIDE DEF units
    <2>1. axes[x].drawn # <<>> => x \in kept
        BY <1>3
    <2> HIDE DEF kept
    <2>2. IsTracked(Work(x, units, x \in kept))
        BY <1>3, <2>1 DEF IsTracked, IsWork, Work
    <2>3. QED
        BY <1>1, <2>2, RemoveAllClears
<1>5. figure.open \ after.open = IF keeps THEN {} ELSE {FigureOf(bound)}
    BY LeftIsKeptOrClosed
<1>6. IsDrawable(FreshAxes) /\ FreshAxes.drawn = <<>>
    BY DEF FreshAxes, IsDrawable
<1>7. ASSUME NEW y \in Axes
      PROVE  there[y] = IF FigureOf(y) \in figure.open \ after.open THEN FreshAxes ELSE axes[y]
    BY DEF Forgotten
<1>8. there = [y \in Axes |-> there[y]]
    BY DEF Forgotten
<1> HIDE DEF there
<1>9. IsCanvas(there)
    BY <1>3, <1>6, <1>7, <1>8 DEF IsCanvas, IsDrawnOnce
<1>10. ASSUME NEW y \in Axes, there[y].drawn # <<>>
       PROVE  axes[y].drawn # <<>> /\ (y # x => y \in kept \ {x})
    <2>1. axes[y].drawn # <<>> /\ FigureOf(y) \notin figure.open \ after.open
        BY <1>6, <1>7, <1>10
    <2>2. CASE y = bound
        <3>1. keeps /\ registry.tracked
            BY <1>3, <1>5, <2>1, <2>2
        <3>2. QED
            BY <2>1, <2>2, <3>1
    <2>3. CASE y # bound
        BY <1>3, <2>1, <2>3
    <2>4. QED
        BY <2>2, <2>3
<1>11. QED
    BY <1>1, <1>4, <1>9, <1>10

LEMMA BindToAxHolds ==
    ASSUME IInv, NoSubfigures, BindToAx
    PROVE  IInv'
<1>1. PICK x \in Axes :
          /\ figure.bound # <<>>
          /\ calls.binds < MaxBinds
          /\ FigureOf(x) \in figure.open
          /\ figure' = AttachAxes(figure, x)
          /\ calls' = [calls EXCEPT !.binds = @ + 1]
          /\ IF x = bound
             THEN AfterUpdate([Current EXCEPT !.work = RemoveAll(@)], x, ghost)
             ELSE AfterUpdate(Rebound(x), x, Carried(x))
          /\ UNCHANGED plot
    BY DEF BindToAx, IsAlive, bound
<1>2. bound = figure.bound /\ bound \in Axes
    BY <1>1, BoundIsOpen
<1>3. /\ figure'.made = figure.made /\ figure'.bound = x
      /\ figure'.shared = (FigureOf(x) = CallersFigure)
      /\ FigureOf(x) = IF figure'.shared THEN CallersFigure ELSE figure.made
      /\ figure'.open = {CallersFigure} \cup (IF figure'.shared THEN {} ELSE {figure.made})
      /\ figure'.finalizer = IF figure'.shared THEN CallersFigure ELSE figure.made
      /\ figure' \in FigureType
    BY <1>1, GivenAxesTold DEF IInv
<1>4. calls' \in CallsType /\ calls'.binds = calls.binds + 1
    BY <1>1, AxesAssumption DEF IInv, FiguresTold, CallsType
<1>5. x # <<>>
    BY DEF Axes
<1>6. calls.binds \in Nat /\ figure.made \in Nat /\ figure.made <= calls.binds + 1
    BY <1>1, AxesAssumption DEF IInv, FiguresTold, FigureType, CallsType
<1>7. FiguresTold'
    <2>1. figure'.made <= calls'.binds + 1
        BY <1>3, <1>4, <1>6
    <2>2. ~figure'.shared => figure'.made # CallersFigure
        BY <1>3
    <2>3. plot' = plot /\ plot.kind # "none" /\ {"kind", "data"} \subseteq DOMAIN plot
        BY <1>1 DEF IInv, FiguresTold
    <2>4. QED
        BY <1>3, <1>4, <1>5, <2>1, <2>2, <2>3 DEF FiguresTold
<1>8. ~(FigureOf(x) > figure.made)
    BY <1>3, <1>6 DEF CallersFigure
<1>9. PICK rebound, g :
          /\ AfterUpdate(rebound, x, g)
          /\ IsTracked(rebound.work) /\ IsCanvas(rebound.axes)
          /\ \A y \in Axes \ {x} : rebound.axes[y].drawn # <<>> =>
                 axes[y].drawn # <<>> /\ y \in rebound.kept
    <2>1. CASE x = bound
        <3> DEFINE rebound == [Current EXCEPT !.work = RemoveAll(Current.work)]
        <3>1. AfterUpdate(rebound, x, ghost)
            BY <1>1, <2>1
        <3>2. /\ IsTracked(Current.work) /\ Current.axes = axes
              /\ Current.kept = registry.histories
            BY <1>1, CurrentIsTracked
        <3>3. IsCleared(RemoveAll(Current.work))
            BY <3>2, RemoveAllClears
        <3>4. /\ rebound.work = RemoveAll(Current.work) /\ rebound.axes = axes
              /\ rebound.kept = registry.histories
            BY <3>2 DEF Current
        <3> HIDE DEF rebound
        <3>5. IsTracked(rebound.work)
            BY <3>3, <3>4 DEF IsCleared, IsTracked
        <3>6. /\ IsCanvas(axes)
              /\ \A y \in Axes \ {x} : axes[y].drawn # <<>> => y \in registry.histories
            BY <1>1, <1>2, <2>1 DEF IInv, DrawingsTold
        <3>7. QED
            BY <3>1, <3>4, <3>5, <3>6
    <2>2. CASE x # bound
        <3>1. AfterUpdate(Rebound(x), x, Carried(x))
            BY <1>1, <2>2
        <3>2. /\ IsCleared(Rebound(x).work) /\ IsCanvas(Rebound(x).axes)
              /\ \A y \in Axes : Rebound(x).axes[y].drawn # <<>> =>
                     axes[y].drawn # <<>> /\ (y # x => y \in Rebound(x).kept)
            BY <1>1, <2>2, ReboundIsCleared
        <3>3. IsTracked(Rebound(x).work)
            BY <3>2 DEF IsCleared, IsTracked
        <3>4. QED
            BY <3>1, <3>2, <3>3
    <2>3. QED
        BY <2>1, <2>2
<1>10. /\ IsCanvas(axes')
       /\ \A y \in Axes \ {x} : axes'[y] = rebound.axes[y]
       /\ axes'[x].drawn # <<>> => registry'.tracked
       /\ registry'.histories = rebound.kept
       /\ ~needs_update' => axes'[x].drawn = <<plot.data>>
    BY <1>9, AfterUpdateDraws
<1>11. \A y \in Axes : FigureOf(y) > figure.made => axes[y].drawn = <<>>
    BY DEF IInv, DrawingsTold
<1>12. \A y \in Axes : axes'[y].drawn # <<>> =>
            IF y = x THEN registry'.tracked ELSE y \in registry'.histories
    BY <1>9, <1>10
<1>13. \A y \in Axes : FigureOf(y) > figure.made => axes'[y].drawn = <<>>
    BY <1>8, <1>9, <1>10, <1>11
<1>14. DrawingsTold'
    BY <1>1, <1>3, <1>5, <1>10, <1>12, <1>13 DEF DrawingsTold
<1>15. QED
    BY <1>7, <1>14 DEF IInv

LEMMA UnbindHolds ==
    ASSUME IInv, Unbind
    PROVE  IInv'
<1> DEFINE x == <<figure.made + 1, "main">>
           rebound == Rebound(x)
<1>1. /\ figure.bound # <<>> /\ calls.binds < MaxBinds
      /\ figure' = AttachAxes(figure, <<>>)
      /\ calls' = [calls EXCEPT !.binds = @ + 1]
      /\ needs_update' = TRUE /\ plot' = plot
    BY DEF Unbind, IsAlive, bound
<1>2. calls.binds \in Nat /\ figure.made \in Nat /\ figure.made <= calls.binds + 1
    BY <1>1, AxesAssumption DEF IInv, FiguresTold, FigureType, CallsType
<1>3. figure.made <= MaxBinds
    BY <1>1, <1>2, AxesAssumption
<1>4. /\ figure'.made = figure.made + 1 /\ figure'.bound = x /\ x \in Axes
      /\ figure'.shared = FALSE /\ figure'.finalizer = figure'.made
      /\ figure'.open = {CallersFigure, figure'.made} /\ figure' \in FigureType
    BY <1>1, <1>3, FreshFigureTold DEF IInv
<1>5. /\ axes' = rebound.axes
      /\ registry' = [tracked |-> FALSE, histories |-> rebound.kept]
    BY <1>1, <1>4 DEF Unbind
<1>6. calls' \in CallsType /\ calls'.binds = calls.binds + 1
    BY <1>1, AxesAssumption DEF IInv, FiguresTold, CallsType
<1>7. x # <<>> /\ FigureOf(x) = figure.made + 1 /\ FigureOf(x) > figure.made
    BY <1>2 DEF FigureOf
<1>8. FiguresTold'
    <2>1. figure'.made <= calls'.binds + 1 /\ figure'.made # CallersFigure
        BY <1>2, <1>4, <1>6 DEF CallersFigure
    <2>2. plot.kind # "none" /\ {"kind", "data"} \subseteq DOMAIN plot
        BY <1>1 DEF IInv, FiguresTold
    <2> HIDE DEF x
    <2>3. QED
        BY <1>1, <1>4, <1>6, <1>7, <2>1, <2>2 DEF FiguresTold
<1>9. x # bound
    BY <1>1, <1>7, BoundIsOpen
<1> HIDE DEF x
<1>10. /\ IsCanvas(rebound.axes)
       /\ \A y \in Axes : rebound.axes[y].drawn # <<>> =>
              axes[y].drawn # <<>> /\ (y # x => y \in rebound.kept)
    BY <1>1, <1>4, <1>9, ReboundIsCleared
<1> HIDE DEF rebound
<1>11. \A y \in Axes : FigureOf(y) > figure.made => axes[y].drawn = <<>>
    BY DEF IInv, DrawingsTold
<1>12. \A y \in Axes : axes'[y].drawn # <<>> => y # x /\ y \in registry'.histories
    BY <1>4, <1>5, <1>7, <1>10, <1>11
<1>13. \A y \in Axes : FigureOf(y) > figure'.made => axes'[y].drawn = <<>>
    <2>1. \A y \in Axes : FigureOf(y) \in Nat
        BY DEF Axes, FigureOf, Figures, CallersFigure
    <2>2. \A y \in Axes : FigureOf(y) > figure'.made => FigureOf(y) > figure.made
        BY <1>2, <1>4, <2>1
    <2>3. QED
        BY <1>5, <1>10, <1>11, <2>2
<1>14. DrawingsTold'
    BY <1>1, <1>4, <1>5, <1>7, <1>10, <1>12, <1>13 DEF DrawingsTold
<1>15. QED
    BY <1>8, <1>14 DEF IInv

LEMMA NextHolds ==
    ASSUME IInv, NoSubfigures, [Next]_vars
    PROVE  IInv'
<1>1. CASE Next
    BY <1>1, ConstructHolds, CollectHolds, UpdateAxisHolds, BindToAxHolds, UnbindHolds,
       SettersHold, ChangeDirectlyHolds DEF Next
<1>2. CASE UNCHANGED vars
    BY <1>2 DEF vars, IInv, FiguresTold, DrawingsTold, IsCanvas
<1>3. QED
    BY <1>1, <1>2

\* Wherever the plot has been, no axes holds two renderings of it, a plot that needs no
\* update shows the data it holds, and of the figures that plots have made exactly the one
\* the plot is bound to and owns is open, and its finalizer will close it (AxesBacked:
\* _attach_axes, _rebuild and their callers in gerryplot.py and geoplotbase.py).
THEOREM PlotsLeaveNothingBehind ==
    ASSUME NoSubfigures
    PROVE  Spec => []NothingIsLeftBehind
<1>1. Init => IInv
    BY InitHolds
<1>2. IInv /\ [Next]_vars => IInv'
    BY NextHolds
<1>3. IInv => NothingIsLeftBehind
    BY InvariantIsEnough
<1>4. QED
    BY <1>1, <1>2, <1>3, PTL DEF Spec

(***************************************************************************)
(* The settings of a plot, whoever else sets its axes                      *)
(*                                                                         *)
(* A claim that the plot has not recorded on an axes is NoClaim, there or  *)
(* in the history it keeps for the axes; one it has recorded is recorded   *)
(* with what the axes shows until the caller changes it.  The rebuild is   *)
(* followed unit by unit from the claims that survive detection, and the   *)
(* steps between rebuilds by what they leave of these claims.              *)
(***************************************************************************)

AxesFields == {"limits", "auto", "ticks", "tick_style", "label", "scale", "frame", "legend",
               "axis_visibility", "aspect", "drawn"}

IsShown(a) ==
    /\ AxesFields \subseteq DOMAIN a
    /\ {"at", "text", "hidden"} \subseteq DOMAIN a.ticks
    /\ a.auto \in BOOLEAN /\ a.axis_visibility \in BOOLEAN

AreUnits(units) == units = [u \in Units |-> units[u]]

IsRebuilding(w) ==
    /\ {"a", "units", "hid", "tracked", "failed"} \subseteq DOMAIN w
    /\ IsShown(w.a) /\ AreUnits(w.units) /\ w.failed \in BOOLEAN

\* The units that are one field of the axes.
Fields == {"tick_style", "label", "scale", "frame", "legend", "axis_visibility", "aspect"}

IsClaimed(units, u) == units[u].ownership = "gerrytools_explicit"

NoClaim == [ownership |-> "gerrytools_explicit", last_applied |-> NoLastApplied]

\* Ticks of a default locator are recorded with the limits of that time.
TicksWith(a, limits) == <<a.ticks, IF IsDefaultLocator(a.ticks) THEN limits ELSE <<>>>>

LEMMA SnapshotShows ==
    ASSUME NEW a
    PROVE  /\ ReadSnapshot(a)["limits"] = <<a.limits>>
           /\ ReadSnapshot(a)["ticks"] = TicksWith(a, a.limits)
           /\ \A u \in Fields : ReadSnapshot(a)[u] = <<a[u]>>
           /\ \A u \in Units : ReadSnapshot(a)[u] # NoLastApplied
<1>1. ReadSnapshot(a)["limits"] = <<a.limits>>
    <2>1. "limits" \in Units /\ "limits" # "ticks"
        BY DEF Units
    <2>2. QED
        BY <2>1, Zenon DEF ReadSnapshot
<1>2. ReadSnapshot(a)["ticks"] = TicksWith(a, a.limits)
    <2>1. "ticks" \in Units
        BY DEF Units
    <2>2. CASE IsDefaultLocator(a.ticks)
        <3>1. ReadSnapshot(a)["ticks"] = <<a.ticks, a.limits>>
            BY <2>1, <2>2, Zenon DEF ReadSnapshot
        <3>2. QED
            BY <2>2, <3>1 DEF TicksWith
    <2>3. CASE ~IsDefaultLocator(a.ticks)
        <3>1. ReadSnapshot(a)["ticks"] = <<a.ticks, <<>>>>
            BY <2>1, <2>3, "ticks" # "limits", Zenon DEF ReadSnapshot
        <3>2. QED
            BY <2>3, <3>1 DEF TicksWith
    <2>4. QED
        BY <2>2, <2>3
<1>3. ASSUME NEW u \in Fields
      PROVE  ReadSnapshot(a)[u] = <<a[u]>>
    <2>1. u \in Units /\ u # "ticks" /\ u # "limits"
        BY DEF Units, Fields
    <2>2. QED
        BY <2>1, Zenon DEF ReadSnapshot
<1>4. ASSUME NEW u \in Units
      PROVE  ReadSnapshot(a)[u] # NoLastApplied
    <2>1. u \in {"limits", "ticks"} \cup Fields
        BY DEF Units, Fields
    <2>2. QED
        BY <1>1, <1>2, <1>3, <2>1 DEF NoLastApplied, TicksWith
<1>5. QED
    BY <1>1, <1>2, <1>3, <1>4

\* What the settings p ask of an axes.
Holds(p, a, u) ==
    /\ u = "limits" => (p.limits # None => a.limits = LimitsAsked(p))
    /\ u = "ticks" => /\ p.ticks # None => a.ticks.at = <<"plot", p.ticks>>
                      /\ p.labels \notin {None, 0} => a.ticks.text = "plot"
                      /\ p.labels = 0 => a.ticks.hidden \/ p.ticks = 0
    /\ u = "tick_style" => (p.style # NoStyle => a.tick_style = p.style)
    /\ u = "label" => (p.text # Unset => a.label = TextAsked(p))
    /\ u = "frame" => a.frame = p.frame
    /\ u = "legend" => ((a.legend = "plot") <=> (p.legend /\ p.data > 0))
    /\ u = "axis_visibility" => a.axis_visibility = p.show_axis

LEMMA HoldsIsAsked ==
    ASSUME NEW a, NEW u \in Units, Holds(plot, a, u)
    PROVE  HoldsAsked(a, u)
<1>1. CASE u = "limits"
    BY <1>1, Zenon DEF HoldsAsked, Holds
<1>2. CASE u = "ticks"
    BY <1>2, u # "limits", Zenon DEF HoldsAsked, Holds
<1>3. CASE u = "tick_style"
    BY <1>3, u # "limits", u # "ticks", Zenon DEF HoldsAsked, Holds
<1>4. CASE u = "label"
    BY <1>4, u # "limits", u # "ticks", u # "tick_style", Zenon DEF HoldsAsked, Holds
<1>5. CASE u = "frame"
    BY <1>5, u # "limits", u # "ticks", u # "tick_style", u # "label", Zenon DEF HoldsAsked, Holds
<1>6. CASE u = "legend"
    BY <1>6, u # "limits", u # "ticks", u # "tick_style", u # "label", u # "frame", Zenon
       DEF HoldsAsked, Holds
<1>7. CASE u = "axis_visibility"
    BY <1>7, u # "limits", u # "ticks", u # "tick_style", u # "label", u # "frame", u # "legend",
       Zenon DEF HoldsAsked, Holds
<1>8. CASE u \in {"scale", "aspect"}
    <2>1. /\ u # "limits" /\ u # "ticks" /\ u # "tick_style" /\ u # "label" /\ u # "frame"
          /\ u # "legend" /\ u # "axis_visibility"
        BY <1>8
    <2>2. QED
        BY <2>1, Zenon DEF HoldsAsked
<1>9. QED
    BY <1>1, <1>2, <1>3, <1>4, <1>5, <1>6, <1>7, <1>8 DEF Units

(***************************************************************************)
(* One step of a rebuild                                                   *)
(***************************************************************************)

\* The step is about a unit and leaves the record of every other one.  What is claimed stays
\* claimed, and no axes or flag but these changes.
Records(w, v, u) ==
    /\ IsRebuilding(v)
    /\ \A other \in Units \ {u} : v.units[other] = w.units[other]
    /\ v.hid = w.hid /\ v.failed = w.failed

LEMMA RecordedUnit ==
    ASSUME NEW units, AreUnits(units), NEW u \in Units, NEW value
    PROVE  /\ AreUnits(Recorded(units, u, value))
           /\ \A other \in Units \ {u} : Recorded(units, u, value)[other] = units[other]
           /\ Recorded(units, u, value)[u].last_applied = value
           /\ IsClaimed(units, u) => IsClaimed(Recorded(units, u, value), u)
<1>1. ASSUME NEW entry
      PROVE  /\ AreUnits([units EXCEPT ![u] = entry])
             /\ [units EXCEPT ![u] = entry][u] = entry
             /\ \A other \in Units \ {u} : [units EXCEPT ![u] = entry][other] = units[other]
    BY DEF AreUnits
<1>2. CASE IsReclaimed(units, u)
    BY <1>1, <1>2 DEF Recorded, ReclaimAndMark, IsClaimed
<1>3. CASE ~IsReclaimed(units, u)
    <2>1. ~IsClaimed(units, u)
        BY <1>3 DEF IsReclaimed, IsClaimed
    <2> DEFINE entry == [ownership |-> IF units[u].ownership = "gerrytools_explicit"
                                       THEN units[u].ownership ELSE "gerrytools_default",
                         last_applied |-> value]
    <2>2. Recorded(units, u, value) = [units EXCEPT ![u] = entry] /\ entry.last_applied = value
        BY <1>3 DEF Recorded, RecordDefault
    <2> HIDE DEF entry
    <2>3. /\ AreUnits([units EXCEPT ![u] = entry])
          /\ [units EXCEPT ![u] = entry][u] = entry
          /\ \A other \in Units \ {u} : [units EXCEPT ![u] = entry][other] = units[other]
        BY <1>1, Zenon
    <2> DEFINE recorded == Recorded(units, u, value)
    <2>4. recorded[u] = entry /\ AreUnits(recorded)
          /\ \A other \in Units \ {u} : recorded[other] = units[other]
        BY <2>2, <2>3, Zenon
    <2> HIDE DEF recorded
    <2>5. recorded[u].last_applied = value
        BY <2>2, <2>4
    <2>6. QED
        BY <2>1, <2>4, <2>5 DEF recorded
<1>4. QED
    BY <1>2, <1>3

\* Applying a unit that is not the caller's records what the axes shows then.
LEMMA ReconcileRecords ==
    ASSUME NEW w, IsRebuilding(w), NEW u \in Units, NEW external, NEW a, IsShown(a),
           NEW v, v = Reconcile(w, u, external, a)
    PROVE  /\ Records(w, v, u)
           /\ u \in external => v = w
           /\ u \notin external => /\ v.a = a
                                   /\ v.units[u].last_applied = ReadSnapshot(a)[u]
                                   /\ IsClaimed(w.units, u) => IsClaimed(v.units, u)
<1>1. CASE u \in external
    BY <1>1 DEF Reconcile, Records
<1>2. CASE u \notin external
    <2> DEFINE units == Recorded(w.units, u, ReadSnapshot(a)[u])
    <2>1. /\ AreUnits(units)
          /\ \A other \in Units \ {u} : units[other] = w.units[other]
          /\ units[u].last_applied = ReadSnapshot(a)[u]
          /\ IsClaimed(w.units, u) => IsClaimed(units, u)
        BY RecordedUnit DEF IsRebuilding
    <2>2. v = [w EXCEPT !.a = a, !.units = units]
        BY <1>2 DEF Reconcile
    <2> HIDE DEF units
    <2>3. v.a = a /\ v.units = units /\ v.hid = w.hid /\ v.failed = w.failed /\ IsRebuilding(v)
        BY <2>1, <2>2 DEF IsRebuilding
    <2>4. QED
        BY <1>2, <2>1, <2>3 DEF Records
<1>3. QED
    BY <1>1, <1>2

\* Every field of the axes but these is left alone.
Spares(w, v, fields) == \A f \in AxesFields \ fields : v.a[f] = w.a[f]

LEMMA ProtectedSteps ==
    ASSUME NEW w, IsRebuilding(w), NEW before, NEW external,
           NEW v, v = RestoreAutoscaleProtected(w, before, external)
    PROVE  /\ IsRebuilding(v) /\ v.units = w.units /\ v.hid = w.hid /\ v.failed = w.failed
           /\ Spares(w, v, {"limits", "auto"})
           /\ "limits" \in external => v.a.limits = before["limits"][1] /\ ~v.a.auto
           /\ "limits" \notin external => v = w
<1> DEFINE limits == before["limits"][1]
           a == WithLimits(w.a, limits)
<1>1. IsShown(a) /\ a.limits = limits /\ ~a.auto
      /\ \A f \in AxesFields \ {"limits", "auto"} : a[f] = w.a[f]
    <2> HIDE DEF limits
    <2>1. QED
        BY DEF IsRebuilding, IsShown, AxesFields, WithLimits
<1>2. v = IF "limits" \in external THEN [w EXCEPT !.a = a] ELSE w
    BY DEF RestoreAutoscaleProtected
<1> HIDE DEF a, limits
<1>3. CASE "limits" \in external
    <2>1. v.a = a /\ v.units = w.units /\ v.hid = w.hid /\ v.failed = w.failed /\ IsRebuilding(v)
        BY <1>1, <1>2, <1>3 DEF IsRebuilding
    <2>2. QED
        BY <1>1, <1>3, <2>1 DEF Spares, limits
<1>4. CASE "limits" \notin external
    BY <1>2, <1>4 DEF Spares
<1>5. QED
    BY <1>3, <1>4

LEMMA LimitsStep ==
    ASSUME NEW w, IsRebuilding(w), NEW p, NEW external, NEW v, v = ApplyLimits(w, p, external)
    PROVE  /\ Records(w, v, "limits") /\ Spares(w, v, {"limits", "auto"})
           /\ "limits" \in external => v = w
           /\ "limits" \notin external =>
                  /\ v.units["limits"].last_applied = <<v.a.limits>>
                  /\ IsClaimed(w.units, "limits") => IsClaimed(v.units, "limits")
                  /\ p.limits # None => v.a.limits = LimitsAsked(p) /\ ~v.a.auto
                  /\ p.limits = None => v.a = w.a
<1> DEFINE a == IF p.limits # None THEN WithLimits(w.a, LimitsAsked(p)) ELSE w.a
<1>1. /\ IsShown(a) /\ \A f \in AxesFields \ {"limits", "auto"} : a[f] = w.a[f]
      /\ p.limits # None => a.limits = LimitsAsked(p) /\ ~a.auto
      /\ p.limits = None => a = w.a
    BY DEF IsRebuilding, IsShown, AxesFields, WithLimits
<1>2. v = Reconcile(w, "limits", external, a)
    BY DEF ApplyLimits
<1> HIDE DEF a
<1>3. /\ Records(w, v, "limits")
      /\ "limits" \in external => v = w
      /\ "limits" \notin external => /\ v.a = a
                                     /\ v.units["limits"].last_applied = ReadSnapshot(a)["limits"]
                                     /\ IsClaimed(w.units, "limits") => IsClaimed(v.units, "limits")
    BY <1>1, <1>2, ReconcileRecords DEF Units
<1>4. ReadSnapshot(a)["limits"] = <<a.limits>>
    BY SnapshotShows
<1>5. QED
    BY <1>1, <1>3, <1>4 DEF Spares

\* A unit of one field that is set to a value is recorded with it.
SetsTo(w, v, external, u, value) ==
    /\ Records(w, v, u) /\ Spares(w, v, {u})
    /\ u \in external => v = w
    /\ u \notin external => /\ v.a[u] = value
                            /\ v.units[u].last_applied = <<value>>
                            /\ IsClaimed(w.units, u) => IsClaimed(v.units, u)

LEMMA FieldIsSet ==
    ASSUME NEW w, IsRebuilding(w), NEW u \in Fields, NEW external, NEW value,
           NEW a, IsShown(a), a[u] = value, \A f \in AxesFields \ {u} : a[f] = w.a[f],
           NEW v, v = Reconcile(w, u, external, a)
    PROVE  SetsTo(w, v, external, u, value)
<1>1. u \in Units
    BY DEF Fields, Units
<1>2. /\ Records(w, v, u)
      /\ u \in external => v = w
      /\ u \notin external => /\ v.a = a
                              /\ v.units[u].last_applied = ReadSnapshot(a)[u]
                              /\ IsClaimed(w.units, u) => IsClaimed(v.units, u)
    BY <1>1, ReconcileRecords
<1>3. ReadSnapshot(a)[u] = <<value>>
    BY SnapshotShows
<1>4. QED
    BY <1>2, <1>3 DEF SetsTo, Spares

LEMMA FieldSteps ==
    ASSUME NEW w, IsRebuilding(w), NEW p, NEW external
    PROVE  /\ SetsTo(w, ApplyFrameVisibility(w, p, external), external, "frame", p.frame)
           /\ p.text # Unset => SetsTo(w, ApplyText(w, p, external), external, "label", TextAsked(p))
           /\ p.text = Unset => ApplyText(w, p, external) = w
           /\ p.style # NoStyle =>
                  SetsTo(w, ApplyTickStyle(w, p, external), external, "tick_style", p.style)
           /\ p.style = NoStyle => ApplyTickStyle(w, p, external) = w
           /\ SetsTo(w, ApplyRecorded(w, "scale", external), external, "scale", w.a.scale)
           /\ SetsTo(w, ApplyRecorded(w, "aspect", external), external, "aspect", w.a.aspect)
<1>1. IsShown(w.a)
    BY DEF IsRebuilding
<1>2. SetsTo(w, ApplyFrameVisibility(w, p, external), external, "frame", p.frame)
    <2> DEFINE a == [w.a EXCEPT !.frame = p.frame]
    <2>1. IsShown(a) /\ a["frame"] = p.frame /\ \A f \in AxesFields \ {"frame"} : a[f] = w.a[f]
        BY <1>1 DEF IsShown, AxesFields
    <2> HIDE DEF a
    <2>2. SetsTo(w, Reconcile(w, "frame", external, a), external, "frame", p.frame)
        BY <2>1, FieldIsSet DEF Fields
    <2>3. QED
        BY <2>2 DEF ApplyFrameVisibility, a
<1>3. ASSUME p.text # Unset
      PROVE  SetsTo(w, ApplyText(w, p, external), external, "label", TextAsked(p))
    <2> DEFINE a == [w.a EXCEPT !.label = TextAsked(p)]
    <2>1. IsShown(a) /\ a["label"] = TextAsked(p) /\ \A f \in AxesFields \ {"label"} : a[f] = w.a[f]
        BY <1>1 DEF IsShown, AxesFields
    <2> HIDE DEF a
    <2>2. SetsTo(w, Reconcile(w, "label", external, a), external, "label", TextAsked(p))
        BY <2>1, FieldIsSet DEF Fields
    <2>3. QED
        BY <1>3, <2>2 DEF ApplyText, a
<1>4. ASSUME p.style # NoStyle
      PROVE  SetsTo(w, ApplyTickStyle(w, p, external), external, "tick_style", p.style)
    <2> DEFINE a == [w.a EXCEPT !.tick_style = p.style]
    <2>1. IsShown(a) /\ a["tick_style"] = p.style
          /\ \A f \in AxesFields \ {"tick_style"} : a[f] = w.a[f]
        BY <1>1 DEF IsShown, AxesFields
    <2> HIDE DEF a
    <2>2. SetsTo(w, Reconcile(w, "tick_style", external, a), external, "tick_style", p.style)
        BY <2>1, FieldIsSet DEF Fields
    <2>3. QED
        BY <1>4, <2>2 DEF ApplyTickStyle, a
<1>5. \A u \in Fields : SetsTo(w, ApplyRecorded(w, u, external), external, u, w.a[u])
    BY <1>1, FieldIsSet DEF ApplyRecorded
<1>6. /\ p.text = Unset => ApplyText(w, p, external) = w
      /\ p.style = NoStyle => ApplyTickStyle(w, p, external) = w
    BY DEF ApplyText, ApplyTickStyle
<1>7. QED
    BY <1>2, <1>3, <1>4, <1>5, <1>6 DEF Fields

\* A claimed legend is recorded with what was asked for, unless the caller's stays because
\* the plot asks for none.
LEMMA LegendStep ==
    ASSUME NEW w, IsRebuilding(w), NEW p, NEW external, NEW v, v = ApplyLegend(w, p, external)
    PROVE  /\ Records(w, v, "legend") /\ Spares(w, v, {"legend"})
           /\ IsClaimed(w.units, "legend") /\ "legend" \notin external =>
                  /\ IsClaimed(v.units, "legend") /\ Holds(p, v.a, "legend")
                  /\ \/ v.units["legend"].last_applied = <<v.a.legend>>
                     \/ v = w /\ ~(p.legend /\ p.data > 0)
<1> DEFINE With(value) == [w.a EXCEPT !.legend = value]
           Record(value) ==
               [w EXCEPT !.a = With(value), !.units = Recorded(w.units, "legend", <<value>>)]
           stays == \/ "legend" \in external
                    \/ w.a.legend = "caller"
                       /\ ~(IsReclaimed(w.units, "legend") /\ p.legend /\ p.data > 0)
<1>1. ASSUME NEW value
      PROVE  /\ IsShown(With(value)) /\ With(value).legend = value
             /\ \A f \in AxesFields \ {"legend"} : With(value)[f] = w.a[f]
    BY DEF IsRebuilding, IsShown, AxesFields
<1>2. ASSUME NEW value
      PROVE  /\ Records(w, Record(value), "legend") /\ Spares(w, Record(value), {"legend"})
             /\ Record(value).a.legend = value
             /\ Record(value).units["legend"].last_applied = <<value>>
             /\ IsClaimed(w.units, "legend") => IsClaimed(Record(value).units, "legend")
    <2> DEFINE a == With(value)
               units == Recorded(w.units, "legend", <<value>>)
               r == [w EXCEPT !.a = a, !.units = units]
    <2>1. /\ AreUnits(units)
          /\ \A other \in Units \ {"legend"} : units[other] = w.units[other]
          /\ units["legend"].last_applied = <<value>>
          /\ IsClaimed(w.units, "legend") => IsClaimed(units, "legend")
        BY RecordedUnit DEF IsRebuilding, Units
    <2>2. /\ IsShown(a) /\ a.legend = value
          /\ \A f \in AxesFields \ {"legend"} : a[f] = w.a[f]
        BY <1>1
    <2> HIDE DEF a, units
    <2>3. r.a = a /\ r.units = units /\ r.hid = w.hid /\ r.failed = w.failed /\ IsRebuilding(r)
        BY <2>1, <2>2 DEF IsRebuilding
    <2> HIDE DEF r
    <2>4. /\ Records(w, r, "legend") /\ Spares(w, r, {"legend"}) /\ r.a.legend = value
          /\ r.units["legend"].last_applied = <<value>>
          /\ IsClaimed(w.units, "legend") => IsClaimed(r.units, "legend")
        BY <2>1, <2>2, <2>3 DEF Records, Spares
    <2>5. QED
        BY <2>4 DEF r, a, units
<1>3. [w.a EXCEPT !.legend = "plot"].legend = "plot" /\ [w.a EXCEPT !.legend = "none"].legend = "none"
    BY <1>1
<1>4. v = IF stays THEN w
          ELSE IF p.legend /\ p.data > 0 THEN Record("plot")
          ELSE IF IsReclaimed(w.units, "legend") THEN Record("none")
          ELSE [w EXCEPT !.a = With("none")]
    BY <1>3, Zenon DEF ApplyLegend
<1>5. CASE stays
    <2>1. v = w
        BY <1>4, <1>5
    <2>2. Records(w, v, "legend") /\ Spares(w, v, {"legend"})
        BY <2>1 DEF Records, Spares
    <2>3. IsClaimed(w.units, "legend") /\ "legend" \notin external =>
              w.a.legend = "caller" /\ ~(p.legend /\ p.data > 0)
        BY <1>5 DEF IsReclaimed, IsClaimed
    <2>4. QED
        BY <2>1, <2>2, <2>3 DEF Holds
<1>6. CASE ~stays /\ p.legend /\ p.data > 0
    <2>1. v = Record("plot")
        BY <1>4, <1>6
    <2> HIDE DEF Record
    <2>2. QED
        BY <1>2, <1>6, <2>1 DEF Holds
<1>7. CASE ~stays /\ ~(p.legend /\ p.data > 0) /\ IsReclaimed(w.units, "legend")
    <2>1. v = Record("none")
        BY <1>4, <1>7
    <2> HIDE DEF Record
    <2>2. QED
        BY <1>2, <1>7, <2>1 DEF Holds
<1>8. CASE ~stays /\ ~(p.legend /\ p.data > 0) /\ ~IsReclaimed(w.units, "legend")
    <2> DEFINE a == With("none")
    <2>1. v = [w EXCEPT !.a = a]
        BY <1>4, <1>8
    <2>2. IsShown(a) /\ \A f \in AxesFields \ {"legend"} : a[f] = w.a[f]
        BY <1>1
    <2> HIDE DEF a
    <2>3. v.a = a /\ v.units = w.units /\ v.hid = w.hid /\ v.failed = w.failed /\ IsRebuilding(v)
        BY <2>1, <2>2 DEF IsRebuilding
    <2>4. Records(w, v, "legend") /\ Spares(w, v, {"legend"})
        BY <2>2, <2>3 DEF Records, Spares
    <2>5. QED
        BY <1>8, <2>4 DEF IsReclaimed, IsClaimed
<1>9. QED
    BY <1>5, <1>6, <1>7, <1>8

(***************************************************************************)
(* Ticks                                                                   *)
(***************************************************************************)

\* Where the ticks of an axes can be while the plot has the settings p.
IsLocator(at, p) ==
    \/ at = <<"auto">> \/ at = <<"caller">> \/ \E limits : at = <<"shown", limits>>
    \/ p.kind = "categorical" /\ at = <<"category">>
    \/ p.ticks # None /\ \E n : at = <<"plot", n>>

\* The labels are not as many as the ticks, which Matplotlib refuses.
FailsTicks(p) ==
    /\ p.ticks = None /\ p.labels \notin {None, 0}
    /\ p.labels # (IF p.kind = "categorical" THEN CategoryTicks ELSE AutoTicks)

\* Setters refuse as many labels as there are no locations for.
TicksFit(p) ==
    /\ p.ticks \in Nat \cup {None} /\ p.labels \in Nat \cup {None}
    /\ p.ticks # None /\ p.labels \notin {None, 0} => p.labels = p.ticks

LEMMA TicksAreCounted ==
    /\ NumberOfTicks(<<"auto">>) = AutoTicks /\ NumberOfTicks(<<"caller">>) = AutoTicks
    /\ NumberOfTicks(<<"category">>) = CategoryTicks
    /\ \A limits : NumberOfTicks(<<"shown", limits>>) = AutoTicks
    /\ \A n : NumberOfTicks(<<"plot", n>>) = n
<1>1. ASSUME NEW at, at[1] = "auto" \/ at[1] = "shown"
      PROVE  NumberOfTicks(at) = AutoTicks
    BY <1>1, Zenon DEF NumberOfTicks
<1>2. ASSUME NEW at, at[1] = "caller"
      PROVE  NumberOfTicks(at) = AutoTicks
    <2>1. at[1] \notin {"auto", "shown"} /\ at[1] # "category" /\ at[1] # "plot"
        BY <1>2
    <2>2. QED
        BY <1>2, <2>1, Zenon DEF NumberOfTicks
<1>3. ASSUME NEW at, at[1] = "category"
      PROVE  NumberOfTicks(at) = CategoryTicks
    <2>1. at[1] \notin {"auto", "shown"}
        BY <1>3
    <2>2. QED
        BY <1>3, <2>1, Zenon DEF NumberOfTicks
<1>4. ASSUME NEW at, at[1] = "plot"
      PROVE  NumberOfTicks(at) = at[2]
    <2>1. at[1] \notin {"auto", "shown"} /\ at[1] # "category"
        BY <1>4
    <2>2. QED
        BY <1>4, <2>1, Zenon DEF NumberOfTicks
<1>5. NumberOfTicks(<<"auto">>) = AutoTicks
    <2>1. <<"auto">>[1] = "auto"
        OBVIOUS
    <2>2. QED
        BY <1>1, <2>1, Zenon
<1>6. NumberOfTicks(<<"caller">>) = AutoTicks
    <2>1. <<"caller">>[1] = "caller"
        OBVIOUS
    <2>2. QED
        BY <1>2, <2>1, Zenon
<1>7. NumberOfTicks(<<"category">>) = CategoryTicks
    <2>1. <<"category">>[1] = "category"
        OBVIOUS
    <2>2. QED
        BY <1>3, <2>1, Zenon
<1>8. ASSUME NEW limits
      PROVE  NumberOfTicks(<<"shown", limits>>) = AutoTicks
    <2>1. <<"shown", limits>>[1] = "shown"
        OBVIOUS
    <2>2. QED
        BY <1>1, <2>1, Zenon
<1>9. ASSUME NEW n
      PROVE  NumberOfTicks(<<"plot", n>>) = n
    <2>1. <<"plot", n>>[1] = "plot" /\ <<"plot", n>>[2] = n
        OBVIOUS
    <2>2. NumberOfTicks(<<"plot", n>>) = <<"plot", n>>[2]
        BY <1>4, <2>1, Zenon
    <2>3. QED
        BY <2>1, <2>2
<1>10. QED
    BY <1>5, <1>6, <1>7, <1>8, <1>9

LEMMA TicksAreLocated ==
    ASSUME NEW p
    PROVE  /\ p.ticks # None => TickLocations(p) = <<"plot", p.ticks>>
           /\ p.ticks = None /\ p.kind = "categorical" => TickLocations(p) = <<"category">>
           /\ p.ticks = None /\ p.kind # "categorical" => TickLocations(p) = <<"auto">>
<1>1. CASE p.ticks # None
    BY <1>1, Zenon DEF TickLocations
<1>2. CASE p.ticks = None /\ p.kind = "categorical"
    BY <1>2, Zenon DEF TickLocations
<1>3. CASE p.ticks = None /\ p.kind # "categorical"
    BY <1>3, Zenon DEF TickLocations
<1>4. QED
    BY <1>1, <1>2, <1>3

\* Placed ticks are the ones asked for, and may stretch the limits.
Placed(b, a, at) ==
    /\ IsShown(b) /\ b.ticks.at = at
    /\ \A f \in AxesFields \ {"ticks", "limits"} : b[f] = a[f]

LEMMA TicksArePlaced ==
    ASSUME NEW a, IsShown(a), NEW at
    PROVE  Placed(WithTicks(a, at), a, at)
BY DEF IsShown, AxesFields, WithTicks, Placed

\* The switch and the flag do not enter: what a pass over the ticks ends in.
LEMMA TicksEnd ==
    ASSUME NEW w, IsRebuilding(w), ~w.failed, NEW p, TicksFit(p), IsLocator(w.a.ticks.at, p),
           NEW v, v = ApplyTicksNow(w, p)
    PROVE  /\ IsRebuilding(v) /\ v.units = w.units /\ Spares(w, v, {"ticks", "limits"})
           /\ (v.failed <=> FailsTicks(p))
           /\ IsLocator(v.a.ticks.at, p)
           /\ ~v.failed =>
                  /\ Holds(p, v.a, "ticks")
                  /\ IsDefaultLocator(v.a.ticks) =>
                         IsDefaultLocator(w.a.ticks) /\ v.a.limits = w.a.limits
<1> DEFINE at == TickLocations(p)
           placed == IF at = <<"auto">> THEN w.a ELSE WithTicks(w.a, at)
           switch == IF w.hid THEN FALSE ELSE placed.ticks.hidden
           visible == [placed EXCEPT !.ticks.hidden = switch]
           shown == IF IsDefaultLocator(visible.ticks) THEN <<"shown", visible.limits>>
                    ELSE visible.ticks.at
           fixed == IF at # <<"auto">> THEN visible ELSE WithTicks(visible, shown)
           hides == p.labels = 0 /\ at # <<"plot", 0>>
           counted == p.labels = NumberOfTicks(fixed.ticks.at)
           Hidden(a) == [w EXCEPT !.a = a, !.hid = TRUE]
           Shown(a) == [w EXCEPT !.hid = FALSE, !.a = a]
           Failed(a) == [w EXCEPT !.hid = FALSE, !.a = a, !.failed = TRUE]
           Suits(a) == /\ IsShown(a) /\ \A f \in AxesFields \ {"ticks", "limits"} : a[f] = w.a[f]
                       /\ IsLocator(a.ticks.at, p)
                       /\ p.ticks # None => a.ticks.at = <<"plot", p.ticks>>
                       /\ IsDefaultLocator(a.ticks) =>
                              IsDefaultLocator(w.a.ticks) /\ a.limits = w.a.limits
<1>1. IsShown(w.a)
    BY DEF IsRebuilding
<1>2. /\ p.ticks # None => at = <<"plot", p.ticks>>
      /\ p.ticks = None /\ p.kind = "categorical" => at = <<"category">>
      /\ p.ticks = None /\ p.kind # "categorical" => at = <<"auto">>
    BY TicksAreLocated
<1> HIDE DEF at
<1>3. /\ at # <<"auto">> => p.ticks # None \/ p.kind = "categorical"
      /\ at # <<"auto">> => IsLocator(at, p) /\ at # <<"auto">>
      /\ at = <<"auto">> => p.ticks = None /\ p.kind # "categorical"
    BY <1>2 DEF IsLocator
<1>4. /\ Suits(placed) /\ (at # <<"auto">> => placed.ticks.at = at)
      /\ (at = <<"auto">> => placed = w.a)
    <2>1. CASE at = <<"auto">>
        BY <1>1, <1>3, <2>1
    <2>2. CASE at # <<"auto">>
        <3>1. Placed(placed, w.a, at)
            BY <1>1, <2>2, TicksArePlaced
        <3>2. ~IsDefaultLocator(placed.ticks)
            BY <2>2, <3>1 DEF Placed, IsDefaultLocator
        <3> HIDE DEF placed
        <3>3. QED
            BY <1>2, <1>3, <2>2, <3>1, <3>2 DEF Placed
    <2>3. QED
        BY <2>1, <2>2
<1> HIDE DEF placed
<1>5. ASSUME NEW value
      PROVE  LET a == [placed EXCEPT !.ticks.hidden = value]
             IN  /\ Suits(a) /\ a.ticks.hidden = value /\ a.ticks.at = placed.ticks.at
                 /\ a.limits = placed.limits
    <2> DEFINE a == [placed EXCEPT !.ticks.hidden = value]
    <2>1. /\ IsShown(a) /\ a.ticks.hidden = value /\ a.ticks.at = placed.ticks.at
          /\ \A f \in AxesFields \ {"ticks"} : a[f] = placed[f]
        BY <1>4 DEF IsShown, AxesFields
    <2> HIDE DEF a
    <2>2. a.limits = placed.limits
        BY <2>1 DEF AxesFields
    <2>3. IsDefaultLocator(a.ticks) <=> IsDefaultLocator(placed.ticks)
        BY <2>1 DEF IsDefaultLocator
    <2>4. Suits(a)
        BY <1>4, <2>1, <2>2, <2>3
    <2>5. QED
        BY <2>1, <2>2, <2>4 DEF a
<1> HIDE DEF switch
<1>6. /\ Suits(visible) /\ visible.ticks.at = placed.ticks.at /\ visible.limits = placed.limits
    BY <1>5
<1> HIDE DEF visible
<1>7. Suits(fixed) /\ fixed.ticks.at = (IF at # <<"auto">> THEN at ELSE shown)
    <2>1. CASE at # <<"auto">>
        BY <1>4, <1>6, <2>1
    <2>2. CASE at = <<"auto">>
        <3>1. Placed(fixed, visible, shown)
            BY <1>6, <2>2, TicksArePlaced
        <3>2. shown # <<"auto">> /\ IsLocator(shown, p)
            BY <1>6 DEF IsDefaultLocator, IsLocator
        <3>3. ~IsDefaultLocator(fixed.ticks)
            BY <3>1, <3>2 DEF Placed, IsDefaultLocator
        <3> HIDE DEF fixed
        <3>4. QED
            BY <1>3, <1>6, <2>2, <3>1, <3>2, <3>3 DEF Placed
    <2>3. QED
        BY <2>1, <2>2
<1>8. NumberOfTicks(fixed.ticks.at) = IF p.ticks # None THEN p.ticks
                                      ELSE IF p.kind = "categorical" THEN CategoryTicks ELSE AutoTicks
    <2>1. CASE at # <<"auto">>
        BY <1>2, <1>3, <1>7, <2>1, TicksAreCounted
    <2>2. CASE at = <<"auto">>
        <3>1. fixed.ticks.at = shown /\ p.ticks = None /\ p.kind # "categorical"
            BY <1>3, <1>7, <2>2
        <3>2. IsLocator(shown, p)
            BY <1>7, <3>1
        <3>3. NumberOfTicks(shown) = AutoTicks
            BY <3>1, <3>2, TicksAreCounted DEF IsLocator
        <3>4. QED
            BY <3>1, <3>3
    <2>3. QED
        BY <2>1, <2>2
<1> HIDE DEF fixed
<1>10. ASSUME NEW a, Suits(a), IsRebuilding(v), v.units = w.units, v.a = a,
              (v.failed <=> FailsTicks(p)), ~v.failed => Holds(p, a, "ticks")
       PROVE  /\ IsRebuilding(v) /\ v.units = w.units /\ Spares(w, v, {"ticks", "limits"})
              /\ (v.failed <=> FailsTicks(p))
              /\ IsLocator(v.a.ticks.at, p)
              /\ ~v.failed =>
                     /\ Holds(p, v.a, "ticks")
                     /\ IsDefaultLocator(v.a.ticks) =>
                            IsDefaultLocator(w.a.ticks) /\ v.a.limits = w.a.limits
    BY <1>10 DEF Spares
<1>11. CASE hides
    <2> DEFINE a == [placed EXCEPT !.ticks.hidden = TRUE]
    <2>1. v = Hidden(a)
        BY <1>11 DEF ApplyTicksNow, at, placed
    <2>2. Suits(a) /\ a.ticks.hidden = TRUE
        BY <1>5
    <2> HIDE DEF a
    <2>3. IsRebuilding(v) /\ v.units = w.units /\ v.a = a /\ v.failed = FALSE
        BY <2>1, <2>2 DEF IsRebuilding
    <2>4. ~FailsTicks(p)
        BY <1>11 DEF FailsTicks
    <2>5. Holds(p, a, "ticks")
        BY <1>11, <2>2 DEF Holds, Suits
    <2>6. QED
        BY <1>10, <2>2, <2>3, <2>4, <2>5
<1>12. CASE ~hides /\ p.labels = None
    <2> DEFINE a == IF p.kind = "categorical" THEN [visible EXCEPT !.ticks.text = "category"]
                    ELSE visible
    <2>1. v = Shown(a)
        BY <1>12 DEF ApplyTicksNow, at, placed, visible, switch
    <2>2. Suits(a)
        <3> DEFINE b == [visible EXCEPT !.ticks.text = "category"]
        <3>1. /\ IsShown(b) /\ b.ticks.at = visible.ticks.at
              /\ \A f \in AxesFields \ {"ticks"} : b[f] = visible[f]
            BY <1>6 DEF IsShown, AxesFields
        <3> HIDE DEF b
        <3>2. b.limits = visible.limits
            BY <3>1 DEF AxesFields
        <3>3. IsDefaultLocator(b.ticks) <=> IsDefaultLocator(visible.ticks)
            BY <3>1 DEF IsDefaultLocator
        <3>4. Suits(b)
            BY <1>6, <3>1, <3>2, <3>3
        <3>5. QED
            BY <1>6, <3>4 DEF b
    <2> HIDE DEF a
    <2>3. IsRebuilding(v) /\ v.units = w.units /\ v.a = a /\ v.failed = FALSE
        BY <2>1, <2>2 DEF IsRebuilding
    <2>4. ~FailsTicks(p)
        BY <1>12 DEF FailsTicks
    <2>5. Holds(p, a, "ticks")
        BY <1>12, <2>2 DEF Holds, Suits, None
    <2>6. QED
        BY <1>10, <2>2, <2>3, <2>4, <2>5
<1>13. CASE ~hides /\ p.labels # None /\ ~counted
    <2>1. v = Failed(fixed)
        BY <1>13 DEF ApplyTicksNow, at, placed, visible, switch, fixed
    <2>2. IsRebuilding(v) /\ v.units = w.units /\ v.a = fixed /\ v.failed = TRUE
        BY <1>7, <2>1 DEF IsRebuilding
    <2>3. FailsTicks(p)
        <3>1. p.labels # 0
            BY <1>2, <1>8, <1>13
        <3>2. QED
            BY <1>8, <1>13, <3>1 DEF FailsTicks, TicksFit
    <2>4. QED
        BY <1>7, <1>10, <2>2, <2>3
<1>14. CASE ~hides /\ p.labels # None /\ counted
    <2> DEFINE text == IF p.labels = 0 THEN "blank" ELSE "plot"
               a == [fixed EXCEPT !.ticks.text = text]
    <2>1. v = Shown(a)
        BY <1>14 DEF ApplyTicksNow, at, placed, visible, switch, fixed
    <2> HIDE DEF text
    <2>2. Suits(a) /\ a.ticks.text = text
        <3>1. /\ IsShown(a) /\ a.ticks.text = text /\ a.ticks.at = fixed.ticks.at
              /\ \A f \in AxesFields \ {"ticks"} : a[f] = fixed[f]
            BY <1>7 DEF IsShown, AxesFields
        <3> HIDE DEF a
        <3>2. a.limits = fixed.limits
            BY <3>1 DEF AxesFields
        <3>3. IsDefaultLocator(a.ticks) <=> IsDefaultLocator(fixed.ticks)
            BY <3>1 DEF IsDefaultLocator
        <3>4. QED
            BY <1>7, <3>1, <3>2, <3>3
    <2> HIDE DEF a
    <2>3. IsRebuilding(v) /\ v.units = w.units /\ v.a = a /\ v.failed = FALSE
        BY <2>1, <2>2 DEF IsRebuilding
    <2>4. ~FailsTicks(p)
        BY <1>8, <1>14 DEF FailsTicks
    <2>5. Holds(p, a, "ticks")
        <3>1. p.labels = 0 => p.ticks = 0
            BY <1>2, <1>14
        <3>2. QED
            BY <2>2, <3>1 DEF Holds, Suits, text
    <2>6. QED
        BY <1>10, <2>2, <2>3, <2>4, <2>5
<1>15. QED
    BY <1>11, <1>12, <1>13, <1>14

LEMMA TicksStep ==
    ASSUME NEW w, IsRebuilding(w), ~w.failed, NEW p, TicksFit(p), IsLocator(w.a.ticks.at, p),
           NEW external, NEW v, v = ApplyTicks(w, p, external)
    PROVE  /\ IsRebuilding(v) /\ Spares(w, v, {"ticks", "limits"}) /\ IsLocator(v.a.ticks.at, p)
           /\ \A other \in Units \ {"ticks"} : v.units[other] = w.units[other]
           /\ "ticks" \in external => v = w
           /\ "ticks" \notin external =>
                  /\ (v.failed <=> FailsTicks(p))
                  /\ v.failed => v.units = w.units
                  /\ ~v.failed =>
                         /\ v.units["ticks"].last_applied = TicksWith(v.a, v.a.limits)
                         /\ IsClaimed(w.units, "ticks") => IsClaimed(v.units, "ticks")
                         /\ Holds(p, v.a, "ticks")
                         /\ IsDefaultLocator(v.a.ticks) =>
                                IsDefaultLocator(w.a.ticks) /\ v.a.limits = w.a.limits
<1>1. CASE "ticks" \in external
    BY <1>1 DEF ApplyTicks, Spares
<1>2. CASE "ticks" \notin external
    <2> DEFINE now == ApplyTicksNow(w, p)
    <2>1. /\ IsRebuilding(now) /\ now.units = w.units /\ Spares(w, now, {"ticks", "limits"})
          /\ (now.failed <=> FailsTicks(p))
          /\ IsLocator(now.a.ticks.at, p)
          /\ ~now.failed =>
                 /\ Holds(p, now.a, "ticks")
                 /\ IsDefaultLocator(now.a.ticks) =>
                        IsDefaultLocator(w.a.ticks) /\ now.a.limits = w.a.limits
        BY TicksEnd
    <2>2. v = IF now.failed THEN now ELSE Reconcile(now, "ticks", external, now.a)
        BY <1>2 DEF ApplyTicks, RecordTicks
    <2> HIDE DEF now
    <2>3. CASE now.failed
        BY <1>2, <2>1, <2>2, <2>3
    <2>4. CASE ~now.failed
        <3> DEFINE a == now.a
        <3>1. v = Reconcile(now, "ticks", external, a) /\ IsShown(a)
            BY <2>1, <2>2, <2>4 DEF IsRebuilding
        <3> HIDE DEF a
        <3>2. /\ Records(now, v, "ticks") /\ v.a = a
              /\ v.units["ticks"].last_applied = ReadSnapshot(a)["ticks"]
              /\ IsClaimed(now.units, "ticks") => IsClaimed(v.units, "ticks")
            BY <1>2, <2>1, <3>1, ReconcileRecords DEF Units
        <3>3. ReadSnapshot(a)["ticks"] = TicksWith(a, a.limits)
            BY SnapshotShows
        <3>4. v.failed = now.failed
            BY <3>2 DEF Records
        <3>5. QED
            BY <1>2, <2>1, <2>4, <3>2, <3>3, <3>4 DEF Records, Spares, a
    <2>5. QED
        BY <2>3, <2>4
<1>3. QED
    BY <1>1, <1>2

(***************************************************************************)
(* The rebuild, unit by unit                                               *)
(***************************************************************************)

\* A claim on a text that was never assigned, or on a legend the plot does not want, may
\* wait: there is nothing to record.
MayWait(p, u) == (u = "label" /\ p.text = Unset) \/ (u = "legend" /\ ~(p.legend /\ p.data > 0))

\* A claim of one field after a rebuild: it holds, and it is recorded or it waits.
IsTold(b, v, p, u) ==
    /\ IsClaimed(v.units, u) /\ Holds(p, v.a, u)
    /\ \/ v.units[u].last_applied = <<v.a[u]>>
       \/ MayWait(p, u) /\ v.units[u] = b.units[u] /\ v.a[u] = b.a[u]

Idle(w, v, u) == v.units[u] = w.units[u] /\ v.a[u] = w.a[u]

LEMMA ToldStays ==
    ASSUME NEW b, NEW w, NEW v, NEW p, NEW u \in Fields, IsTold(b, w, p, u), Idle(w, v, u)
    PROVE  IsTold(b, v, p, u)
<1>1. Holds(p, w.a, u) => Holds(p, v.a, u)
    BY DEF Holds, Fields, Idle
<1>2. QED
    BY <1>1 DEF IsTold, Idle, IsClaimed

\* What each side asks of the limits is on the axes, and they no longer follow what is drawn.
AreSettled(a, p, before, external) ==
    /\ "limits" \in external => a.limits = before["limits"][1] /\ ~a.auto
    /\ "limits" \notin external /\ p.limits # None => a.limits = LimitsAsked(p) /\ ~a.auto

LEMMA DrawnSteps ==
    ASSUME NEW w, IsRebuilding(w), NEW p, NEW v, v = Drawn(w, p)
    PROVE  /\ IsRebuilding(v) /\ v.units = w.units /\ v.failed = w.failed
           /\ Spares(w, v, {"drawn", "limits", "aspect"})
<1> DEFINE a == WithArtists(w.a, p)
<1>1. IsShown(a) /\ \A f \in AxesFields \ {"drawn", "limits", "aspect"} : a[f] = w.a[f]
    BY DEF IsRebuilding, IsShown, AxesFields, WithArtists
<1>2. v = [w EXCEPT !.a = a, !.tracked = TRUE]
    BY DEF Drawn
<1> HIDE DEF a
<1>3. v.a = a /\ v.units = w.units /\ v.failed = w.failed /\ IsRebuilding(v)
    BY <1>1, <1>2 DEF IsRebuilding
<1>4. QED
    BY <1>1, <1>3 DEF Spares

\* A plot of data up to its legend.
IsLaid(b, v, p, before, external) ==
    /\ IsRebuilding(v) /\ ~v.failed
    /\ \A u \in {"ticks", "tick_style", "axis_visibility"} : Idle(b, v, u)
    /\ AreSettled(v.a, p, before, external)
    /\ \A u \in {"frame", "label", "legend"} \ external :
           IsClaimed(b.units, u) => IsTold(b, v, p, u)
    /\ IsClaimed(b.units, "limits") => IsClaimed(v.units, "limits")

LEMMA LaidTells ==
    ASSUME NEW b, IsRebuilding(b), ~b.failed, NEW p, NEW before, NEW external,
           NEW v, v = Laid(b, p, before, external)
    PROVE  IsLaid(b, v, p, before, external)
<1> DEFINE one == Drawn(b, p)
           two == RestoreAutoscaleProtected(one, before, external)
           three == ApplyLimits(two, p, external)
           four == ApplyFrameVisibility(three, p, external)
           five == ApplyText(four, p, external)
           six == ApplyRecorded(five, "scale", external)
           seven == ApplyRecorded(six, "aspect", external)
           Data == {"ticks", "tick_style", "axis_visibility"}
<1>0. v = ApplyLegend(seven, p, external)
    BY DEF Laid
<1>1. IsRebuilding(one) /\ one.units = b.units /\ ~one.failed
      /\ \A u \in Data \cup {"frame", "label", "legend"} : Idle(b, one, u)
    BY DrawnSteps DEF Idle, Spares, AxesFields
<1> HIDE DEF one
<1>2. /\ IsRebuilding(two) /\ ~two.failed /\ two.units = b.units
      /\ \A u \in Data \cup {"frame", "label", "legend"} : Idle(b, two, u)
      /\ "limits" \in external => two.a.limits = before["limits"][1] /\ ~two.a.auto
    <2>0. two = RestoreAutoscaleProtected(one, before, external)
        OBVIOUS
    <2> HIDE DEF two
    <2>1. /\ IsRebuilding(two) /\ two.units = one.units /\ two.failed = one.failed
          /\ Spares(one, two, {"limits", "auto"})
          /\ "limits" \in external => two.a.limits = before["limits"][1] /\ ~two.a.auto
        BY <1>1, <2>0, ProtectedSteps
    <2>2. QED
        BY <1>1, <2>1 DEF Idle, Spares, AxesFields
<1> HIDE DEF two
<1>3. /\ IsRebuilding(three) /\ ~three.failed
      /\ \A u \in Data \cup {"frame", "label", "legend"} : Idle(b, three, u)
      /\ AreSettled(three.a, p, before, external)
      /\ IsClaimed(b.units, "limits") => IsClaimed(three.units, "limits")
    <2>0. three = ApplyLimits(two, p, external)
        OBVIOUS
    <2> HIDE DEF three
    <2>1. /\ Records(two, three, "limits") /\ Spares(two, three, {"limits", "auto"})
          /\ "limits" \in external => three = two
          /\ "limits" \notin external =>
                 /\ IsClaimed(two.units, "limits") => IsClaimed(three.units, "limits")
                 /\ p.limits # None => three.a.limits = LimitsAsked(p) /\ ~three.a.auto
        BY <1>2, <2>0, LimitsStep
    <2>2. IsRebuilding(three) /\ ~three.failed
          /\ \A u \in Data \cup {"frame", "label", "legend"} : Idle(b, three, u)
        BY <1>2, <2>1 DEF Records, Spares, Idle, AxesFields, Units
    <2>3. IsClaimed(b.units, "limits") => IsClaimed(three.units, "limits")
        BY <1>2, <2>1
    <2>4. AreSettled(three.a, p, before, external)
        BY <1>2, <2>1 DEF AreSettled
    <2>5. QED
        BY <2>2, <2>3, <2>4
<1> HIDE DEF three
<1> DEFINE Settled(w) == /\ IsRebuilding(w) /\ ~w.failed
                         /\ \A u \in Data : Idle(b, w, u)
                         /\ AreSettled(w.a, p, before, external)
                         /\ IsClaimed(b.units, "limits") => IsClaimed(w.units, "limits")
\* A step on one of the other fields keeps what has been settled.
<1>4. ASSUME NEW w, Settled(w), NEW z, NEW u \in Fields \ Data, Records(w, z, u), Spares(w, z, {u})
      PROVE  /\ Settled(z)
             /\ \A other \in Fields \ {u} : Idle(w, z, other)
    <2>1. z.a.limits = w.a.limits /\ z.a.auto = w.a.auto /\ z.a.ticks = w.a.ticks
          /\ \A other \in Fields \ {u} : Idle(w, z, other)
        BY <1>4 DEF Records, Spares, AxesFields, Fields, Units, Idle
    <2>2. z.units["limits"] = w.units["limits"] /\ z.units["ticks"] = w.units["ticks"]
        BY <1>4 DEF Records, Fields, Units
    <2>3. \A other \in Data : Idle(b, z, other)
        BY <1>4, <2>1, <2>2 DEF Idle, Fields
    <2>4. AreSettled(z.a, p, before, external)
        BY <1>4, <2>1 DEF AreSettled
    <2>5. QED
        BY <1>4, <2>1, <2>2, <2>3, <2>4 DEF Records, IsClaimed
<1>5. Settled(three)
    BY <1>3
<1> HIDE DEF Settled
<1>6. Settled(four)
      /\ \A u \in {"label", "legend"} : Idle(b, four, u)
      /\ ("frame" \notin external /\ IsClaimed(b.units, "frame") => IsTold(b, four, p, "frame"))
    <2>1. SetsTo(three, four, external, "frame", p.frame)
        BY <1>3, FieldSteps
    <2> HIDE DEF four
    <2>2. Settled(four) /\ \A other \in Fields \ {"frame"} : Idle(three, four, other)
        BY <1>4, <1>5, <2>1 DEF SetsTo, Fields
    <2>3. \A u \in {"label", "legend"} : Idle(b, four, u)
        BY <1>3, <2>2 DEF Idle, Fields
    <2>4. "frame" \notin external /\ IsClaimed(b.units, "frame") => IsTold(b, four, p, "frame")
        BY <1>3, <2>1 DEF SetsTo, IsTold, Holds, Idle, IsClaimed
    <2>5. QED
        BY <2>2, <2>3, <2>4
<1> HIDE DEF four
<1>7. /\ Settled(five) /\ Idle(b, five, "legend")
      /\ "frame" \notin external /\ IsClaimed(b.units, "frame") => IsTold(b, five, p, "frame")
      /\ "label" \notin external /\ IsClaimed(b.units, "label") => IsTold(b, five, p, "label")
    <2>0. IsRebuilding(four)
        BY <1>6 DEF Settled
    <2>1. CASE p.text = Unset
        <3>1. five = four
            BY <2>0, <2>1, FieldSteps
        <3>2. IsClaimed(b.units, "label") => IsTold(b, four, p, "label")
            BY <1>6, <2>1 DEF IsTold, Holds, Idle, MayWait, IsClaimed
        <3>3. QED
            BY <1>6, <3>1, <3>2
    <2>2. CASE p.text # Unset
        <3>1. SetsTo(four, five, external, "label", TextAsked(p))
            BY <2>0, <2>2, FieldSteps
        <3> HIDE DEF five
        <3>2. Settled(five) /\ \A other \in Fields \ {"label"} : Idle(four, five, other)
            BY <1>4, <1>6, <3>1 DEF SetsTo, Fields
        <3>3. Idle(four, five, "frame") /\ Idle(four, five, "legend")
            BY <3>2 DEF Fields
        <3>4. Idle(b, five, "legend")
            BY <1>6, <3>3 DEF Idle
        <3>5. "frame" \notin external /\ IsClaimed(b.units, "frame") => IsTold(b, five, p, "frame")
            BY <1>6, <3>3, ToldStays DEF Fields
        <3>6. "label" \notin external /\ IsClaimed(b.units, "label") => IsTold(b, five, p, "label")
            BY <1>6, <3>1 DEF SetsTo, IsTold, Holds, Idle, IsClaimed
        <3>7. QED
            BY <3>2, <3>4, <3>5, <3>6
    <2>3. QED
        BY <2>1, <2>2
<1> HIDE DEF five
<1> DEFINE Three(w) == /\ Settled(w) /\ Idle(b, w, "legend")
                       /\ \A u \in {"frame", "label"} \ external :
                              IsClaimed(b.units, u) => IsTold(b, w, p, u)
<1>8. ASSUME NEW w, Three(w), NEW u \in {"scale", "aspect"}
      PROVE  Three(ApplyRecorded(w, u, external))
    <2> DEFINE z == ApplyRecorded(w, u, external)
    <2>1. Records(w, z, u) /\ Spares(w, z, {u})
        BY <1>8, FieldSteps DEF SetsTo, Settled
    <2> HIDE DEF z
    <2>2. Settled(z) /\ \A other \in Fields \ {u} : Idle(w, z, other)
        BY <1>4, <1>8, <2>1 DEF Fields
    <2>3. Idle(w, z, "legend") /\ Idle(w, z, "frame") /\ Idle(w, z, "label")
        BY <2>2 DEF Fields
    <2>4. Idle(b, z, "legend")
        BY <1>8, <2>3 DEF Idle
    <2>5. \A other \in {"frame", "label"} \ external : IsClaimed(b.units, other) => IsTold(b, z, p, other)
        BY <1>8, <2>3, ToldStays DEF Fields
    <2>6. QED
        BY <2>2, <2>4, <2>5 DEF z
<1>9. Three(five)
    BY <1>7
<1>10. Three(six)
    BY <1>8, <1>9
<1> HIDE DEF six
<1>11. Three(seven)
    BY <1>8, <1>10
<1> HIDE DEF seven
<1>12. /\ Records(seven, v, "legend") /\ Spares(seven, v, {"legend"})
       /\ IsClaimed(seven.units, "legend") /\ "legend" \notin external =>
              /\ IsClaimed(v.units, "legend") /\ Holds(p, v.a, "legend")
              /\ \/ v.units["legend"].last_applied = <<v.a.legend>>
                 \/ v = seven /\ ~(p.legend /\ p.data > 0)
    BY <1>0, <1>11, LegendStep DEF Settled
<1>13. Settled(v) /\ \A other \in Fields \ {"legend"} : Idle(seven, v, other)
    BY <1>4, <1>11, <1>12 DEF Fields
<1>14. \A u \in {"frame", "label"} \ external : IsClaimed(b.units, u) => IsTold(b, v, p, u)
    BY <1>11, <1>13, ToldStays DEF Fields
<1>15. "legend" \notin external /\ IsClaimed(b.units, "legend") => IsTold(b, v, p, "legend")
    BY <1>11, <1>12 DEF IsTold, Idle, IsClaimed, MayWait
<1>16. QED
    BY <1>13, <1>14, <1>15 DEF IsLaid, Settled

LEMMA AnnotatedSteps ==
    ASSUME NEW w, IsRebuilding(w), NEW p, NEW v, v = Annotated(w, p)
    PROVE  /\ IsRebuilding(v) /\ v.units = w.units /\ v.failed = w.failed
           /\ Spares(w, v, {"limits"})
           /\ ~w.a.auto => v.a.limits = w.a.limits
<1> DEFINE a == WithAnnotations(w.a, p)
<1>1. /\ IsShown(a) /\ \A f \in AxesFields \ {"limits"} : a[f] = w.a[f]
      /\ ~w.a.auto => a.limits = w.a.limits
    BY DEF IsRebuilding, IsShown, AxesFields, WithAnnotations
<1>2. v = [w EXCEPT !.a = a]
    BY DEF Annotated
<1> HIDE DEF a
<1>3. v.a = a /\ v.units = w.units /\ v.failed = w.failed /\ IsRebuilding(v)
    BY <1>1, <1>2 DEF IsRebuilding
<1>4. QED
    BY <1>1, <1>3 DEF Spares

LEMMA StyleStep ==
    ASSUME NEW w, IsRebuilding(w), NEW p, NEW external,
           NEW v, v = ApplyTickStyle(w, p, external)
    PROVE  /\ IsRebuilding(v) /\ v.failed = w.failed /\ Spares(w, v, {"tick_style"})
           /\ \A other \in Units \ {"tick_style"} : v.units[other] = w.units[other]
           /\ "tick_style" \notin external /\ p.style # NoStyle =>
                  Holds(p, v.a, "tick_style") /\ v.units["tick_style"].last_applied = <<v.a.tick_style>>
           /\ IsClaimed(w.units, "tick_style") => IsClaimed(v.units, "tick_style")
<1>1. CASE p.style = NoStyle
    <2>1. v = w
        BY <1>1, FieldSteps
    <2>2. QED
        BY <1>1, <2>1 DEF Spares
<1>2. CASE p.style # NoStyle
    <2>1. SetsTo(w, v, external, "tick_style", p.style)
        BY <1>2, FieldSteps
    <2>2. QED
        BY <2>1 DEF SetsTo, Records, Holds
<1>3. QED
    BY <1>1, <1>2

\* A rebuild of a plot that has data: what is claimed holds and is recorded; a rebuild that
\* fails over its ticks has not got as far as recording these.
LEMMA DataTells ==
    ASSUME NEW b, IsRebuilding(b), ~b.failed, NEW p, TicksFit(p), IsLocator(b.a.ticks.at, p),
           p.data # 0, NEW before, NEW external, NEW v, v = RebuiltData(b, p, before, external)
    PROVE  /\ IsRebuilding(v) /\ IsLocator(v.a.ticks.at, p)
           /\ (v.failed <=> "ticks" \notin external /\ FailsTicks(p))
           /\ \A u \in {"frame", "label", "legend"} \ external :
                  IsClaimed(b.units, u) => IsTold(b, v, p, u)
           /\ IsClaimed(b.units, "limits") => IsClaimed(v.units, "limits")
           /\ v.failed => v.units["ticks"] = b.units["ticks"] /\ Idle(b, v, "tick_style")
           /\ ~v.failed =>
                  /\ "limits" \notin external => v.units["limits"].last_applied = <<v.a.limits>>
                                                 /\ Holds(p, v.a, "limits")
                  /\ "ticks" \notin external /\ IsClaimed(b.units, "ticks") =>
                         /\ IsClaimed(v.units, "ticks") /\ Holds(p, v.a, "ticks")
                         /\ v.units["ticks"].last_applied = TicksWith(v.a, v.a.limits)
                  /\ "tick_style" \notin external /\ p.style # NoStyle
                         /\ IsClaimed(b.units, "tick_style") => IsTold(b, v, p, "tick_style")
<1> DEFINE laid == Laid(b, p, before, external)
           ticked == ApplyTicks(laid, p, external)
           styled == ApplyTickStyle(ticked, p, external)
           annotated == Annotated(styled, p)
           again == ApplyTicks(annotated, p, external)
           protected == RestoreAutoscaleProtected(again, before, external)
           limited == ApplyLimits(protected, p, external)
           final == ApplyTickStyle(limited, p, external)
           Rest == {"frame", "label", "legend"}
           \* What the steps after the legend leave alone.
           Kept(w) == /\ \A u \in Rest \ external : IsClaimed(b.units, u) => IsTold(b, w, p, u)
                      /\ IsClaimed(b.units, "limits") => IsClaimed(w.units, "limits")
           Spared(w, z) == /\ \A u \in Rest : Idle(w, z, u)
                           /\ IsClaimed(w.units, "limits") => IsClaimed(z.units, "limits")
           Claimed(w) == \A u \in {"ticks", "tick_style"} : IsClaimed(b.units, u) => IsClaimed(w.units, u)
           \* Default ticks are recorded with limits that stay.
           Stable(w) == "ticks" \notin external /\ IsDefaultLocator(w.a.ticks) =>
                            AreSettled(w.a, p, before, external)
<1>0. v = IF ticked.failed THEN ticked ELSE final
    BY Zenon DEF RebuiltData, Finished
<1>1. ASSUME NEW w, Kept(w), NEW z, Spared(w, z)
      PROVE  Kept(z)
    <2>1. Rest \subseteq Fields
        BY DEF Fields
    <2>2. QED
        BY <1>1, <2>1, ToldStays
<1>2. IsLaid(b, laid, p, before, external)
    BY LaidTells
<1> HIDE DEF laid
<1>3. /\ IsRebuilding(laid) /\ ~laid.failed /\ Kept(laid)
      /\ laid.a.ticks = b.a.ticks /\ laid.units["ticks"] = b.units["ticks"]
      /\ Idle(b, laid, "tick_style") /\ AreSettled(laid.a, p, before, external)
    BY <1>2 DEF IsLaid, Idle
<1>4. /\ IsRebuilding(ticked) /\ Spares(laid, ticked, {"ticks", "limits"})
      /\ IsLocator(ticked.a.ticks.at, p)
      /\ \A other \in Units \ {"ticks"} : ticked.units[other] = laid.units[other]
      /\ "ticks" \in external => ticked = laid
      /\ "ticks" \notin external =>
             /\ (ticked.failed <=> FailsTicks(p))
             /\ ticked.failed => ticked.units = laid.units
             /\ ~ticked.failed =>
                    /\ IsClaimed(laid.units, "ticks") => IsClaimed(ticked.units, "ticks")
                    /\ IsDefaultLocator(ticked.a.ticks) => ticked.a.limits = laid.a.limits
    <2>1. ticked = ApplyTicks(laid, p, external)
        OBVIOUS
    <2> HIDE DEF ticked
    <2>2. IsLocator(laid.a.ticks.at, p)
        BY <1>3
    <2>3. QED
        BY <1>3, <2>1, <2>2, TicksStep
<1> HIDE DEF ticked
<1>5. Kept(ticked) /\ Idle(b, ticked, "tick_style")
    <2>1. Spared(laid, ticked) /\ Idle(laid, ticked, "tick_style")
        BY <1>4 DEF Idle, Spares, AxesFields, Units, IsClaimed
    <2>2. Kept(ticked)
        BY <1>1, <1>3, <2>1
    <2>3. QED
        BY <1>3, <2>1, <2>2 DEF Idle
<1>6. CASE ticked.failed
    <2>1. v = ticked /\ "ticks" \notin external /\ FailsTicks(p)
        BY <1>0, <1>3, <1>4, <1>6
    <2>2. v.units["ticks"] = b.units["ticks"]
        BY <1>3, <1>4, <1>6, <2>1
    <2>3. QED
        BY <1>4, <1>5, <1>6, <2>1, <2>2
<1>7. CASE ~ticked.failed
    <2>1. v = final
        BY <1>0, <1>7
    <2>2. Stable(ticked) /\ Claimed(ticked)
        <3>1. ticked.a.auto = laid.a.auto
            BY <1>4 DEF Spares, AxesFields
        <3>2. Stable(ticked)
            BY <1>3, <1>4, <1>7, <3>1 DEF AreSettled
        <3>3. Claimed(ticked)
            BY <1>3, <1>4, <1>5, <1>7 DEF Idle, IsClaimed
        <3>4. QED
            BY <3>2, <3>3
    <2>3. /\ IsRebuilding(styled) /\ ~styled.failed /\ IsLocator(styled.a.ticks.at, p)
          /\ Kept(styled) /\ Claimed(styled) /\ Stable(styled)
        <3>0. styled = ApplyTickStyle(ticked, p, external)
            OBVIOUS
        <3> HIDE DEF styled
        <3>1. /\ IsRebuilding(styled) /\ styled.failed = ticked.failed
              /\ Spares(ticked, styled, {"tick_style"})
              /\ \A other \in Units \ {"tick_style"} : styled.units[other] = ticked.units[other]
              /\ IsClaimed(ticked.units, "tick_style") => IsClaimed(styled.units, "tick_style")
            BY <1>4, <3>0, StyleStep
        <3>2. styled.a.ticks = ticked.a.ticks /\ styled.a.limits = ticked.a.limits
              /\ styled.a.auto = ticked.a.auto
            BY <3>1 DEF Spares, AxesFields
        <3>3. Spared(ticked, styled)
            BY <3>1 DEF Spares, AxesFields, Units, Idle, IsClaimed
        <3>4. Kept(styled)
            BY <1>1, <1>5, <3>3
        <3>5. Claimed(styled)
            BY <2>2, <3>1 DEF IsClaimed, Units
        <3>6. Stable(styled)
            BY <2>2, <3>2 DEF AreSettled
        <3>7. QED
            BY <1>4, <1>7, <3>1, <3>2, <3>4, <3>5, <3>6
    <2> HIDE DEF styled
    <2>4. /\ IsRebuilding(annotated) /\ ~annotated.failed /\ IsLocator(annotated.a.ticks.at, p)
          /\ Kept(annotated) /\ Claimed(annotated) /\ Stable(annotated)
        <3>1. /\ IsRebuilding(annotated) /\ annotated.units = styled.units
              /\ annotated.failed = styled.failed
              /\ Spares(styled, annotated, {"limits"})
              /\ ~styled.a.auto => annotated.a.limits = styled.a.limits
            BY <2>3, AnnotatedSteps
        <3> HIDE DEF annotated
        <3>2. annotated.a.ticks = styled.a.ticks /\ annotated.a.auto = styled.a.auto
            BY <3>1 DEF Spares, AxesFields
        <3>3. Spared(styled, annotated)
            BY <3>1 DEF Spares, AxesFields, Units, Idle, IsClaimed
        <3>4. Kept(annotated)
            BY <1>1, <2>3, <3>3
        <3>5. Claimed(annotated)
            BY <2>3, <3>1
        <3>6. Stable(annotated)
            BY <2>3, <3>1, <3>2 DEF AreSettled
        <3>7. QED
            BY <2>3, <3>1, <3>2, <3>4, <3>5, <3>6
    <2> HIDE DEF annotated
    <2>5. /\ IsRebuilding(again) /\ ~again.failed /\ IsLocator(again.a.ticks.at, p)
          /\ Kept(again) /\ Claimed(again) /\ Stable(again)
          /\ "ticks" \notin external =>
                 /\ again.units["ticks"].last_applied = TicksWith(again.a, again.a.limits)
                 /\ Holds(p, again.a, "ticks")
        <3>0. again = ApplyTicks(annotated, p, external)
            OBVIOUS
        <3> HIDE DEF again
        <3>1. /\ IsRebuilding(again) /\ Spares(annotated, again, {"ticks", "limits"})
              /\ IsLocator(again.a.ticks.at, p)
              /\ \A other \in Units \ {"ticks"} : again.units[other] = annotated.units[other]
              /\ "ticks" \in external => again = annotated
              /\ "ticks" \notin external =>
                     /\ (again.failed <=> FailsTicks(p))
                     /\ ~again.failed =>
                            /\ again.units["ticks"].last_applied = TicksWith(again.a, again.a.limits)
                            /\ IsClaimed(annotated.units, "ticks") => IsClaimed(again.units, "ticks")
                            /\ Holds(p, again.a, "ticks")
                            /\ IsDefaultLocator(again.a.ticks) =>
                                   IsDefaultLocator(annotated.a.ticks)
                                   /\ again.a.limits = annotated.a.limits
            BY <2>4, <3>0, TicksStep
        <3>2. ~again.failed
            BY <1>4, <1>7, <2>4, <3>1
        <3>3. again.a.auto = annotated.a.auto
            BY <3>1 DEF Spares, AxesFields
        <3>4. Spared(annotated, again)
            BY <3>1 DEF Spares, AxesFields, Units, Idle, IsClaimed
        <3>5. Kept(again)
            BY <1>1, <2>4, <3>4
        <3>6. Claimed(again)
            BY <2>4, <3>1, <3>2 DEF IsClaimed, Units
        <3>7. Stable(again)
            BY <2>4, <3>1, <3>2, <3>3 DEF AreSettled
        <3>8. QED
            BY <3>1, <3>2, <3>5, <3>6, <3>7
    <2> HIDE DEF again
    <2>6. /\ IsRebuilding(protected) /\ ~protected.failed /\ protected.units = again.units
          /\ Spares(again, protected, {"limits", "auto"})
          /\ "limits" \in external => protected.a.limits = before["limits"][1] /\ ~protected.a.auto
          /\ "limits" \notin external => protected = again
        <3>1. protected = RestoreAutoscaleProtected(again, before, external)
            OBVIOUS
        <3> HIDE DEF protected
        <3>2. QED
            BY <2>5, <3>1, ProtectedSteps
    <2> HIDE DEF protected
    <2>7. /\ IsRebuilding(limited) /\ ~limited.failed
          /\ \A other \in Units \ {"limits"} : limited.units[other] = again.units[other]
          /\ Spares(again, limited, {"limits", "auto"})
          /\ IsClaimed(again.units, "limits") => IsClaimed(limited.units, "limits")
          /\ "limits" \notin external =>
                 limited.units["limits"].last_applied = <<limited.a.limits>>
                 /\ Holds(p, limited.a, "limits")
          /\ "limits" \in external => limited.a.limits = before["limits"][1]
          /\ "limits" \notin external /\ p.limits # None => limited.a.limits = LimitsAsked(p)
          /\ "limits" \notin external /\ p.limits = None => limited.a.limits = again.a.limits
        <3>1. limited = ApplyLimits(protected, p, external)
            OBVIOUS
        <3> HIDE DEF limited
        <3>2. /\ Records(protected, limited, "limits") /\ Spares(protected, limited, {"limits", "auto"})
              /\ "limits" \in external => limited = protected
              /\ "limits" \notin external =>
                     /\ limited.units["limits"].last_applied = <<limited.a.limits>>
                     /\ IsClaimed(protected.units, "limits") => IsClaimed(limited.units, "limits")
                     /\ p.limits # None => limited.a.limits = LimitsAsked(p) /\ ~limited.a.auto
                     /\ p.limits = None => limited.a = protected.a
            BY <2>6, <3>1, LimitsStep
        <3>3. IsRebuilding(limited) /\ ~limited.failed
              /\ \A other \in Units \ {"limits"} : limited.units[other] = again.units[other]
            BY <2>6, <3>2 DEF Records
        <3>4. Spares(again, limited, {"limits", "auto"})
            BY <2>6, <3>2 DEF Spares
        <3>5. QED
            BY <2>6, <3>2, <3>3, <3>4 DEF Holds
    <2> HIDE DEF limited
    <2>8. Kept(limited) /\ Claimed(limited) /\ limited.a.ticks = again.a.ticks
        <3>1. Spared(again, limited) /\ limited.a.ticks = again.a.ticks
            BY <2>7 DEF Spares, AxesFields, Units, Idle
        <3>2. Kept(limited)
            BY <1>1, <2>5, <3>1
        <3>3. Claimed(limited)
            BY <2>5, <2>7 DEF IsClaimed, Units
        <3>4. QED
            BY <3>1, <3>2, <3>3
    <2>9. "ticks" \notin external =>
              /\ limited.units["ticks"].last_applied = TicksWith(limited.a, limited.a.limits)
              /\ Holds(p, limited.a, "ticks")
        <3>1. "ticks" \notin external /\ IsDefaultLocator(again.a.ticks) =>
                  limited.a.limits = again.a.limits
            BY <2>5, <2>7 DEF AreSettled
        <3>2. "ticks" \notin external =>
                  TicksWith(limited.a, limited.a.limits) = TicksWith(again.a, again.a.limits)
            BY <2>8, <3>1 DEF TicksWith
        <3>3. limited.units["ticks"] = again.units["ticks"]
            BY <2>7 DEF Units
        <3>4. QED
            BY <2>5, <2>8, <3>2, <3>3 DEF Holds
    <2>10. /\ IsRebuilding(final) /\ final.failed = limited.failed
           /\ Spares(limited, final, {"tick_style"})
           /\ \A other \in Units \ {"tick_style"} : final.units[other] = limited.units[other]
           /\ "tick_style" \notin external /\ p.style # NoStyle =>
                  Holds(p, final.a, "tick_style")
                  /\ final.units["tick_style"].last_applied = <<final.a.tick_style>>
           /\ IsClaimed(limited.units, "tick_style") => IsClaimed(final.units, "tick_style")
        <3>1. final = ApplyTickStyle(limited, p, external)
            OBVIOUS
        <3> HIDE DEF final
        <3>2. QED
            BY <2>7, <3>1, StyleStep
    <2> HIDE DEF final
    <2>11. final.a.ticks = limited.a.ticks /\ final.a.limits = limited.a.limits
           /\ final.units["ticks"] = limited.units["ticks"]
           /\ final.units["limits"] = limited.units["limits"]
        BY <2>10 DEF Spares, AxesFields, Units
    <2>12. Kept(final)
        <3>1. Spared(limited, final)
            BY <2>10 DEF Spares, AxesFields, Units, Idle, IsClaimed
        <3>2. QED
            BY <1>1, <2>8, <3>1
    <2>13. IsLocator(final.a.ticks.at, p)
        BY <2>5, <2>8, <2>11
    <2>14. "limits" \notin external => final.units["limits"].last_applied = <<final.a.limits>>
                                       /\ Holds(p, final.a, "limits")
        BY <2>7, <2>11 DEF Holds
    <2>15. "ticks" \notin external /\ IsClaimed(b.units, "ticks") =>
               /\ IsClaimed(final.units, "ticks") /\ Holds(p, final.a, "ticks")
               /\ final.units["ticks"].last_applied = TicksWith(final.a, final.a.limits)
        BY <2>8, <2>9, <2>11 DEF Holds, TicksWith, IsClaimed
    <2>16. "tick_style" \notin external /\ p.style # NoStyle /\ IsClaimed(b.units, "tick_style") =>
               IsTold(b, final, p, "tick_style")
        BY <2>8, <2>10 DEF IsTold
    <2>17. ~v.failed /\ ~("ticks" \notin external /\ FailsTicks(p))
        BY <1>4, <1>7, <2>1, <2>7, <2>10
    <2>18. QED
        BY <2>1, <2>10, <2>12, <2>13, <2>14, <2>15, <2>16, <2>17
<1>8. QED
    BY <1>6, <1>7

\* A rebuild of a map does not fail, and leaves the ticks.
LEMMA GeometryTells ==
    ASSUME NEW b, IsRebuilding(b), ~b.failed, NEW p, p.show_axis \in BOOLEAN,
           NEW before, NEW external, NEW v, v = RebuiltGeometry(b, p, before, external)
    PROVE  /\ IsRebuilding(v) /\ ~v.failed /\ v.a.ticks = b.a.ticks
           /\ \A u \in {"label", "axis_visibility"} \ external :
                  IsClaimed(b.units, u) => IsTold(b, v, p, u)
           /\ "limits" \notin external => v.units["limits"].last_applied = <<v.a.limits>>
                                          /\ Holds(p, v.a, "limits")
           /\ IsClaimed(b.units, "limits") => IsClaimed(v.units, "limits")
<1> DEFINE one == Drawn(b, p)
           two == RestoreAutoscaleProtected(one, before, external)
           titled == ApplyText(two, p, external)
           visible == Reconcile(titled, "axis_visibility", external,
                                [titled.a EXCEPT !.axis_visibility = p.show_axis])
           shaped == IF "aspect" \in external
                     THEN [visible EXCEPT !.a.aspect = before["aspect"][1]]
                     ELSE [visible EXCEPT !.units =
                               RecordDefault(visible.units, "aspect", <<visible.a.aspect>>)]
           Begun(w) == /\ IsRebuilding(w) /\ ~w.failed /\ w.a.ticks = b.a.ticks
                       /\ IsClaimed(b.units, "limits") => IsClaimed(w.units, "limits")
<1>0. v = ApplyLimits(shaped, p, external)
    BY Zenon DEF RebuiltGeometry
<1>1. Begun(one) /\ Idle(b, one, "label") /\ Idle(b, one, "axis_visibility")
    <2>1. one = Drawn(b, p)
        OBVIOUS
    <2> HIDE DEF one
    <2>2. IsRebuilding(one) /\ one.units = b.units /\ one.failed = b.failed
          /\ Spares(b, one, {"drawn", "limits", "aspect"})
        BY <2>1, DrawnSteps
    <2>3. QED
        BY <2>2 DEF Spares, AxesFields, Idle, IsClaimed
<1> HIDE DEF one
<1>2. Begun(two) /\ Idle(b, two, "label") /\ Idle(b, two, "axis_visibility")
    <2>1. two = RestoreAutoscaleProtected(one, before, external)
        OBVIOUS
    <2> HIDE DEF two
    <2>2. IsRebuilding(two) /\ two.units = one.units /\ two.failed = one.failed
          /\ Spares(one, two, {"limits", "auto"})
        BY <1>1, <2>1, ProtectedSteps
    <2>3. QED
        BY <1>1, <2>2 DEF Spares, AxesFields, Idle, IsClaimed
<1> HIDE DEF two
<1>3. Begun(titled) /\ Idle(b, titled, "axis_visibility")
      /\ ("label" \notin external /\ IsClaimed(b.units, "label") => IsTold(b, titled, p, "label"))
    <2>1. CASE p.text = Unset
        <3>1. titled = two
            BY <1>2, <2>1, FieldSteps
        <3>2. IsClaimed(b.units, "label") => IsTold(b, two, p, "label")
            BY <1>2, <2>1 DEF IsTold, Holds, Idle, MayWait, IsClaimed
        <3>3. QED
            BY <1>2, <3>1, <3>2
    <2>2. CASE p.text # Unset
        <3>1. SetsTo(two, titled, external, "label", TextAsked(p))
            BY <1>2, <2>2, FieldSteps
        <3> HIDE DEF titled
        <3>2. Begun(titled) /\ Idle(b, titled, "axis_visibility")
            BY <1>2, <3>1 DEF SetsTo, Records, Spares, AxesFields, Units, Idle, IsClaimed
        <3>3. "label" \notin external /\ IsClaimed(b.units, "label") => IsTold(b, titled, p, "label")
            BY <1>2, <3>1 DEF SetsTo, IsTold, Holds, Idle, IsClaimed
        <3>4. QED
            BY <3>2, <3>3
    <2>3. QED
        BY <2>1, <2>2
<1> HIDE DEF titled
<1> DEFINE Told(w) == \A u \in {"label", "axis_visibility"} \ external :
                          IsClaimed(b.units, u) => IsTold(b, w, p, u)
<1>4. Begun(visible) /\ Told(visible)
    <2> DEFINE a == [titled.a EXCEPT !.axis_visibility = p.show_axis]
    <2>1. IsShown(a) /\ a["axis_visibility"] = p.show_axis
          /\ \A f \in AxesFields \ {"axis_visibility"} : a[f] = titled.a[f]
        BY <1>3 DEF IsRebuilding, IsShown, AxesFields
    <2>2. visible = Reconcile(titled, "axis_visibility", external, a)
        OBVIOUS
    <2> HIDE DEF a, visible
    <2>3. SetsTo(titled, visible, external, "axis_visibility", p.show_axis)
        BY <1>3, <2>1, <2>2, FieldIsSet DEF Fields
    <2>4. Begun(visible) /\ Idle(titled, visible, "label")
        BY <1>3, <2>3 DEF SetsTo, Records, Spares, AxesFields, Units, Idle, IsClaimed
    <2>5. "axis_visibility" \notin external /\ IsClaimed(b.units, "axis_visibility") =>
              IsTold(b, visible, p, "axis_visibility")
        BY <1>3, <2>3 DEF SetsTo, IsTold, Holds, Idle, IsClaimed
    <2>6. "label" \notin external /\ IsClaimed(b.units, "label") => IsTold(b, visible, p, "label")
        BY <1>3, <2>4, ToldStays DEF Fields
    <2>7. QED
        BY <2>4, <2>5, <2>6
<1> HIDE DEF visible
<1>5. Begun(shaped) /\ Told(shaped)
    <2>1. Begun(shaped) /\ Idle(visible, shaped, "label") /\ Idle(visible, shaped, "axis_visibility")
        <3>1. CASE "aspect" \in external
            <4> DEFINE value == before["aspect"][1]
                       a == [visible.a EXCEPT !.aspect = value]
            <4>1. shaped = [visible EXCEPT !.a = a]
                BY <3>1
            <4> HIDE DEF value
            <4>2. IsShown(a) /\ \A f \in AxesFields \ {"aspect"} : a[f] = visible.a[f]
                BY <1>4 DEF IsRebuilding, IsShown, AxesFields
            <4> HIDE DEF a, shaped
            <4>3. shaped.a = a /\ shaped.units = visible.units /\ shaped.failed = visible.failed
                  /\ IsRebuilding(shaped)
                BY <1>4, <4>1, <4>2 DEF IsRebuilding
            <4>4. QED
                BY <1>4, <4>2, <4>3 DEF Idle, AxesFields
        <3>2. CASE "aspect" \notin external
            <4> DEFINE entry == [ownership |-> IF visible.units["aspect"].ownership = "gerrytools_explicit"
                                               THEN visible.units["aspect"].ownership
                                               ELSE "gerrytools_default",
                                 last_applied |-> <<visible.a.aspect>>]
                       units == [visible.units EXCEPT !["aspect"] = entry]
            <4>1. shaped = [visible EXCEPT !.units = units]
                BY <3>2 DEF RecordDefault
            <4> HIDE DEF entry
            <4>2. AreUnits(units) /\ \A u \in Units \ {"aspect"} : units[u] = visible.units[u]
                BY <1>4 DEF IsRebuilding, AreUnits
            <4> HIDE DEF units, shaped
            <4>3. shaped.a = visible.a /\ shaped.units = units /\ shaped.failed = visible.failed
                  /\ IsRebuilding(shaped)
                BY <1>4, <4>1, <4>2 DEF IsRebuilding
            <4>4. QED
                BY <1>4, <4>2, <4>3 DEF Idle, Units, IsClaimed
        <3>3. QED
            BY <3>1, <3>2
    <2> HIDE DEF shaped
    <2>2. Told(shaped)
        BY <1>4, <2>1, ToldStays DEF Fields
    <2>3. QED
        BY <2>1, <2>2
<1> HIDE DEF shaped
<1>6. /\ Records(shaped, v, "limits") /\ Spares(shaped, v, {"limits", "auto"})
      /\ "limits" \in external => v = shaped
      /\ "limits" \notin external =>
             /\ v.units["limits"].last_applied = <<v.a.limits>>
             /\ IsClaimed(shaped.units, "limits") => IsClaimed(v.units, "limits")
             /\ p.limits # None => v.a.limits = LimitsAsked(p) /\ ~v.a.auto
             /\ p.limits = None => v.a = shaped.a
    BY <1>0, <1>5, LimitsStep
<1>7. Idle(shaped, v, "label") /\ Idle(shaped, v, "axis_visibility") /\ Begun(v)
    BY <1>5, <1>6 DEF Records, Spares, AxesFields, Units, Idle
<1>8. Told(v)
    BY <1>5, <1>7, ToldStays DEF Fields
<1>9. QED
    BY <1>6, <1>7, <1>8 DEF Holds

WantedBy(p) ==
    IF IsData(p) THEN {"limits", "ticks", "tick_style", "label", "frame", "legend"}
    ELSE {"limits", "label", "axis_visibility"}

\* The claims that a rebuild starts from: nothing of them is recorded, or it still shows.
Stand(kept, w, p) ==
    /\ kept \subseteq WantedBy(p)
    /\ "tick_style" \in kept => p.style # NoStyle
    /\ \A u \in kept : /\ IsClaimed(w.units, u)
                       /\ w.units[u].last_applied \in {NoLastApplied, ReadSnapshot(w.a)[u]}

LEMMA DetectionKeepsClaims ==
    ASSUME NEW w, IsRebuilding(w), ~w.failed, NEW b, b = BeginRebuild(w)
    PROVE  /\ IsRebuilding(b) /\ ~b.failed /\ b.hid = w.hid /\ Spares(w, b, {"drawn"})
           /\ \A u \in Units : IsClaimed(w.units, u)
                               /\ w.units[u].last_applied \in {NoLastApplied, ReadSnapshot(w.a)[u]} =>
                  b.units[u] = w.units[u] /\ u \notin External(b.units)
<1> DEFINE units == DetectExternalChanges(w.units, ReadSnapshot(w.a))
           a == [w.a EXCEPT !.drawn = Front(w.a.drawn)]
<1>1. /\ AreUnits(units)
      /\ \A u \in Units : IsClaimed(w.units, u)
                          /\ w.units[u].last_applied \in {NoLastApplied, ReadSnapshot(w.a)[u]} =>
             units[u] = w.units[u]
    BY DEF AreUnits, DetectExternalChanges, IsChanged
<1>2. IsShown(a) /\ \A f \in AxesFields \ {"drawn"} : a[f] = w.a[f]
    <2> DEFINE front == Front(w.a.drawn)
    <2> HIDE DEF front
    <2>1. LET z == [w.a EXCEPT !.drawn = front]
          IN  IsShown(z) /\ \A f \in AxesFields \ {"drawn"} : z[f] = w.a[f]
        BY DEF IsRebuilding, IsShown, AxesFields
    <2>2. QED
        BY <2>1 DEF front
<1>3. b = IF w.tracked THEN [w EXCEPT !.units = units, !.a = a, !.tracked = FALSE]
          ELSE [w EXCEPT !.units = units]
    BY DEF BeginRebuild, RemoveAll, IsRebuilding
<1> HIDE DEF units, a
<1>4. /\ b.units = units /\ ~b.failed /\ b.hid = w.hid /\ IsRebuilding(b)
      /\ Spares(w, b, {"drawn"})
    BY <1>1, <1>2, <1>3 DEF IsRebuilding, Spares
<1>5. QED
    BY <1>1, <1>4 DEF IsClaimed, External

\* The claims that stand hold after a rebuild that succeeds, and are recorded with what is on
\* the axes then.  One that fails has recorded those it has applied.
LEMMA RebuildTells ==
    ASSUME NEW w, IsRebuilding(w), ~w.failed, NEW p, TicksFit(p), IsLocator(w.a.ticks.at, p),
           p.show_axis \in BOOLEAN, NEW kept, Stand(kept, w, p), NEW v, v = Rebuild(w, p)
    PROVE  /\ IsRebuilding(v) /\ IsLocator(v.a.ticks.at, p)
           /\ \A u \in kept : IsClaimed(v.units, u)
           /\ v.failed => IsData(p) /\ (p.data = 0 \/ FailsTicks(p))
           /\ IsData(p) /\ p.data = 0 =>
                  /\ v.failed /\ Spares(w, v, {"drawn"})
                  /\ \A u \in kept : v.units[u] = w.units[u]
           /\ IsData(p) /\ FailsTicks(p) /\ "ticks" \in kept => v.failed
           /\ v.failed =>
                  /\ \A u \in kept \ {"limits", "ticks"} :
                         v.units[u].last_applied = <<v.a[u]>> \/ Idle(w, v, u)
                  /\ "ticks" \in kept => v.units["ticks"] = w.units["ticks"]
           /\ ~v.failed =>
                  \A u \in kept :
                      /\ Holds(p, v.a, u)
                      /\ \/ v.units[u].last_applied = ReadSnapshot(v.a)[u]
                         \/ MayWait(p, u) /\ Idle(w, v, u)
<1> DEFINE b == BeginRebuild(w)
           before == ReadSnapshot(w.a)
           external == External(b.units)
<1>1. /\ IsRebuilding(b) /\ ~b.failed /\ Spares(w, b, {"drawn"})
      /\ \A u \in Units : IsClaimed(w.units, u)
                          /\ w.units[u].last_applied \in {NoLastApplied, ReadSnapshot(w.a)[u]} =>
             b.units[u] = w.units[u] /\ u \notin External(b.units)
    <2>1. b = BeginRebuild(w)
        OBVIOUS
    <2> HIDE DEF b
    <2>2. QED
        BY <2>1, DetectionKeepsClaims
<1>2. v = IF IsData(p) THEN RebuiltData(b, p, before, external)
          ELSE RebuiltGeometry(b, p, before, external)
    BY Zenon DEF Rebuild, Rebuilt
<1> HIDE DEF b
<1>3. kept \subseteq WantedBy(p) /\ kept \subseteq Units
      /\ ("tick_style" \in kept => p.style # NoStyle)
    BY DEF Stand, WantedBy, Units
<1>4. ASSUME NEW u \in kept
      PROVE  b.units[u] = w.units[u] /\ u \notin external /\ IsClaimed(b.units, u)
    BY <1>1, <1>3 DEF Stand, IsClaimed
<1>5. b.a.ticks = w.a.ticks /\ \A u \in Fields : b.a[u] = w.a[u]
    BY <1>1 DEF Spares, AxesFields, Fields
<1> HIDE DEF external, before
<1>6. ASSUME NEW u \in kept \cap Fields, IsTold(b, v, p, u)
      PROVE  /\ IsClaimed(v.units, u) /\ Holds(p, v.a, u)
             /\ \/ v.units[u].last_applied = <<v.a[u]>>
                \/ MayWait(p, u) /\ Idle(w, v, u)
             /\ ReadSnapshot(v.a)[u] = <<v.a[u]>>
    <2>1. ReadSnapshot(v.a)[u] = <<v.a[u]>>
        BY SnapshotShows
    <2>2. QED
        BY <1>4, <1>5, <1>6, <2>1 DEF IsTold, Idle
<1>7. ReadSnapshot(v.a)["limits"] = <<v.a.limits>>
      /\ ReadSnapshot(v.a)["ticks"] = TicksWith(v.a, v.a.limits)
    BY SnapshotShows
<1>8. CASE IsData(p) /\ p.data = 0
    <2>1. v = [b EXCEPT !.failed = TRUE]
        BY <1>2, <1>8 DEF RebuiltData
    <2>2. /\ IsRebuilding(v) /\ v.failed /\ v.a = b.a /\ v.units = b.units
        BY <1>1, <2>1 DEF IsRebuilding
    <2>3. Spares(w, v, {"drawn"}) /\ \A u \in kept : v.units[u] = w.units[u] /\ IsClaimed(v.units, u)
        BY <1>1, <1>4, <2>2 DEF Spares
    <2>4. \A u \in kept \ {"limits", "ticks"} : Idle(w, v, u)
        BY <1>3, <1>5, <2>2, <2>3 DEF Idle, Fields, Units
    <2>5. IsLocator(v.a.ticks.at, p)
        BY <1>5, <2>2
    <2>6. QED
        BY <1>8, <2>2, <2>3, <2>4, <2>5
<1>9. CASE IsData(p) /\ p.data # 0
    <2>1. v = RebuiltData(b, p, before, external) /\ IsLocator(b.a.ticks.at, p)
        BY <1>2, <1>5, <1>9
    <2>2. /\ IsRebuilding(v) /\ IsLocator(v.a.ticks.at, p)
          /\ (v.failed <=> "ticks" \notin external /\ FailsTicks(p))
          /\ \A u \in {"frame", "label", "legend"} \ external :
                 IsClaimed(b.units, u) => IsTold(b, v, p, u)
          /\ IsClaimed(b.units, "limits") => IsClaimed(v.units, "limits")
          /\ v.failed => v.units["ticks"] = b.units["ticks"] /\ Idle(b, v, "tick_style")
          /\ ~v.failed =>
                 /\ "limits" \notin external => v.units["limits"].last_applied = <<v.a.limits>>
                                                /\ Holds(p, v.a, "limits")
                 /\ "ticks" \notin external /\ IsClaimed(b.units, "ticks") =>
                        /\ IsClaimed(v.units, "ticks") /\ Holds(p, v.a, "ticks")
                        /\ v.units["ticks"].last_applied = TicksWith(v.a, v.a.limits)
                 /\ "tick_style" \notin external /\ p.style # NoStyle
                        /\ IsClaimed(b.units, "tick_style") => IsTold(b, v, p, "tick_style")
        BY <1>1, <1>9, <2>1, DataTells
    <2>3. kept \subseteq {"limits", "ticks", "tick_style", "label", "frame", "legend"}
        BY <1>3, <1>9 DEF WantedBy
    <2>4. \A u \in kept \cap {"frame", "label", "legend"} : IsTold(b, v, p, u)
        BY <1>4, <2>2
    <2>5. ASSUME v.failed
          PROVE  /\ \A u \in kept : IsClaimed(v.units, u)
                 /\ \A u \in kept \ {"limits", "ticks"} :
                        v.units[u].last_applied = <<v.a[u]>> \/ Idle(w, v, u)
                 /\ "ticks" \in kept => v.units["ticks"] = w.units["ticks"]
        <3>1. "tick_style" \in kept => Idle(w, v, "tick_style") /\ IsClaimed(v.units, "tick_style")
            BY <1>4, <1>5, <2>2, <2>5 DEF Idle, Fields, IsClaimed
        <3>2. "ticks" \in kept => v.units["ticks"] = w.units["ticks"] /\ IsClaimed(v.units, "ticks")
            BY <1>4, <2>2, <2>5 DEF IsClaimed
        <3>3. \A u \in kept \cap {"frame", "label", "legend"} :
                  /\ IsClaimed(v.units, u)
                  /\ v.units[u].last_applied = <<v.a[u]>> \/ Idle(w, v, u)
            BY <1>6, <2>4 DEF Fields
        <3>4. "limits" \in kept => IsClaimed(v.units, "limits")
            BY <1>4, <2>2
        <3>5. QED
            BY <2>3, <3>1, <3>2, <3>3, <3>4
    <2>6. ASSUME ~v.failed, NEW u \in kept
          PROVE  /\ IsClaimed(v.units, u) /\ Holds(p, v.a, u)
                 /\ \/ v.units[u].last_applied = ReadSnapshot(v.a)[u]
                    \/ MayWait(p, u) /\ Idle(w, v, u)
        <3>1. CASE u \in {"frame", "label", "legend"}
            BY <1>6, <2>4, <3>1 DEF Fields
        <3>2. CASE u = "tick_style"
            <4>1. IsTold(b, v, p, "tick_style")
                BY <1>3, <1>4, <2>2, <2>6, <3>2
            <4>2. QED
                BY <1>6, <3>2, <4>1 DEF Fields
        <3>3. CASE u = "limits"
            BY <1>4, <1>7, <2>2, <2>6, <3>3
        <3>4. CASE u = "ticks"
            BY <1>4, <1>7, <2>2, <2>6, <3>4
        <3>5. QED
            BY <2>3, <3>1, <3>2, <3>3, <3>4
    <2>7. FailsTicks(p) /\ "ticks" \in kept => v.failed
        BY <1>4, <2>2
    <2>8. QED
        BY <1>9, <2>2, <2>5, <2>6, <2>7
<1>10. CASE ~IsData(p)
    <2>1. v = RebuiltGeometry(b, p, before, external)
        BY <1>2, <1>10
    <2>2. /\ IsRebuilding(v) /\ ~v.failed /\ v.a.ticks = b.a.ticks
          /\ \A u \in {"label", "axis_visibility"} \ external :
                 IsClaimed(b.units, u) => IsTold(b, v, p, u)
          /\ "limits" \notin external => v.units["limits"].last_applied = <<v.a.limits>>
                                         /\ Holds(p, v.a, "limits")
          /\ IsClaimed(b.units, "limits") => IsClaimed(v.units, "limits")
        BY <1>1, <2>1, GeometryTells
    <2>3. kept \subseteq {"limits", "label", "axis_visibility"}
        BY <1>3, <1>10 DEF WantedBy
    <2>4. ASSUME NEW u \in kept
          PROVE  /\ IsClaimed(v.units, u) /\ Holds(p, v.a, u)
                 /\ \/ v.units[u].last_applied = ReadSnapshot(v.a)[u]
                    \/ MayWait(p, u) /\ Idle(w, v, u)
        <3>1. CASE u \in {"label", "axis_visibility"}
            <4>1. IsTold(b, v, p, u)
                BY <1>4, <2>2, <3>1
            <4>2. QED
                BY <1>6, <3>1, <4>1 DEF Fields
        <3>2. CASE u = "limits"
            BY <1>4, <1>7, <2>2, <3>2
        <3>3. QED
            BY <2>3, <3>1, <3>2
    <2>5. IsLocator(v.a.ticks.at, p)
        BY <1>5, <2>2
    <2>6. QED
        BY <1>10, <2>2, <2>4, <2>5
<1>11. QED
    BY <1>8, <1>9, <1>10

(***************************************************************************)
(* What the plot has asked for                                             *)
(***************************************************************************)

PlotFields == {"kind", "limits", "ticks", "labels", "style", "text", "text_style", "frame",
               "legend", "show_axis", "far_lines", "data"}

AreSettings(p) ==
    /\ PlotFields \subseteq DOMAIN p
    /\ TicksFit(p) /\ p.show_axis \in BOOLEAN /\ p.data \in Nat

AreAxes(as, p) ==
    /\ as = [x \in Axes |-> as[x]]
    /\ \A x \in Axes : IsShown(as[x]) /\ IsLocator(as[x].ticks.at, p)

AreHistories(histories) ==
    /\ histories = [x \in Axes |-> histories[x]]
    /\ \A x \in Axes : histories[x] = <<>> \/ \E h : AreUnits(h) /\ histories[x] = <<h>>

IsGhost(g) ==
    /\ {"wants", "excused", "pending", "built", "callers", "seen"} \subseteq DOMAIN g
    /\ g.pending = [x \in Axes |-> g.pending[x]]
    /\ g.callers = [x \in Axes |-> g.callers[x]]
    /\ g.seen = [x \in Axes |-> g.seen[x]]
    /\ \A x \in Axes : /\ {"limits", "axis_visibility"} \subseteq DOMAIN g.seen[x]
                       /\ g.seen[x].axis_visibility \in BOOLEAN

\* What a unit is recorded with; default ticks with the limits that the last rebuild left.
Recording(a, u, limits) == IF u = "ticks" THEN TicksWith(a, limits) ELSE <<a[u]>>

\* The claims of a plot with settings p, on the axes x that it is bound to.
ClaimsTold(g, x, a, units, p) ==
    /\ g.excused \subseteq {"limits"}
    /\ g.wants \subseteq WantedBy(p)
    /\ "tick_style" \in g.wants => p.style # NoStyle
    /\ g.pending[x] \subseteq g.wants \ g.callers[x]
    /\ \A u \in g.wants \ g.excused : IsClaimed(units, u)
    /\ \A u \in g.pending[x] \ g.excused : units[u] = NoClaim
    /\ \A u \in g.wants \ (g.pending[x] \cup g.callers[x] \cup g.excused) :
           units[u].last_applied = Recording(a, u, g.seen[x].limits)
    /\ FailsTicks(p) => "ticks" \in g.pending[x]
    /\ "axis_visibility" \in g.wants \ g.pending[x] =>
           /\ units["axis_visibility"].last_applied = <<g.seen[x].axis_visibility>>
           /\ ("axis_visibility" \in g.callers[x]) <=> (a.axis_visibility # g.seen[x].axis_visibility)

\* The claims that were not recorded on the other axes when the plot left them.
LeftTold(g, x, histories, p) ==
    \A y \in Axes \ {x} :
        /\ g.pending[y] \subseteq WantedBy(p)
        /\ "tick_style" \in g.pending[y] => p.style # NoStyle
        /\ \A u \in g.pending[y] \ g.excused :
               histories[y] # <<>> /\ histories[y][1][u] = NoClaim

\* A plot that needs no update.
UpToDate(g, x, a, p) ==
    /\ \A u \in g.wants \ (g.callers[x] \cup g.excused) : Holds(p, a, u)
    /\ \A u \in g.pending[x] \ g.excused : MayWait(p, u)
    /\ "axis_visibility" \in g.wants \ g.pending[x] => g.seen[x].axis_visibility = p.show_axis

LEMMA UpdateTells ==
    ASSUME NEW rebound, NEW x \in Axes, NEW g, AfterUpdate(rebound, x, g),
           AreSettings(plot), IsGhost(g), AreAxes(rebound.axes, plot),
           AreHistories(rebound.histories),
           NEW w, w = rebound.work, IsRebuilding(w), ~w.failed,
           IsLocator(w.a.ticks.at, plot),
           axes[x].limits = w.a.limits, axes[x].ticks = w.a.ticks,
           ClaimsTold(g, x, w.a, w.units, plot), LeftTold(g, x, rebound.histories, plot)
    PROVE  /\ AreAxes(axes', plot) /\ IsGhost(ghost')
           /\ {"units", "hid", "histories"} \subseteq DOMAIN managed'
           /\ AreUnits(managed'.units) /\ AreHistories(managed'.histories)
           /\ ClaimsTold(ghost', x, axes'[x], managed'.units, plot)
           /\ LeftTold(ghost', x, managed'.histories, plot)
           /\ ~needs_update' => UpToDate(ghost', x, axes'[x], plot)
<1> DEFINE done == Rebuild(w, plot)
           moved == Moved(x, g)
           excused == IF done.failed /\ plot.data > 0 THEN {"limits"} ELSE g.excused
           wants == g.wants \ (g.callers[x] \cup moved)
           seen == IF done.failed THEN g.seen[x] ELSE Seen(done.a)
           pending == {u \in g.pending[x] : done.units[u].last_applied = NoLastApplied}
           kept == wants \ g.excused
<1>1. /\ axes' = [rebound.axes EXCEPT ![x] = done.a]
      /\ managed' = [units |-> done.units, hid |-> done.hid, histories |-> rebound.histories]
      /\ needs_update' = done.failed
      /\ ghost' = [g EXCEPT !.wants = wants, !.excused = excused,
                            !.built = @ \/ ~done.failed, !.seen[x] = seen, !.pending[x] = pending]
    BY DEF AfterUpdate
<1>2. AreSettings(plot) /\ TicksFit(plot) /\ plot.show_axis \in BOOLEAN /\ plot.data \in Nat
    BY DEF AreSettings
<1>3. moved = (IF IsDefaultLocator(w.a.ticks) /\ w.a.limits # g.seen[x].limits
                  /\ "ticks" \notin g.pending[x] THEN {"ticks"} ELSE {})
    BY DEF Moved
<1> HIDE DEF moved
<1>4. /\ g.excused \subseteq {"limits"} /\ g.wants \subseteq WantedBy(plot)
      /\ "tick_style" \in g.wants => plot.style # NoStyle
      /\ g.pending[x] \subseteq g.wants \ g.callers[x]
      /\ FailsTicks(plot) => "ticks" \in g.pending[x]
      /\ \A u \in g.wants \ g.excused : IsClaimed(w.units, u)
      /\ \A u \in g.pending[x] \ g.excused : w.units[u] = NoClaim
      /\ \A u \in g.wants \ (g.pending[x] \cup g.callers[x] \cup g.excused) :
             w.units[u].last_applied = Recording(w.a, u, g.seen[x].limits)
    BY DEF ClaimsTold
<1>5. WantedBy(plot) \subseteq Units /\ WantedBy(plot) \subseteq {"limits", "ticks"} \cup Fields
      /\ ("ticks" \in WantedBy(plot) => IsData(plot))
      /\ ("axis_visibility" \in WantedBy(plot) => ~IsData(plot))
    BY DEF WantedBy, Units, Fields
<1>6. \A a : /\ ReadSnapshot(a)["limits"] = <<a.limits>>
             /\ ReadSnapshot(a)["ticks"] = TicksWith(a, a.limits)
             /\ \A u \in Fields : ReadSnapshot(a)[u] = <<a[u]>>
             /\ \A u \in Units : ReadSnapshot(a)[u] # NoLastApplied
    BY SnapshotShows
<1>7. g.pending[x] \subseteq wants
    BY <1>3, <1>4
<1>8. ASSUME NEW u \in kept, u \notin g.pending[x]
      PROVE  w.units[u].last_applied = ReadSnapshot(w.a)[u]
    <2>1. w.units[u].last_applied = Recording(w.a, u, g.seen[x].limits)
        BY <1>4, <1>8
    <2>2. CASE u = "ticks"
        <3>1. TicksWith(w.a, g.seen[x].limits) = TicksWith(w.a, w.a.limits)
            BY <1>3, <1>8, <2>2 DEF TicksWith
        <3>2. QED
            BY <1>6, <2>1, <2>2, <3>1 DEF Recording
    <2>3. CASE u # "ticks"
        <3>1. u = "limits" \/ u \in Fields
            BY <1>4, <1>5, <2>3
        <3>2. QED
            BY <1>6, <2>1, <2>3, <3>1 DEF Recording
    <2>4. QED
        BY <2>2, <2>3
<1>9. Stand(kept, w, plot)
    <2>1. \A u \in kept \cap g.pending[x] : w.units[u].last_applied = NoLastApplied
        BY <1>4 DEF NoClaim
    <2>2. QED
        BY <1>4, <1>8, <2>1 DEF Stand
<1>10. done = Rebuild(w, plot)
    OBVIOUS
<1> HIDE DEF done, kept
<1>11. /\ IsRebuilding(done) /\ IsLocator(done.a.ticks.at, plot)
       /\ \A u \in kept : IsClaimed(done.units, u)
       /\ done.failed => IsData(plot) /\ (plot.data = 0 \/ FailsTicks(plot))
       /\ IsData(plot) /\ plot.data = 0 =>
              /\ done.failed /\ Spares(w, done, {"drawn"})
              /\ \A u \in kept : done.units[u] = w.units[u]
       /\ IsData(plot) /\ FailsTicks(plot) /\ "ticks" \in kept => done.failed
       /\ done.failed =>
              /\ \A u \in kept \ {"limits", "ticks"} :
                     done.units[u].last_applied = <<done.a[u]>> \/ Idle(w, done, u)
              /\ "ticks" \in kept => done.units["ticks"] = w.units["ticks"]
       /\ ~done.failed =>
              \A u \in kept :
                  /\ Holds(plot, done.a, u)
                  /\ \/ done.units[u].last_applied = ReadSnapshot(done.a)[u]
                     \/ MayWait(plot, u) /\ Idle(w, done, u)
    BY <1>2, <1>9, <1>10, RebuildTells
<1>12. kept = wants \ g.excused
    BY DEF kept
<1>13. /\ g.excused \subseteq excused /\ excused \subseteq {"limits"}
       /\ done.failed /\ plot.data # 0 => excused = {"limits"}
    BY <1>2, <1>4
<1>14. wants \ excused \subseteq kept /\ pending \subseteq g.pending[x]
    BY <1>12, <1>13
<1> HIDE DEF excused
\* A unit that is not recorded by the rebuild is as it was.
<1>15. ASSUME NEW u \in kept, u \in g.pending[x], done.units[u].last_applied = NoLastApplied,
              u \notin excused
       PROVE  done.units[u] = NoClaim
    <2>1. w.units[u] = NoClaim /\ u \in Units
        BY <1>4, <1>5, <1>12, <1>15
    <2>2. done.units[u] = w.units[u]
        <3>1. CASE done.failed /\ plot.data = 0
            BY <1>11, <1>15, <3>1
        <3>2. CASE done.failed /\ plot.data # 0
            BY <1>11, <1>13, <1>15, <3>2 DEF Idle, NoLastApplied
        <3>3. CASE ~done.failed
            BY <1>6, <1>11, <1>15, <2>1, <3>3 DEF Idle
        <3>4. QED
            BY <3>1, <3>2, <3>3
    <2>3. QED
        BY <2>1, <2>2
<1>16. ASSUME NEW u \in kept, u \notin pending, u \notin excused
       PROVE  done.units[u].last_applied = Recording(done.a, u, seen.limits)
    <2>1. u \in g.pending[x] => done.units[u].last_applied # NoLastApplied
        BY <1>16
    <2>2. u \in g.pending[x] => w.units[u].last_applied = NoLastApplied
        BY <1>4, <1>12, <1>16 DEF NoClaim
    <2>3. u \in {"limits", "ticks"} \cup Fields
        BY <1>4, <1>5, <1>12
    \* What the rebuild has left as it was had been recorded.
    <2>4. done.units[u] = w.units[u] => /\ u \notin g.pending[x]
                                        /\ w.units[u].last_applied = Recording(w.a, u, g.seen[x].limits)
        BY <1>4, <1>12, <1>16, <2>1, <2>2
    <2>5. CASE done.failed /\ plot.data = 0
        <3>1. IsData(plot) /\ done.units[u] = w.units[u] /\ Spares(w, done, {"drawn"})
            BY <1>11, <2>5
        <3>2. done.a[u] = w.a[u] /\ done.a.ticks = w.a.ticks
            BY <2>3, <3>1 DEF Spares, AxesFields, Fields
        <3>3. Recording(done.a, u, seen.limits) = Recording(w.a, u, g.seen[x].limits)
            BY <2>5, <3>2 DEF Recording, TicksWith
        <3>4. QED
            BY <2>4, <3>1, <3>3
    <2>6. CASE done.failed /\ plot.data # 0
        <3>1. u # "limits" /\ FailsTicks(plot)
            BY <1>11, <1>13, <1>16, <2>6
        <3>2. u # "ticks"
            <4>1. u = "ticks" => done.units[u] = w.units[u]
                BY <1>11, <2>6
            <4>2. QED
                BY <1>4, <2>4, <3>1, <4>1
        <3>3. done.units[u].last_applied = <<done.a[u]>> \/ Idle(w, done, u)
            BY <1>11, <2>6, <3>1, <3>2
        <3>4. QED
            BY <2>4, <3>2, <3>3 DEF Recording, Idle
    <2>7. CASE ~done.failed
        <3>1. seen.limits = done.a.limits
            BY <2>7 DEF Seen
        <3>2. ReadSnapshot(done.a)[u] = Recording(done.a, u, seen.limits)
            BY <1>6, <2>3, <3>1 DEF Recording, Fields
        <3>3. CASE done.units[u].last_applied = ReadSnapshot(done.a)[u]
            BY <3>2, <3>3
        <3>4. CASE MayWait(plot, u) /\ Idle(w, done, u)
            BY <2>4, <3>4 DEF MayWait, Idle, Recording
        <3>5. QED
            BY <1>11, <2>7, <3>3, <3>4
    <2>8. QED
        BY <2>5, <2>6, <2>7
<1>17. FailsTicks(plot) => "ticks" \in pending
    <2>1. SUFFICES ASSUME FailsTicks(plot) PROVE "ticks" \in pending
        OBVIOUS
    <2>2. "ticks" \in g.pending[x] /\ "ticks" \in kept /\ IsData(plot)
        BY <1>4, <1>5, <1>7, <1>12, <2>1
    <2>3. done.failed /\ done.units["ticks"] = w.units["ticks"]
        BY <1>11, <2>1, <2>2
    <2>4. w.units["ticks"] = NoClaim
        BY <1>4, <2>2
    <2>5. QED
        BY <2>2, <2>3, <2>4 DEF NoClaim
<1>18. "axis_visibility" \in wants =>
           /\ ~done.failed /\ "axis_visibility" \notin g.callers[x]
           /\ done.units["axis_visibility"].last_applied = <<seen.axis_visibility>>
           /\ seen.axis_visibility = done.a.axis_visibility
           /\ seen.axis_visibility = plot.show_axis
    <2>1. SUFFICES ASSUME "axis_visibility" \in wants
                   PROVE  /\ ~done.failed /\ "axis_visibility" \notin g.callers[x]
                          /\ done.units["axis_visibility"].last_applied = <<seen.axis_visibility>>
                          /\ seen.axis_visibility = done.a.axis_visibility
                          /\ seen.axis_visibility = plot.show_axis
        OBVIOUS
    <2>2. "axis_visibility" \in kept /\ ~IsData(plot)
        BY <1>4, <1>5, <1>12, <2>1
    <2>3. ~done.failed
        BY <1>11, <2>2
    <2>4. seen.axis_visibility = done.a.axis_visibility
        BY <2>3 DEF Seen
    <2>5. done.units["axis_visibility"].last_applied = ReadSnapshot(done.a)["axis_visibility"]
          /\ Holds(plot, done.a, "axis_visibility")
        BY <1>11, <2>2, <2>3 DEF MayWait
    <2>6. ReadSnapshot(done.a)["axis_visibility"] = <<done.a.axis_visibility>>
        BY <1>6 DEF Fields
    <2>7. QED
        BY <2>1, <2>3, <2>4, <2>5, <2>6 DEF Holds
<1> HIDE DEF pending, seen, wants
<1>19. /\ IsGhost(ghost') /\ ghost'.wants = wants /\ ghost'.excused = excused
       /\ ghost'.callers = g.callers /\ ghost'.pending[x] = pending /\ ghost'.seen[x] = seen
       /\ \A y \in Axes \ {x} : ghost'.pending[y] = g.pending[y]
    <2>1. {"limits", "axis_visibility"} \subseteq DOMAIN seen /\ seen.axis_visibility \in BOOLEAN
        BY <1>11 DEF seen, Seen, IsGhost, IsRebuilding, IsShown
    <2>2. QED
        BY <1>1, <2>1 DEF IsGhost
<1>20. AreAxes(axes', plot) /\ axes'[x] = done.a
    BY <1>1, <1>11 DEF AreAxes, IsRebuilding
<1>21. /\ managed'.units = done.units /\ managed'.histories = rebound.histories
       /\ {"units", "hid", "histories"} \subseteq DOMAIN managed'
       /\ AreUnits(managed'.units) /\ AreHistories(managed'.histories)
    BY <1>1, <1>11 DEF IsRebuilding
<1>22. ClaimsTold(ghost', x, done.a, done.units, plot)
    <2>1. ghost'.excused \subseteq {"limits"}
        BY <1>13, <1>19
    <2>2. /\ ghost'.wants \subseteq WantedBy(plot)
          /\ "tick_style" \in ghost'.wants => plot.style # NoStyle
        BY <1>4, <1>19 DEF wants
    <2>3. ghost'.pending[x] \subseteq ghost'.wants \ ghost'.callers[x]
        BY <1>4, <1>7, <1>14, <1>19
    <2>4. \A u \in ghost'.wants \ ghost'.excused : IsClaimed(done.units, u)
        BY <1>11, <1>14, <1>19
    <2>5. \A u \in ghost'.pending[x] \ ghost'.excused : done.units[u] = NoClaim
        BY <1>7, <1>12, <1>13, <1>15, <1>19 DEF pending
    <2>6. \A u \in ghost'.wants \ (ghost'.pending[x] \cup ghost'.callers[x] \cup ghost'.excused) :
              done.units[u].last_applied = Recording(done.a, u, ghost'.seen[x].limits)
        BY <1>14, <1>16, <1>19
    <2>7. "axis_visibility" \in ghost'.wants \ ghost'.pending[x] =>
              /\ done.units["axis_visibility"].last_applied = <<ghost'.seen[x].axis_visibility>>
              /\ ("axis_visibility" \in ghost'.callers[x])
                     <=> (done.a.axis_visibility # ghost'.seen[x].axis_visibility)
        BY <1>18, <1>19
    <2>8. FailsTicks(plot) => "ticks" \in ghost'.pending[x]
        BY <1>17, <1>19
    <2>9. QED
        BY <2>1, <2>2, <2>3, <2>4, <2>5, <2>6, <2>7, <2>8 DEF ClaimsTold
<1>23. LeftTold(ghost', x, rebound.histories, plot)
    BY <1>13, <1>19 DEF LeftTold
<1>24. ~done.failed => UpToDate(ghost', x, done.a, plot)
    <2>1. SUFFICES ASSUME ~done.failed PROVE UpToDate(ghost', x, done.a, plot)
        OBVIOUS
    <2>2. \A u \in ghost'.wants \ (ghost'.callers[x] \cup ghost'.excused) : Holds(plot, done.a, u)
        BY <1>11, <1>14, <1>19, <2>1
    <2>3. ASSUME NEW u \in ghost'.pending[x] \ ghost'.excused
          PROVE  MayWait(plot, u)
        <3>1. u \in kept /\ u \in Units /\ done.units[u].last_applied = NoLastApplied
            BY <1>4, <1>5, <1>7, <1>12, <1>13, <1>19, <2>3 DEF pending
        <3>2. QED
            BY <1>6, <1>11, <2>1, <3>1
    <2>4. "axis_visibility" \in ghost'.wants => ghost'.seen[x].axis_visibility = plot.show_axis
        BY <1>18, <1>19
    <2>5. QED
        BY <2>2, <2>3, <2>4 DEF UpToDate
<1>25. needs_update' = done.failed
    BY <1>1
<1>26. QED
    BY <1>19, <1>20, <1>21, <1>22, <1>23, <1>24, <1>25

(***************************************************************************)
(* The invariant, and what the setters keep of it                          *)
(***************************************************************************)

\* The plot is bound to an axes exactly while it lives.
PlaceTold ==
    /\ {"bound", "shared", "finalizer", "open", "made"} \subseteq DOMAIN figure
    /\ figure.made \in Nat /\ figure.bound \in Axes \cup {<<>>}
    /\ {"units", "settings", "direct", "binds"} \subseteq DOMAIN calls /\ calls.binds \in Nat
    /\ (figure.bound = <<>>) <=> (plot.kind = "none")
    /\ figure.bound # <<>> => figure.made <= calls.binds + 1

ClaimsInv ==
    /\ PlaceTold
    /\ AreSettings(plot) /\ IsGhost(ghost)
    /\ {"units", "hid", "histories"} \subseteq DOMAIN managed
    /\ AreUnits(managed.units) /\ AreHistories(managed.histories)
    /\ figure.bound # <<>> \/ figure.made = 0 => AreAxes(axes, plot)
    /\ figure.bound = <<>> =>
           /\ plot = NoPlot /\ ghost.wants = {} /\ ghost.excused = {}
           /\ \A x \in Axes : ghost.pending[x] = {}
    /\ figure.bound # <<>> =>
           /\ ClaimsTold(ghost, figure.bound, axes[figure.bound], managed.units, plot)
           /\ LeftTold(ghost, figure.bound, managed.histories, plot)
           /\ ~needs_update => UpToDate(ghost, figure.bound, axes[figure.bound], plot)

LEMMA ClaimsAreEnough ==
    ASSUME ClaimsInv
    PROVE  ExplicitSettingsHold
<1>1. SUFFICES ASSUME IsAlive, ~needs_update,
                      NEW u \in ghost.wants \ (ghost.callers[bound] \cup ghost.excused)
               PROVE  HoldsAsked(axes[bound], u)
    BY DEF ExplicitSettingsHold
<1>2. figure.bound # <<>> /\ bound = figure.bound
    BY <1>1 DEF IsAlive, bound
<1>3. UpToDate(ghost, figure.bound, axes[figure.bound], plot)
      /\ ClaimsTold(ghost, figure.bound, axes[figure.bound], managed.units, plot)
    BY <1>1, <1>2 DEF ClaimsInv
<1>4. Holds(plot, axes[bound], u) /\ u \in WantedBy(plot)
    BY <1>1, <1>2, <1>3 DEF UpToDate, ClaimsTold
<1>5. u \in Units
    BY <1>4 DEF WantedBy, Units
<1>6. QED
    BY <1>4, <1>5, HoldsIsAsked

\* Fresh axes are shown, with ticks that nobody has set.
LEMMA FreshIsShown ==
    ASSUME NEW p
    PROVE  IsShown(FreshAxes) /\ IsLocator(FreshAxes.ticks.at, p)
BY DEF IsShown, FreshAxes, IsLocator, AxesFields

LEMMA ClaimsInit ==
    ASSUME Init
    PROVE  ClaimsInv
<1>1. AreSettings(plot)
    BY DEF Init, NoPlot, AreSettings, PlotFields, TicksFit, None
<1>2. IsGhost(ghost)
    BY DEF Init, NoClaims, IsGhost, Seen, FreshAxes
<1>3. /\ {"units", "hid", "histories"} \subseteq DOMAIN managed
      /\ AreUnits(managed.units) /\ AreHistories(managed.histories)
    BY DEF Init, NothingManaged, Unclaimed, AreUnits, AreHistories
<1>4. AreAxes(axes, plot)
    BY FreshIsShown DEF Init, AreAxes
<1>5. PlaceTold
    BY DEF Init, PlaceTold, NoPlot
<1>6. QED
    BY <1>1, <1>2, <1>3, <1>4, <1>5 DEF Init, ClaimsInv, NoClaims

\* Of an axes, the claims are about the fields of the units only.
LEMMA OtherDrawing ==
    ASSUME NEW g, NEW x, NEW a, NEW units, NEW p, ClaimsTold(g, x, a, units, p),
           NEW b, \A f \in AxesFields \ {"drawn"} : b[f] = a[f]
    PROVE  ClaimsTold(g, x, b, units, p)
<1>1. b.axis_visibility = a.axis_visibility /\ b.ticks = a.ticks
      /\ \A u \in WantedBy(p) : b[u] = a[u]
    BY DEF AxesFields, WantedBy
<1>2. \A u, limits : u \in WantedBy(p) => Recording(b, u, limits) = Recording(a, u, limits)
    BY <1>1 DEF Recording, TicksWith
<1>3. g.wants \subseteq WantedBy(p)
    BY DEF ClaimsTold
<1>4. QED
    BY <1>1, <1>2, <1>3 DEF ClaimsTold

\* A setter claims a unit: at once with the value on the axes, or for the next rebuild.
LEMMA ClaimTells ==
    ASSUME ClaimsInv, NEW u, NEW settings, NEW a, NEW now \in BOOLEAN, Claims(u, settings, a, now),
           AreSettings(settings), settings.kind = plot.kind, u \in WantedBy(plot),
           settings.style = plot.style \/ settings.style # NoStyle,
           u = "tick_style" => settings.style # NoStyle,
           plot.ticks # None => settings.ticks # None,
           FailsTicks(settings) => FailsTicks(plot) \/ u = "ticks",
           IsShown(a), ~now => a = Here, now => u # "ticks", u = "axis_visibility" => now,
           \A f \in AxesFields \ {u, "auto"} : a[f] = Here[f]
    PROVE  ClaimsInv'
<1> DEFINE x == figure.bound
           value == IF now THEN ReadSnapshot(a)[u] ELSE NoLastApplied
           entry == [ownership |-> "gerrytools_explicit", last_applied |-> value]
           visible == IF u = "axis_visibility" THEN a.axis_visibility ELSE ghost.seen[x].axis_visibility
           pending == IF now THEN ghost.pending[x] \ {u} ELSE ghost.pending[x] \cup {u}
<1>1. x # <<>> /\ bound = x /\ x \in Axes /\ plot.kind # "none"
    BY DEF Claims, IsAlive, bound, ClaimsInv, PlaceTold
<1>2. /\ AreAxes(axes, plot) /\ IsGhost(ghost) /\ PlaceTold
      /\ AreUnits(managed.units) /\ AreHistories(managed.histories)
      /\ {"units", "hid", "histories"} \subseteq DOMAIN managed
      /\ ClaimsTold(ghost, x, axes[x], managed.units, plot)
      /\ LeftTold(ghost, x, managed.histories, plot)
    BY <1>1 DEF ClaimsInv
<1>3. /\ plot' = settings /\ axes' = [axes EXCEPT ![x] = a] /\ needs_update' = TRUE
      /\ managed' = [managed EXCEPT !.units = [managed.units EXCEPT ![u] = entry]]
      /\ ghost' = [ghost EXCEPT !.wants = @ \cup {u}, !.pending[x] = pending,
                                !.callers[x] = @ \ {u}, !.seen[x].axis_visibility = visible]
      /\ calls' = [calls EXCEPT !.settings = @ + 1, !.units = @ \cup {u}]
      /\ figure' = figure
    BY <1>1 DEF Claims, ReclaimAndMark, ReclaimWithoutValue
<1>4. u \in Units /\ WantedBy(plot) \subseteq Units /\ WantedBy(settings) = WantedBy(plot)
      /\ WantedBy(plot) \subseteq AxesFields \ {"auto"} /\ u \in AxesFields
    BY DEF WantedBy, IsData, Units, AxesFields
<1>5. Here = axes[x] /\ IsShown(axes[x])
    BY <1>1, <1>2 DEF Here, AreAxes
<1>6. /\ \A v \in WantedBy(plot) \ {u} : a[v] = axes[x][v]
      /\ a.ticks = axes[x].ticks
      /\ u # "axis_visibility" => a.axis_visibility = axes[x].axis_visibility
    BY <1>4, <1>5 DEF AxesFields
<1>7. visible \in BOOLEAN
    BY <1>1, <1>2 DEF IsGhost, IsShown
<1>8. now => value = <<a[u]>>
    <2>1. u = "limits" \/ u \in Fields \/ u = "ticks"
        BY DEF WantedBy, Fields
    <2>2. QED
        BY <2>1, SnapshotShows
<1> HIDE DEF value, visible, pending
<1>9. /\ ghost'.wants = ghost.wants \cup {u} /\ ghost'.excused = ghost.excused
      /\ ghost'.pending[x] = pending /\ ghost'.callers[x] = ghost.callers[x] \ {u}
      /\ ghost'.seen[x].limits = ghost.seen[x].limits /\ ghost'.seen[x].axis_visibility = visible
      /\ \A y \in Axes \ {x} : ghost'.pending[y] = ghost.pending[y]
      /\ IsGhost(ghost')
    BY <1>1, <1>2, <1>3, <1>7 DEF IsGhost
<1>10. /\ managed'.units[u] = entry /\ managed'.histories = managed.histories
       /\ \A v \in Units \ {u} : managed'.units[v] = managed.units[v]
       /\ AreUnits(managed'.units) /\ {"units", "hid", "histories"} \subseteq DOMAIN managed'
    <2> HIDE DEF entry
    <2>1. QED
        BY <1>2, <1>3, <1>4 DEF AreUnits
<1>11. axes'[x] = a /\ AreAxes(axes', settings)
    <2>1. \A at : IsLocator(at, plot) => IsLocator(at, settings)
        BY DEF IsLocator
    <2>2. IsLocator(a.ticks.at, settings)
        BY <1>1, <1>2, <1>6, <2>1 DEF AreAxes
    <2>3. QED
        BY <1>1, <1>2, <1>3, <2>1, <2>2 DEF AreAxes
<1>12. PlaceTold'
    BY <1>1, <1>2, <1>3 DEF PlaceTold
<1>13. /\ ghost.excused \subseteq {"limits"} /\ ghost.wants \subseteq WantedBy(plot)
       /\ "tick_style" \in ghost.wants => plot.style # NoStyle
       /\ ghost.pending[x] \subseteq ghost.wants \ ghost.callers[x]
       /\ FailsTicks(plot) => "ticks" \in ghost.pending[x]
       /\ \A v \in ghost.wants \ ghost.excused : IsClaimed(managed.units, v)
       /\ \A v \in ghost.pending[x] \ ghost.excused : managed.units[v] = NoClaim
       /\ \A v \in ghost.wants \ (ghost.pending[x] \cup ghost.callers[x] \cup ghost.excused) :
              managed.units[v].last_applied = Recording(axes[x], v, ghost.seen[x].limits)
       /\ "axis_visibility" \in ghost.wants \ ghost.pending[x] =>
              /\ managed.units["axis_visibility"].last_applied = <<ghost.seen[x].axis_visibility>>
              /\ ("axis_visibility" \in ghost.callers[x])
                     <=> (axes[x].axis_visibility # ghost.seen[x].axis_visibility)
    BY <1>2 DEF ClaimsTold
<1>14. ClaimsTold(ghost', x, a, managed'.units, settings)
    <2>1. ghost'.pending[x] \subseteq ghost'.wants \ ghost'.callers[x]
        BY <1>9, <1>13 DEF pending
    <2>2. /\ ghost'.wants \subseteq WantedBy(settings)
          /\ "tick_style" \in ghost'.wants => settings.style # NoStyle
        BY <1>4, <1>9, <1>13
    <2>3. \A v \in ghost'.wants \ ghost'.excused : IsClaimed(managed'.units, v)
        BY <1>4, <1>9, <1>10, <1>13 DEF IsClaimed
    <2>4. ASSUME NEW v \in ghost'.pending[x] \ ghost'.excused
          PROVE  managed'.units[v] = NoClaim
        <3>1. CASE v = u
            <4>1. ~now
                BY <1>9, <2>4, <3>1 DEF pending
            <4>2. QED
                BY <1>10, <3>1, <4>1 DEF NoClaim, value
        <3>2. CASE v # u
            BY <1>4, <1>9, <1>10, <1>13, <2>4, <3>2 DEF pending
        <3>3. QED
            BY <3>1, <3>2
    <2>5. ASSUME NEW v \in ghost'.wants \ (ghost'.pending[x] \cup ghost'.callers[x] \cup ghost'.excused)
          PROVE  managed'.units[v].last_applied = Recording(a, v, ghost'.seen[x].limits)
        <3>1. CASE v = u
            <4>1. now
                BY <1>9, <2>5, <3>1 DEF pending
            <4>2. QED
                BY <1>8, <1>10, <3>1, <4>1 DEF Recording
        <3>2. CASE v # u
            <4>1. v \in ghost.wants \ (ghost.pending[x] \cup ghost.callers[x] \cup ghost.excused)
                BY <1>9, <2>5, <3>2 DEF pending
            <4>2. managed'.units[v] = managed.units[v]
                BY <1>4, <1>10, <1>13, <3>2, <4>1
            <4>3. Recording(a, v, ghost.seen[x].limits) = Recording(axes[x], v, ghost.seen[x].limits)
                BY <1>6, <1>13, <3>2, <4>1 DEF Recording, TicksWith
            <4>4. QED
                BY <1>9, <1>13, <4>1, <4>2, <4>3
        <3>3. QED
            BY <3>1, <3>2
    <2>6. FailsTicks(settings) => "ticks" \in ghost'.pending[x]
        BY <1>9, <1>13 DEF pending
    <2>7. "axis_visibility" \in ghost'.wants \ ghost'.pending[x] =>
              /\ managed'.units["axis_visibility"].last_applied = <<ghost'.seen[x].axis_visibility>>
              /\ ("axis_visibility" \in ghost'.callers[x])
                     <=> (a.axis_visibility # ghost'.seen[x].axis_visibility)
        <3>1. CASE u = "axis_visibility"
            BY <1>8, <1>9, <1>10, <3>1 DEF visible
        <3>2. CASE u # "axis_visibility"
            <4>1. managed'.units["axis_visibility"] = managed.units["axis_visibility"]
                BY <1>10, <3>2 DEF Units
            <4>2. visible = ghost.seen[x].axis_visibility
                BY <3>2 DEF visible
            <4>3. QED
                BY <1>6, <1>9, <1>13, <3>2, <4>1, <4>2 DEF pending
        <3>3. QED
            BY <3>1, <3>2
    <2>8. QED
        BY <1>9, <1>13, <2>1, <2>2, <2>3, <2>4, <2>5, <2>6, <2>7 DEF ClaimsTold
<1>15. LeftTold(ghost', x, managed'.histories, settings)
    BY <1>2, <1>4, <1>9, <1>10 DEF LeftTold
<1>16. QED
    BY <1>1, <1>2, <1>3, <1>9, <1>10, <1>11, <1>12, <1>14, <1>15 DEF ClaimsInv

\* A call that claims nothing, or releases the limits.
LEMMA AddTells ==
    ASSUME ClaimsInv, NEW settings, NEW a, NEW units, NEW released, Adds(settings, a, units, released),
           AreSettings(settings), settings.kind = plot.kind, settings.style = plot.style,
           settings.ticks = plot.ticks, settings.labels = plot.labels, IsShown(a),
           released \subseteq {"limits"}, AreUnits(units),
           \A v \in Units \ released : units[v] = managed.units[v],
           \A f \in AxesFields \ (released \cup {"auto"}) : a[f] = Here[f]
    PROVE  ClaimsInv'
<1> DEFINE x == figure.bound
<1>1. x # <<>> /\ bound = x /\ x \in Axes /\ plot.kind # "none"
    BY DEF Adds, IsAlive, bound, ClaimsInv, PlaceTold
<1>2. /\ AreAxes(axes, plot) /\ IsGhost(ghost) /\ PlaceTold
      /\ AreUnits(managed.units) /\ AreHistories(managed.histories)
      /\ {"units", "hid", "histories"} \subseteq DOMAIN managed
      /\ ClaimsTold(ghost, x, axes[x], managed.units, plot)
      /\ LeftTold(ghost, x, managed.histories, plot)
    BY <1>1 DEF ClaimsInv
<1>3. /\ plot' = settings /\ axes' = [axes EXCEPT ![x] = a] /\ needs_update' = TRUE
      /\ managed' = [managed EXCEPT !.units = units]
      /\ ghost' = [ghost EXCEPT !.wants = @ \ released, !.callers[x] = @ \ released,
                                !.pending[x] = @ \ released]
      /\ figure' = figure
    BY <1>1 DEF Adds
<1>4. calls'.binds = calls.binds /\ {"units", "settings", "direct", "binds"} \subseteq DOMAIN calls'
    <2> DEFINE more == IF plot.data = 0 THEN calls.settings ELSE calls.settings + 1
    <2>1. calls' = [calls EXCEPT !.settings = more]
        BY DEF Adds
    <2> HIDE DEF more
    <2>2. QED
        BY <1>2, <2>1 DEF PlaceTold
<1>5. WantedBy(plot) \subseteq Units /\ WantedBy(settings) = WantedBy(plot)
      /\ WantedBy(plot) \subseteq AxesFields \ {"auto"}
    BY DEF WantedBy, IsData, Units, AxesFields
<1>6. Here = axes[x] /\ IsShown(axes[x])
    BY <1>1, <1>2 DEF Here, AreAxes
<1>7. /\ \A v \in WantedBy(plot) \ released : a[v] = axes[x][v]
      /\ a.ticks = axes[x].ticks /\ a.axis_visibility = axes[x].axis_visibility
    BY <1>5, <1>6 DEF AxesFields
<1>8. /\ ghost'.wants = ghost.wants \ released /\ ghost'.excused = ghost.excused
      /\ ghost'.pending[x] = ghost.pending[x] \ released
      /\ ghost'.callers[x] = ghost.callers[x] \ released
      /\ ghost'.seen[x] = ghost.seen[x]
      /\ \A y \in Axes \ {x} : ghost'.pending[y] = ghost.pending[y]
      /\ IsGhost(ghost')
    BY <1>1, <1>2, <1>3 DEF IsGhost
<1>9. /\ managed'.histories = managed.histories /\ managed'.units = units
      /\ {"units", "hid", "histories"} \subseteq DOMAIN managed'
    BY <1>2, <1>3
<1>10. axes'[x] = a /\ AreAxes(axes', settings)
    <2>1. \A at : IsLocator(at, plot) => IsLocator(at, settings)
        BY DEF IsLocator
    <2>2. IsLocator(a.ticks.at, settings)
        BY <1>1, <1>2, <1>7, <2>1 DEF AreAxes
    <2>3. QED
        BY <1>1, <1>2, <1>3, <2>1, <2>2 DEF AreAxes
<1>11. PlaceTold'
    BY <1>1, <1>2, <1>3, <1>4 DEF PlaceTold
<1>12. ClaimsTold(ghost', x, a, units, settings)
    <2>1. /\ ghost.excused \subseteq {"limits"} /\ ghost.wants \subseteq WantedBy(plot)
          /\ "tick_style" \in ghost.wants => plot.style # NoStyle
          /\ ghost.pending[x] \subseteq ghost.wants \ ghost.callers[x]
          /\ FailsTicks(plot) => "ticks" \in ghost.pending[x]
          /\ \A v \in ghost.wants \ ghost.excused : IsClaimed(managed.units, v)
          /\ \A v \in ghost.pending[x] \ ghost.excused : managed.units[v] = NoClaim
          /\ \A v \in ghost.wants \ (ghost.pending[x] \cup ghost.callers[x] \cup ghost.excused) :
                 managed.units[v].last_applied = Recording(axes[x], v, ghost.seen[x].limits)
          /\ "axis_visibility" \in ghost.wants \ ghost.pending[x] =>
                 /\ managed.units["axis_visibility"].last_applied = <<ghost.seen[x].axis_visibility>>
                 /\ ("axis_visibility" \in ghost.callers[x])
                        <=> (axes[x].axis_visibility # ghost.seen[x].axis_visibility)
        BY <1>2 DEF ClaimsTold
    <2>2. FailsTicks(settings) <=> FailsTicks(plot)
        BY DEF FailsTicks
    <2>3. \A v \in ghost'.wants : v \in ghost.wants /\ v \in Units \ released /\ units[v] = managed.units[v]
        BY <1>5, <1>8, <2>1
    <2>4. \A v \in ghost'.wants :
              Recording(a, v, ghost.seen[x].limits) = Recording(axes[x], v, ghost.seen[x].limits)
        BY <1>7, <1>8, <2>1 DEF Recording, TicksWith
    <2>5. units["axis_visibility"] = managed.units["axis_visibility"]
        BY DEF Units
    <2>6. \A v \in ghost'.wants \ ghost'.excused : IsClaimed(units, v)
        BY <1>8, <2>1, <2>3 DEF IsClaimed
    <2>7. \A v \in ghost'.pending[x] \ ghost'.excused : units[v] = NoClaim
        BY <1>8, <2>1, <2>3
    <2>8. \A v \in ghost'.wants \ (ghost'.pending[x] \cup ghost'.callers[x] \cup ghost'.excused) :
              units[v].last_applied = Recording(a, v, ghost'.seen[x].limits)
        BY <1>8, <2>1, <2>3, <2>4
    <2>9. "axis_visibility" \in ghost'.wants \ ghost'.pending[x] =>
              /\ units["axis_visibility"].last_applied = <<ghost'.seen[x].axis_visibility>>
              /\ ("axis_visibility" \in ghost'.callers[x])
                     <=> (a.axis_visibility # ghost'.seen[x].axis_visibility)
        BY <1>7, <1>8, <2>1, <2>5
    <2>10. QED
        BY <1>5, <1>8, <2>1, <2>2, <2>6, <2>7, <2>8, <2>9 DEF ClaimsTold
<1>13. LeftTold(ghost', x, managed'.histories, settings)
    BY <1>2, <1>5, <1>8, <1>9 DEF LeftTold
<1>14. QED
    BY <1>1, <1>2, <1>3, <1>8, <1>9, <1>10, <1>11, <1>12, <1>13 DEF ClaimsInv

\* Settings with the ticks, the labels and the style of before.
KeepsTicks(settings) ==
    /\ AreSettings(settings) /\ settings.kind = plot.kind /\ settings.style = plot.style
    /\ settings.ticks = plot.ticks /\ settings.labels = plot.labels

LEMMA HereIsShown ==
    ASSUME ClaimsInv, IsAlive
    PROVE  IsShown(Here) /\ AreSettings(plot)
BY DEF ClaimsInv, PlaceTold, IsAlive, bound, Here, AreAxes

LEMMA ClaimsWithTicksKept ==
    ASSUME ClaimsInv, NEW u, NEW settings, NEW a, NEW now \in BOOLEAN, Claims(u, settings, a, now),
           KeepsTicks(settings), u \in WantedBy(plot) \ {"ticks", "tick_style"},
           u = "axis_visibility" => now, IsShown(a), ~now => a = Here,
           \A f \in AxesFields \ {u, "auto"} : a[f] = Here[f]
    PROVE  ClaimsInv'
<1>1. /\ AreSettings(settings) /\ settings.kind = plot.kind /\ settings.style = plot.style
      /\ settings.ticks = plot.ticks /\ settings.labels = plot.labels
    BY DEF KeepsTicks
<1>2. u \in WantedBy(plot) /\ u # "ticks" /\ u # "tick_style"
    OBVIOUS
<1>3. FailsTicks(settings) => FailsTicks(plot)
    BY <1>1 DEF FailsTicks
<1>4. QED
    BY <1>1, <1>2, <1>3, ClaimTells

\* What is not given stays; the lengths agree, or the call is refused.
LEMMA TicksAreResolved ==
    ASSUME AreSettings(plot), NEW locations \in TickCounts \cup {None},
           NEW labels \in TickCounts \cup {None}, <<locations, labels>> # <<None, None>>,
           NEW resolved, resolved = ResolveTickLabelUpdate(plot, locations, labels),
           resolved.ticks # None /\ resolved.labels \notin {None, 0} => resolved.ticks = resolved.labels,
           NEW s, s = [plot EXCEPT !.ticks = resolved.ticks, !.labels = resolved.labels]
    PROVE  AreSettings(s) /\ s.kind = plot.kind /\ s.style = plot.style
           /\ (plot.ticks # None => s.ticks # None)
<1>1. /\ locations \in Nat \cup {None} /\ labels \in Nat \cup {None}
      /\ plot.ticks \in Nat \cup {None} /\ plot.labels \in Nat \cup {None}
    BY AxesAssumption DEF AreSettings, TicksFit
<1> DEFINE kept == IF plot.ticks = 0 /\ plot.labels = 0 THEN None ELSE plot.labels
<1>2. resolved = CASE locations # None /\ labels # None -> [ticks |-> locations, labels |-> labels]
                   [] locations = 0 /\ labels = None -> [ticks |-> 0, labels |-> 0]
                   [] locations \notin {None, 0} /\ labels = None -> [ticks |-> locations, labels |-> kept]
                   [] OTHER -> [ticks |-> plot.ticks, labels |-> labels]
    BY DEF ResolveTickLabelUpdate
<1>3. kept \in Nat \cup {None}
    BY <1>1
<1> HIDE DEF kept
<1>4. /\ resolved.ticks \in Nat \cup {None} /\ resolved.labels \in Nat \cup {None}
      /\ plot.ticks # None => resolved.ticks # None
    <2>1. CASE locations # None /\ labels # None
        <3>1. locations # None /\ labels # None /\ ~(locations = 0 /\ labels = None)
              /\ ~(locations \notin {None, 0} /\ labels = None)
            BY <2>1
        <3>2. resolved = [ticks |-> locations, labels |-> labels]
            BY <1>2, <3>1, Zenon
        <3>3. QED
            BY <1>1, <2>1, <3>2
    <2>2. CASE locations = 0 /\ labels = None
        <3>1. /\ ~(locations # None /\ labels # None) /\ (locations = 0 /\ labels = None)
              /\ ~(locations \notin {None, 0} /\ labels = None)
            BY <2>2
        <3>2. resolved = [ticks |-> 0, labels |-> 0]
            BY <1>2, <3>1, Zenon
        <3>3. QED
            BY <3>2 DEF None
    <2>3. CASE locations \notin {None, 0} /\ labels = None
        <3>1. /\ ~(locations # None /\ labels # None) /\ ~(locations = 0 /\ labels = None)
              /\ locations \notin {None, 0} /\ labels = None
            BY <2>3
        <3>2. resolved = [ticks |-> locations, labels |-> kept]
            BY <1>2, <3>1, Zenon
        <3>3. QED
            BY <1>1, <1>3, <2>3, <3>2
    <2>4. CASE locations = None
        <3>1. /\ ~(locations # None /\ labels # None) /\ ~(locations = 0 /\ labels = None)
              /\ ~(locations \notin {None, 0} /\ labels = None)
            BY <2>4 DEF None
        <3>2. resolved = [ticks |-> plot.ticks, labels |-> labels]
            BY <1>2, <3>1, Zenon
        <3>3. QED
            BY <1>1, <3>2
    <2>5. QED
        BY <2>1, <2>2, <2>3, <2>4
<1>5. s.ticks = resolved.ticks /\ s.labels = resolved.labels
      /\ \A f \in PlotFields \ {"ticks", "labels"} : s[f] = plot[f]
      /\ PlotFields \subseteq DOMAIN s
    BY DEF AreSettings, PlotFields
<1>6. TicksFit(s)
    BY <1>4, <1>5 DEF TicksFit
<1>7. /\ s.kind = plot.kind /\ s.style = plot.style /\ s.show_axis = plot.show_axis
      /\ s.data = plot.data
    BY <1>5 DEF PlotFields
<1>8. QED
    BY <1>4, <1>5, <1>6, <1>7 DEF AreSettings

LEMMA SettersKeepClaims ==
    ASSUME ClaimsInv, Setting
    PROVE  ClaimsInv'
<1>1. WantedBy(plot) = IF IsData(plot) THEN {"limits", "ticks", "tick_style", "label", "frame", "legend"}
                       ELSE {"limits", "label", "axis_visibility"}
    BY DEF WantedBy
<1>2. CASE SetLim
    <2> DEFINE settings == [plot EXCEPT !.limits = 1]
               limits == LimitsAsked(settings)
               a == WithLimits(Here, limits)
    <2>1. Claims("limits", settings, a, TRUE)
        BY <1>2 DEF SetLim
    <2>2. IsShown(Here) /\ AreSettings(plot)
        BY <2>1, HereIsShown DEF Claims
    <2>3. KeepsTicks(settings)
        BY <2>2 DEF KeepsTicks, AreSettings, PlotFields, TicksFit
    <2> HIDE DEF limits, settings
    <2>4. IsShown(a) /\ \A f \in AxesFields \ {"limits", "auto"} : a[f] = Here[f]
        BY <2>2 DEF WithLimits, IsShown, AxesFields
    <2> HIDE DEF a
    <2>5. QED
        BY <1>1, <2>1, <2>3, <2>4, ClaimsWithTicksKept
<1>3. CASE SetTicks
    <2>1. PICK locations \in TickCounts \cup {None}, labels \in TickCounts \cup {None} :
              LET resolved == ResolveTickLabelUpdate(plot, locations, labels)
              IN  /\ IsData(plot) /\ <<locations, labels>> # <<None, None>>
                  /\ resolved.ticks # None /\ resolved.labels \notin {None, 0} =>
                         resolved.ticks = resolved.labels
                  /\ Claims("ticks", [plot EXCEPT !.ticks = resolved.ticks, !.labels = resolved.labels],
                            Here, FALSE)
        BY <1>3 DEF SetTicks
    <2> DEFINE resolved == ResolveTickLabelUpdate(plot, locations, labels)
    <2>2. /\ IsData(plot) /\ <<locations, labels>> # <<None, None>>
          /\ resolved.ticks # None /\ resolved.labels \notin {None, 0} =>
                 resolved.ticks = resolved.labels
          /\ Claims("ticks", [plot EXCEPT !.ticks = resolved.ticks, !.labels = resolved.labels],
                    Here, FALSE)
        BY <2>1
    <2>3. resolved = ResolveTickLabelUpdate(plot, locations, labels)
        OBVIOUS
    <2> HIDE DEF resolved
    <2> DEFINE settings == [plot EXCEPT !.ticks = resolved.ticks, !.labels = resolved.labels]
    <2>4. IsShown(Here) /\ AreSettings(plot)
        BY <2>2, HereIsShown DEF Claims
    <2>5. settings = [plot EXCEPT !.ticks = resolved.ticks, !.labels = resolved.labels]
        OBVIOUS
    <2>6. Claims("ticks", settings, Here, FALSE)
        BY <2>2
    <2> HIDE DEF settings
    <2>7. AreSettings(settings) /\ settings.kind = plot.kind /\ settings.style = plot.style
          /\ (plot.ticks # None => settings.ticks # None)
        BY <2>2, <2>3, <2>4, <2>5, TicksAreResolved
    <2>8. QED
        BY <1>1, <2>2, <2>4, <2>6, <2>7, ClaimTells
<1>4. CASE SetTickStyle
    <2> DEFINE settings == [plot EXCEPT !.style = "plot"]
    <2>1. Claims("tick_style", settings, Here, FALSE) /\ IsData(plot)
        BY <1>4 DEF SetTickStyle
    <2>2. IsShown(Here) /\ AreSettings(plot)
        BY <2>1, HereIsShown DEF Claims
    <2>3. AreSettings(settings) /\ settings.kind = plot.kind /\ settings.style # NoStyle
          /\ settings.ticks = plot.ticks /\ settings.labels = plot.labels
        BY <2>2 DEF AreSettings, PlotFields, TicksFit, NoStyle
    <2> HIDE DEF settings
    <2>4. FailsTicks(settings) => FailsTicks(plot)
        BY <2>3 DEF FailsTicks
    <2>5. QED
        BY <1>1, <2>1, <2>2, <2>3, <2>4, ClaimTells
<1>5. CASE SetText
    <2>1. PICK text \in {"", "plot"} :
              Claims("label", [plot EXCEPT !.text = text],
                     [Here EXCEPT !.label = TextAsked([plot EXCEPT !.text = text])], TRUE)
        BY <1>5 DEF SetText
    <2> DEFINE settings == [plot EXCEPT !.text = text]
               asked == TextAsked(settings)
               a == [Here EXCEPT !.label = asked]
    <2>2. Claims("label", settings, a, TRUE)
        BY <2>1
    <2>3. IsShown(Here) /\ AreSettings(plot)
        BY <2>2, HereIsShown DEF Claims
    <2>4. KeepsTicks(settings)
        BY <2>3 DEF KeepsTicks, AreSettings, PlotFields, TicksFit
    <2> HIDE DEF asked, settings
    <2>5. IsShown(a) /\ \A f \in AxesFields \ {"label", "auto"} : a[f] = Here[f]
        BY <2>3 DEF IsShown, AxesFields
    <2> HIDE DEF a
    <2>6. QED
        BY <1>1, <2>2, <2>4, <2>5, ClaimsWithTicksKept
<1>6. CASE SetTextStyle
    <2>1. PICK styled \in BOOLEAN :
              \/ Claims("label", [plot EXCEPT !.text_style = styled],
                        [Here EXCEPT !.label = TextAsked([plot EXCEPT !.text_style = styled])], TRUE)
              \/ Claims("label", [plot EXCEPT !.text_style = styled], Here, FALSE)
        BY <1>6 DEF SetTextStyle
    <2> DEFINE settings == [plot EXCEPT !.text_style = styled]
               asked == TextAsked(settings)
               a == [Here EXCEPT !.label = asked]
    <2>2. Claims("label", settings, a, TRUE) \/ Claims("label", settings, Here, FALSE)
        BY <2>1
    <2>3. IsShown(Here) /\ AreSettings(plot)
        BY <2>2, HereIsShown DEF Claims
    <2>4. KeepsTicks(settings)
        BY <2>3 DEF KeepsTicks, AreSettings, PlotFields, TicksFit
    <2> HIDE DEF asked, settings
    <2>5. IsShown(a) /\ \A f \in AxesFields \ {"label", "auto"} : a[f] = Here[f]
        BY <2>3 DEF IsShown, AxesFields
    <2> HIDE DEF a
    <2>6. CASE Claims("label", settings, a, TRUE)
        BY <1>1, <2>4, <2>5, <2>6, ClaimsWithTicksKept
    <2>7. CASE Claims("label", settings, Here, FALSE)
        BY <1>1, <2>3, <2>4, <2>7, ClaimsWithTicksKept
    <2>8. QED
        BY <2>2, <2>6, <2>7
<1>7. CASE SetFrameVisibility
    <2>1. PICK frame \in {"fresh", "plot"} :
              IsData(plot) /\
              Claims("frame", [plot EXCEPT !.frame = frame], [Here EXCEPT !.frame = frame], TRUE)
        BY <1>7 DEF SetFrameVisibility
    <2> DEFINE settings == [plot EXCEPT !.frame = frame]
               a == [Here EXCEPT !.frame = frame]
    <2>2. Claims("frame", settings, a, TRUE) /\ IsData(plot)
        BY <2>1
    <2>3. IsShown(Here) /\ AreSettings(plot)
        BY <2>2, HereIsShown DEF Claims
    <2>4. KeepsTicks(settings)
        BY <2>3 DEF KeepsTicks, AreSettings, PlotFields, TicksFit
    <2>5. IsShown(a) /\ \A f \in AxesFields \ {"frame", "auto"} : a[f] = Here[f]
        BY <2>3 DEF IsShown, AxesFields
    <2> HIDE DEF a, settings
    <2>6. QED
        BY <1>1, <2>2, <2>4, <2>5, ClaimsWithTicksKept
<1>8. CASE SetLegend
    <2>1. PICK legend \in BOOLEAN :
              IsData(plot) /\ Claims("legend", [plot EXCEPT !.legend = legend], Here, FALSE)
        BY <1>8 DEF SetLegend
    <2> DEFINE settings == [plot EXCEPT !.legend = legend]
    <2>2. Claims("legend", settings, Here, FALSE) /\ IsData(plot)
        BY <2>1
    <2>3. IsShown(Here) /\ AreSettings(plot)
        BY <2>2, HereIsShown DEF Claims
    <2>4. KeepsTicks(settings)
        BY <2>3 DEF KeepsTicks, AreSettings, PlotFields, TicksFit
    <2> HIDE DEF settings
    <2>5. QED
        BY <1>1, <2>2, <2>3, <2>4, ClaimsWithTicksKept
<1>9. CASE SetShowAxis
    <2>1. PICK show_axis \in BOOLEAN :
              plot.kind = "geometry" /\
              Claims("axis_visibility", [plot EXCEPT !.show_axis = show_axis],
                     [Here EXCEPT !.axis_visibility = show_axis], TRUE)
        BY <1>9 DEF SetShowAxis
    <2> DEFINE settings == [plot EXCEPT !.show_axis = show_axis]
               a == [Here EXCEPT !.axis_visibility = show_axis]
    <2>2. Claims("axis_visibility", settings, a, TRUE) /\ ~IsData(plot)
        BY <2>1 DEF IsData
    <2>3. IsShown(Here) /\ AreSettings(plot)
        BY <2>2, HereIsShown DEF Claims
    <2>4. KeepsTicks(settings)
        BY <2>3 DEF KeepsTicks, AreSettings, PlotFields, TicksFit
    <2>5. IsShown(a) /\ \A f \in AxesFields \ {"axis_visibility", "auto"} : a[f] = Here[f]
        BY <2>3 DEF IsShown, AxesFields
    <2> HIDE DEF a, settings
    <2>6. QED
        BY <1>1, <2>2, <2>4, <2>5, ClaimsWithTicksKept
<1>10. CASE AddUnnamed
    <2>1. PICK settings \in {[plot EXCEPT !.data = @ + 1], [plot EXCEPT !.far_lines = TRUE]} :
              Adds(settings, Here, managed.units, {})
        BY <1>10 DEF AddUnnamed
    <2>2. IsShown(Here) /\ AreSettings(plot)
        BY <2>1, HereIsShown DEF Adds
    <2>3. KeepsTicks(settings)
        <3>1. plot.data + 1 \in Nat
            BY <2>2 DEF AreSettings
        <3>2. KeepsTicks([plot EXCEPT !.data = plot.data + 1])
            BY <2>2, <3>1 DEF KeepsTicks, AreSettings, PlotFields, TicksFit
        <3>3. KeepsTicks([plot EXCEPT !.far_lines = TRUE])
            BY <2>2 DEF KeepsTicks, AreSettings, PlotFields, TicksFit
        <3>4. QED
            BY <3>2, <3>3
    <2>4. AreUnits(managed.units)
        BY DEF ClaimsInv
    <2>5. QED
        BY <2>1, <2>2, <2>3, <2>4, AddTells DEF KeepsTicks
<1>11. CASE AddNamed
    <2> DEFINE settings == [plot EXCEPT !.data = @ + 1]
    <2>1. Claims("legend", settings, Here, FALSE) /\ IsData(plot)
        BY <1>11 DEF AddNamed
    <2>2. IsShown(Here) /\ AreSettings(plot)
        BY <2>1, HereIsShown DEF Claims
    <2>3. plot.data + 1 \in Nat
        BY <2>2 DEF AreSettings
    <2>4. KeepsTicks(settings)
        BY <2>2, <2>3 DEF KeepsTicks, AreSettings, PlotFields, TicksFit
    <2> HIDE DEF settings
    <2>5. QED
        BY <1>1, <2>1, <2>2, <2>4, ClaimsWithTicksKept
<1> DEFINE UnlimitedPlot == [plot EXCEPT !.limits = None]
<1>12. ASSUME AreSettings(plot) PROVE KeepsTicks(UnlimitedPlot)
    BY <1>12 DEF KeepsTicks, AreSettings, PlotFields, TicksFit
<1>13. ASSUME NEW a
       PROVE  AreUnits(Released(a)) /\ \A v \in Units \ {"limits"} : Released(a)[v] = managed.units[v]
    <2> DEFINE entry == [ownership |-> "gerrytools_default", last_applied |-> ReadSnapshot(a)["limits"]]
    <2>1. Released(a) = [managed.units EXCEPT !["limits"] = entry]
        BY DEF Released, Release
    <2> HIDE DEF entry
    <2>2. QED
        BY <2>1 DEF ClaimsInv, AreUnits
<1>14. CASE ClearLimits
    <2> DEFINE shown == IF Here.drawn = <<>> THEN 0 ELSE Here.drawn[Len(Here.drawn)]
               limits == <<"data", shown, FALSE>>
               a == [Here EXCEPT !.auto = TRUE, !.limits = limits]
    <2>1. Adds(UnlimitedPlot, a, Released(a), {"limits"})
        BY <1>14 DEF ClearLimits
    <2> HIDE DEF limits
    <2>2. IsShown(Here) /\ KeepsTicks(UnlimitedPlot)
        BY <1>12, <2>1, HereIsShown DEF Adds
    <2>3. IsShown(a) /\ \A f \in AxesFields \ {"limits", "auto"} : a[f] = Here[f]
        BY <2>2 DEF IsShown, AxesFields
    <2> HIDE DEF a, UnlimitedPlot
    <2>4. AreUnits(Released(a)) /\ \A v \in Units \ {"limits"} : Released(a)[v] = managed.units[v]
        BY <1>13
    <2>5. QED
        BY <2>1, <2>2, <2>3, <2>4, AddTells DEF KeepsTicks
<1>15. CASE SetTargetCRS
    <2> DEFINE a == [Here EXCEPT !.auto = TRUE]
    <2>1. Adds(UnlimitedPlot, a, Released(a), {"limits"})
        BY <1>15 DEF SetTargetCRS
    <2>2. IsShown(Here) /\ KeepsTicks(UnlimitedPlot)
        BY <1>12, <2>1, HereIsShown DEF Adds
    <2>3. IsShown(a) /\ \A f \in AxesFields \ {"limits", "auto"} : a[f] = Here[f]
        BY <2>2 DEF IsShown, AxesFields
    <2> HIDE DEF a, UnlimitedPlot
    <2>4. AreUnits(Released(a)) /\ \A v \in Units \ {"limits"} : Released(a)[v] = managed.units[v]
        BY <1>13
    <2>5. QED
        BY <2>1, <2>2, <2>3, <2>4, AddTells DEF KeepsTicks
<1>16. CASE Refuse
    <2> DEFINE more == calls.settings + 1
    <2>1. /\ UNCHANGED <<axes, plot, managed, registry, figure, ghost>> /\ needs_update' = TRUE
          /\ calls' = [calls EXCEPT !.settings = more]
        BY <1>16 DEF Refuse
    <2> HIDE DEF more
    <2>2. PlaceTold'
        <3>1. PlaceTold
            BY DEF ClaimsInv
        <3>2. calls'.binds = calls.binds /\ {"units", "settings", "direct", "binds"} \subseteq DOMAIN calls'
            BY <2>1, <3>1 DEF PlaceTold
        <3>3. QED
            BY <2>1, <3>1, <3>2 DEF PlaceTold
    <2>3. QED
        BY <2>1, <2>2 DEF ClaimsInv
<1>17. QED
    BY <1>2, <1>3, <1>4, <1>5, <1>6, <1>7, <1>8, <1>9, <1>10, <1>11, <1>14, <1>15, <1>16 DEF Setting

(***************************************************************************)
(* The plot is made and collected, and the caller's own hand               *)
(***************************************************************************)

\* The axes that a plot is attached to are those given, or on one more figure.
LEMMA AttachedTold ==
    ASSUME PlaceTold, NEW x \in Axes \cup {<<>>}, x = <<>> => figure.made <= MaxBinds,
           NEW f, f = AttachAxes(figure, x)
    PROVE  /\ {"bound", "shared", "finalizer", "open", "made"} \subseteq DOMAIN f
           /\ f.made = IF x = <<>> THEN figure.made + 1 ELSE figure.made
           /\ f.bound \in Axes /\ f.bound # <<>>
           /\ f.bound = IF x = <<>> THEN <<figure.made + 1, "main">> ELSE x
<1> DEFINE others == figure.open \ {FigureOf(figure.bound)}
           left == IF Leaves(figure, x) THEN [figure EXCEPT !.open = others, !.finalizer = 0]
                   ELSE figure
           held == left.open \cup {figure.made + 1}
<1>1. \A y \in Axes : y # <<>>
    BY DEF Axes
<1>2. CASE x = <<>>
    <2>1. f = [bound |-> <<figure.made + 1, "main">>, shared |-> FALSE, finalizer |-> figure.made + 1,
               open |-> held, made |-> figure.made + 1]
        BY <1>2 DEF AttachAxes
    <2> HIDE DEF held
    <2>2. figure.made + 1 \in Figures /\ "main" \in OwnPanels
        BY <1>2, AxesAssumption DEF PlaceTold, Figures
    <2>3. <<figure.made + 1, "main">> \in Figures \X OwnPanels
        BY <2>2
    <2>4. <<figure.made + 1, "main">> \in Axes
        BY <2>3 DEF Axes
    <2>5. QED
        BY <1>1, <1>2, <2>1, <2>4
<1>3. CASE x # <<>>
    <2>1. f = IF IsOwned(figure) /\ FigureOf(x) = FigureOf(figure.bound) THEN [left EXCEPT !.bound = x]
              ELSE [left EXCEPT !.bound = x, !.shared = TRUE, !.finalizer = 0]
        BY <1>3 DEF AttachAxes
    <2> HIDE DEF others
    <2>2. {"bound", "shared", "finalizer", "open", "made"} \subseteq DOMAIN left
          /\ left.made = figure.made
        BY DEF PlaceTold
    <2> HIDE DEF left
    <2>3. QED
        BY <1>1, <1>3, <2>1, <2>2
<1>4. QED
    BY <1>2, <1>3

LEMMA UnitsAreInitialized ==
    ASSUME NEW units, NEW a
    PROVE  /\ AreUnits(InitializeFromAx(units, a))
           /\ \A u \in Units : IsClaimed(units, u) => InitializeFromAx(units, a)[u] = units[u]
BY DEF AreUnits, InitializeFromAx, IsClaimed

LEMMA ConstructTells ==
    ASSUME ClaimsInv, Construct
    PROVE  ClaimsInv'
<1>1. PICK kind \in Kinds, y \in {<<>>} \cup ({CallersFigure} \X CallerPanels) :
          /\ plot.kind = "none" /\ figure.made = 0
          /\ plot' = [plot EXCEPT !.kind = kind, !.data = IF kind = "geometry" THEN 1 ELSE 0]
          /\ figure' = AttachAxes(figure, y)
          /\ managed' = [managed EXCEPT !.units = InitializeFromAx(@, axes[figure'.bound])]
          /\ needs_update' = TRUE
          /\ UNCHANGED <<axes, registry, ghost, calls>>
    BY DEF Construct
<1>2. /\ figure.bound = <<>> /\ PlaceTold /\ plot = NoPlot /\ IsGhost(ghost)
      /\ AreAxes(axes, plot) /\ ghost.wants = {} /\ ghost.excused = {}
      /\ \A x \in Axes : ghost.pending[x] = {}
      /\ {"units", "hid", "histories"} \subseteq DOMAIN managed /\ AreHistories(managed.histories)
    BY <1>1 DEF ClaimsInv, PlaceTold
<1>3. y \in Axes \cup {<<>>} /\ figure.made <= MaxBinds
    BY <1>1, AxesAssumption DEF Axes
<1>4. /\ {"bound", "shared", "finalizer", "open", "made"} \subseteq DOMAIN figure'
      /\ figure'.made \in {0, 1} /\ figure'.bound \in Axes /\ figure'.bound # <<>>
    <2> DEFINE f == figure'
    <2>1. f = AttachAxes(figure, y)
        BY <1>1
    <2> HIDE DEF f
    <2>2. /\ {"bound", "shared", "finalizer", "open", "made"} \subseteq DOMAIN f
          /\ f.made = (IF y = <<>> THEN figure.made + 1 ELSE figure.made)
          /\ f.bound \in Axes /\ f.bound # <<>>
        BY <1>2, <1>3, <2>1, AttachedTold
    <2>3. QED
        BY <1>1, <2>2 DEF f
<1>5. kind # "none"
    BY AxesAssumption
<1>6. /\ AreSettings(plot') /\ plot'.kind = kind /\ plot'.labels = None
    BY <1>1, <1>2 DEF NoPlot, AreSettings, PlotFields, TicksFit
<1>7. PlaceTold'
    BY <1>1, <1>2, <1>4, <1>5, <1>6 DEF PlaceTold
<1>8. AreAxes(axes', plot')
    <2>1. \A at : IsLocator(at, plot) => IsLocator(at, plot')
        BY <1>2 DEF NoPlot, IsLocator, None
    <2>2. QED
        BY <1>1, <1>2, <2>1 DEF AreAxes
<1>9. /\ {"units", "hid", "histories"} \subseteq DOMAIN managed'
      /\ AreUnits(managed'.units) /\ managed'.histories = managed.histories
    <2> DEFINE units == InitializeFromAx(managed.units, axes[figure'.bound])
    <2>1. AreUnits(units) /\ managed' = [managed EXCEPT !.units = units]
        BY <1>1, UnitsAreInitialized
    <2> HIDE DEF units
    <2>2. QED
        BY <1>2, <2>1
<1>10. ~FailsTicks(plot')
    BY <1>6 DEF FailsTicks
<1>11. ghost' = ghost /\ needs_update' = TRUE
    BY <1>1
<1>12. ClaimsTold(ghost', figure'.bound, axes'[figure'.bound], managed'.units, plot')
    BY <1>2, <1>4, <1>10, <1>11 DEF ClaimsTold
<1>13. LeftTold(ghost', figure'.bound, managed'.histories, plot')
    BY <1>2, <1>11 DEF LeftTold
<1>14. QED
    BY <1>2, <1>4, <1>6, <1>7, <1>8, <1>9, <1>11, <1>12, <1>13 DEF ClaimsInv

LEMMA CollectTells ==
    ASSUME ClaimsInv, Collect
    PROVE  ClaimsInv'
<1> DEFINE held == figure.open \ ({figure.finalizer} \ {CallersFigure})
<1>1. /\ figure' = [figure EXCEPT !.open = held, !.bound = <<>>, !.shared = TRUE, !.finalizer = 0,
                                 !.made = MaxBinds + 1]
      /\ plot' = NoPlot /\ managed' = NothingManaged /\ ghost' = NoClaims /\ calls' = calls
    BY DEF Collect
<1> HIDE DEF held
<1>2. MaxBinds + 1 \in Nat /\ MaxBinds + 1 # 0
    BY AxesAssumption
<1>3. /\ {"bound", "shared", "finalizer", "open", "made"} \subseteq DOMAIN figure'
      /\ figure'.made = MaxBinds + 1 /\ figure'.bound = <<>>
    BY <1>1 DEF ClaimsInv, PlaceTold
<1>4. PlaceTold'
    BY <1>1, <1>2, <1>3 DEF ClaimsInv, PlaceTold, NoPlot
<1>5. AreSettings(NoPlot)
    BY DEF NoPlot, AreSettings, PlotFields, TicksFit, None
<1>6. IsGhost(NoClaims) /\ NoClaims.wants = {} /\ NoClaims.excused = {}
      /\ \A x \in Axes : NoClaims.pending[x] = {}
    BY DEF NoClaims, IsGhost, Seen, FreshAxes
<1>7. /\ {"units", "hid", "histories"} \subseteq DOMAIN NothingManaged
      /\ AreUnits(NothingManaged.units) /\ AreHistories(NothingManaged.histories)
    BY DEF NothingManaged, Unclaimed, AreUnits, AreHistories
<1>8. QED
    BY <1>1, <1>2, <1>3, <1>4, <1>5, <1>6, <1>7 DEF ClaimsInv

\* What the caller sets through Matplotlib.
LEMMA CallersAxesAre ==
    ASSUME NEW b, IsShown(b), NEW u \in Units, NEW a, a = CallersAxes(b, u)
    PROVE  /\ IsShown(a) /\ \A f \in AxesFields \ {u, "auto"} : a[f] = b[f]
           /\ u = "ticks" => a.ticks.at = <<"caller">>
           /\ u = "legend" => a.legend = "caller"
           /\ u = "axis_visibility" => (a.axis_visibility <=> ~b.axis_visibility)
<1>1. CASE u = "limits"
    <2>1. a = WithLimits(b, <<"caller", 0, FALSE>>)
        BY <1>1 DEF CallersAxes
    <2>2. QED
        BY <1>1, <2>1 DEF WithLimits, IsShown, AxesFields
<1>2. CASE u = "ticks"
    <2> DEFINE ticks == [at |-> <<"caller">>, text |-> "caller", hidden |-> FALSE]
    <2>1. a = [b EXCEPT !.ticks = ticks]
        BY <1>2, u # "limits", Zenon DEF CallersAxes
    <2>2. {"at", "text", "hidden"} \subseteq DOMAIN ticks /\ ticks.at = <<"caller">>
        OBVIOUS
    <2> HIDE DEF ticks
    <2>3. QED
        BY <1>2, <2>1, <2>2 DEF IsShown, AxesFields
<1>3. CASE u = "axis_visibility"
    <2>1. a = [b EXCEPT !.axis_visibility = ~@]
        BY <1>3, u # "limits", u # "ticks", Zenon DEF CallersAxes
    <2>2. QED
        BY <1>3, <2>1 DEF IsShown, AxesFields
<1>4. CASE u \notin {"limits", "ticks", "axis_visibility"}
    <2>1. u # "limits" /\ u # "ticks" /\ u # "axis_visibility" /\ u \in AxesFields /\ u # "auto"
        BY <1>4 DEF Units, AxesFields
    <2>2. a = [b EXCEPT ![u] = "caller"]
        BY <2>1, Zenon DEF CallersAxes
    <2>3. QED
        BY <2>1, <2>2 DEF IsShown, AxesFields
<1>5. QED
    BY <1>1, <1>2, <1>3, <1>4

\* A change of the caller's to the axes the plot is bound to, which is or is not taken for the
\* caller's.
LEMMA ChangeIsTold ==
    ASSUME NEW g, NEW x, NEW b, IsShown(b), NEW u \in Units, NEW a, IsShown(a),
           \A f \in AxesFields \ {u, "auto"} : a[f] = b[f],
           u = "legend" => a.legend = "caller",
           u = "axis_visibility" => (a.axis_visibility <=> ~b.axis_visibility),
           NEW units, NEW p, ClaimsTold(g, x, b, units, p), g.seen[x].axis_visibility \in BOOLEAN,
           NEW h, h.wants = g.wants, h.excused = g.excused, h.pending[x] = g.pending[x],
           h.seen[x] = g.seen[x],
           h.callers[x] = IF u = "axis_visibility" /\ b.axis_visibility # g.seen[x].axis_visibility
                          THEN g.callers[x] \ {u}
                          ELSE IF u \notin g.pending[x] /\ (g.built \/ u \in g.wants)
                          THEN g.callers[x] \cup {u} ELSE g.callers[x]
    PROVE  /\ ClaimsTold(h, x, a, units, p)
           /\ UpToDate(g, x, b, p) => UpToDate(h, x, a, p)
<1> DEFINE back == u = "axis_visibility" /\ b.axis_visibility # g.seen[x].axis_visibility
           recorded == g.wants \ (g.pending[x] \cup g.callers[x] \cup g.excused)
<1>1. /\ g.excused \subseteq {"limits"} /\ g.wants \subseteq WantedBy(p)
      /\ "tick_style" \in g.wants => p.style # NoStyle
      /\ g.pending[x] \subseteq g.wants \ g.callers[x]
      /\ FailsTicks(p) => "ticks" \in g.pending[x]
      /\ \A v \in g.wants \ g.excused : IsClaimed(units, v)
      /\ \A v \in g.pending[x] \ g.excused : units[v] = NoClaim
      /\ \A v \in recorded : units[v].last_applied = Recording(b, v, g.seen[x].limits)
      /\ "axis_visibility" \in g.wants \ g.pending[x] =>
             /\ units["axis_visibility"].last_applied = <<g.seen[x].axis_visibility>>
             /\ ("axis_visibility" \in g.callers[x]) <=> (b.axis_visibility # g.seen[x].axis_visibility)
    BY DEF ClaimsTold
<1>2. WantedBy(p) \subseteq AxesFields \ {"auto"} /\ WantedBy(p) \subseteq Units
    BY DEF WantedBy, AxesFields, Units
<1>3. /\ \A v \in g.wants \ {u} : a[v] = b[v]
      /\ u # "ticks" => a.ticks = b.ticks
      /\ u # "axis_visibility" => a.axis_visibility = b.axis_visibility
    BY <1>1, <1>2 DEF AxesFields
<1>4. a.axis_visibility \in BOOLEAN /\ b.axis_visibility \in BOOLEAN
    BY DEF IsShown
\* A unit that is wanted and was recorded is the caller's now, or shows again what it did.
<1>5. /\ \A v \in g.wants \ {u} : v \in h.callers[x] <=> v \in g.callers[x]
      /\ u \in g.wants /\ u \notin g.pending[x] /\ u \notin h.callers[x] =>
             u = "axis_visibility" /\ a.axis_visibility = g.seen[x].axis_visibility
      /\ u \in g.pending[x] => u \notin h.callers[x]
    BY <1>1, <1>4
<1>6. h.pending[x] \subseteq h.wants \ h.callers[x]
    BY <1>1, <1>5
<1>7. \A v, limits : v \in g.wants \ {u} => Recording(a, v, limits) = Recording(b, v, limits)
    BY <1>3 DEF Recording, TicksWith
<1>8. ASSUME NEW v \in h.wants \ (h.pending[x] \cup h.callers[x] \cup h.excused)
      PROVE  units[v].last_applied = Recording(a, v, h.seen[x].limits)
    <2>1. CASE v = u
        <3>1. u = "axis_visibility" /\ a.axis_visibility = g.seen[x].axis_visibility
              /\ "axis_visibility" \in g.wants \ g.pending[x]
            BY <1>5, <1>8, <2>1
        <3>2. units[v].last_applied = <<a.axis_visibility>>
            BY <1>1, <2>1, <3>1
        <3>3. Recording(a, v, h.seen[x].limits) = <<a.axis_visibility>>
            BY <2>1, <3>1 DEF Recording
        <3>4. QED
            BY <3>2, <3>3
    <2>2. CASE v # u
        <3>1. v \in recorded /\ v \in g.wants \ {u}
            BY <1>5, <1>8, <2>2
        <3>2. QED
            BY <1>1, <1>7, <3>1
    <2>3. QED
        BY <2>1, <2>2
<1>9. "axis_visibility" \in h.wants \ h.pending[x] =>
          /\ units["axis_visibility"].last_applied = <<h.seen[x].axis_visibility>>
          /\ ("axis_visibility" \in h.callers[x]) <=> (a.axis_visibility # h.seen[x].axis_visibility)
    <2>1. SUFFICES ASSUME "axis_visibility" \in g.wants \ g.pending[x]
                   PROVE  ("axis_visibility" \in h.callers[x])
                              <=> (a.axis_visibility # g.seen[x].axis_visibility)
        BY <1>1
    <2>2. CASE u = "axis_visibility"
        BY <1>4, <2>1, <2>2
    <2>3. CASE u # "axis_visibility"
        BY <1>1, <1>3, <1>5, <2>1, <2>3
    <2>4. QED
        BY <2>2, <2>3
<1>10. ClaimsTold(h, x, a, units, p)
    BY <1>1, <1>6, <1>8, <1>9 DEF ClaimsTold
<1>11. ASSUME UpToDate(g, x, b, p)
       PROVE  UpToDate(h, x, a, p)
    <2>1. /\ \A v \in g.wants \ (g.callers[x] \cup g.excused) : Holds(p, b, v)
          /\ \A v \in g.pending[x] \ g.excused : MayWait(p, v)
          /\ "axis_visibility" \in g.wants \ g.pending[x] => g.seen[x].axis_visibility = p.show_axis
        BY <1>11 DEF UpToDate
    <2>2. ASSUME NEW v \in h.wants \ (h.callers[x] \cup h.excused)
          PROVE  Holds(p, a, v)
        <3>1. CASE v # u
            <4>1. Holds(p, b, v) /\ a[v] = b[v]
                BY <1>3, <1>5, <2>1, <2>2, <3>1
            <4>2. QED
                BY <4>1 DEF Holds
        <3>2. CASE v = u /\ u \in g.pending[x]
            <4>1. MayWait(p, u)
                BY <2>1, <2>2, <3>2
            <4>2. QED
                BY <3>2, <4>1 DEF MayWait, Holds
        <3>3. CASE v = u /\ u \notin g.pending[x]
            <4>1. u = "axis_visibility" /\ a.axis_visibility = g.seen[x].axis_visibility
                BY <1>5, <2>2, <3>3
            <4>2. a.axis_visibility = p.show_axis
                BY <2>1, <2>2, <3>3, <4>1
            <4>3. QED
                BY <3>3, <4>1, <4>2 DEF Holds
        <3>4. QED
            BY <3>1, <3>2, <3>3
    <2>3. QED
        BY <2>1, <2>2 DEF UpToDate
<1>12. QED
    BY <1>10, <1>11

LEMMA ChangeDirectlyTells ==
    ASSUME ClaimsInv, ChangeDirectly
    PROVE  ClaimsInv'
<1>1. PICK x \in Axes, u \in Units :
          /\ plot.kind # "none" \/ figure.made = 0
          /\ axes' = [axes EXCEPT ![x] = CallersAxes(axes[x], u)]
          /\ ghost' = [ghost EXCEPT !.callers[x] = IF IsTakenBack(x, u) THEN @ \ {u}
                                                   ELSE IF IsTaken(x, u) THEN @ \cup {u} ELSE @]
          /\ calls' = [calls EXCEPT !.direct = @ + 1, !.units = @ \cup {u}]
          /\ UNCHANGED <<plot, managed, registry, figure, needs_update>>
    BY DEF ChangeDirectly
<1> DEFINE a == CallersAxes(axes[x], u)
           callers == IF IsTakenBack(x, u) THEN ghost.callers[x] \ {u}
                      ELSE IF IsTaken(x, u) THEN ghost.callers[x] \cup {u} ELSE ghost.callers[x]
<1>2. AreAxes(axes, plot) /\ PlaceTold /\ IsGhost(ghost)
    BY <1>1 DEF ClaimsInv, PlaceTold
<1>3. a = CallersAxes(axes[x], u) /\ IsShown(axes[x])
    BY <1>2 DEF AreAxes
<1>4. /\ axes' = [axes EXCEPT ![x] = a]
      /\ ghost' = [ghost EXCEPT !.callers[x] = callers]
      /\ plot' = plot /\ managed' = managed /\ figure' = figure /\ needs_update' = needs_update
    BY <1>1
<1> HIDE DEF a, callers
<1>5. /\ IsShown(a) /\ \A f \in AxesFields \ {u, "auto"} : a[f] = axes[x][f]
      /\ u = "ticks" => a.ticks.at = <<"caller">>
      /\ u = "legend" => a.legend = "caller"
      /\ u = "axis_visibility" => (a.axis_visibility <=> ~axes[x].axis_visibility)
    BY <1>3, CallersAxesAre
<1>6. AreAxes(axes', plot)
    <2>1. IsLocator(a.ticks.at, plot)
        <3>1. CASE u = "ticks"
            BY <1>5, <3>1 DEF IsLocator
        <3>2. CASE u # "ticks"
            <4>1. a.ticks = axes[x].ticks
                BY <1>5, <3>2 DEF AxesFields
            <4>2. QED
                BY <1>2, <4>1 DEF AreAxes
        <3>3. QED
            BY <3>1, <3>2
    <2>2. QED
        BY <1>2, <1>4, <1>5, <2>1 DEF AreAxes
<1>7. /\ IsGhost(ghost') /\ ghost'.wants = ghost.wants /\ ghost'.excused = ghost.excused
      /\ ghost'.pending = ghost.pending /\ ghost'.seen = ghost.seen
      /\ ghost'.callers[x] = callers
      /\ \A y \in Axes \ {x} : ghost'.callers[y] = ghost.callers[y]
    BY <1>2, <1>4 DEF IsGhost
<1>8. PlaceTold'
    <2> DEFINE units == calls.units \cup {u}
               direct == calls.direct + 1
    <2>1. calls' = [calls EXCEPT !.direct = direct, !.units = units]
        BY <1>1
    <2> HIDE DEF units, direct
    <2>2. calls'.binds = calls.binds /\ {"units", "settings", "direct", "binds"} \subseteq DOMAIN calls'
        BY <1>2, <2>1 DEF PlaceTold
    <2>3. QED
        BY <1>2, <1>4, <2>2 DEF PlaceTold
<1>9. ASSUME figure.bound # <<>>
      PROVE  /\ ClaimsTold(ghost', figure.bound, axes'[figure.bound], managed.units, plot)
             /\ LeftTold(ghost', figure.bound, managed.histories, plot)
             /\ ~needs_update => UpToDate(ghost', figure.bound, axes'[figure.bound], plot)
    <2>1. /\ figure.bound \in Axes
          /\ ClaimsTold(ghost, figure.bound, axes[figure.bound], managed.units, plot)
          /\ LeftTold(ghost, figure.bound, managed.histories, plot)
          /\ ~needs_update => UpToDate(ghost, figure.bound, axes[figure.bound], plot)
        BY <1>9 DEF ClaimsInv, PlaceTold
    <2>2. LeftTold(ghost', figure.bound, managed.histories, plot)
        BY <1>7, <2>1 DEF LeftTold
    <2>3. CASE x = figure.bound
        <3>1. callers = IF u = "axis_visibility" /\ axes[x].axis_visibility # ghost.seen[x].axis_visibility
                        THEN ghost.callers[x] \ {u}
                        ELSE IF u \notin ghost.pending[x] /\ (ghost.built \/ u \in ghost.wants)
                        THEN ghost.callers[x] \cup {u} ELSE ghost.callers[x]
            BY <2>3 DEF callers, IsTakenBack, IsTaken, bound
        <3>2. ghost.seen[x].axis_visibility \in BOOLEAN
            BY <1>2 DEF IsGhost
        <3>3. axes'[x] = a
            BY <1>2, <1>4 DEF AreAxes
        <3> DEFINE h == ghost'
                   units == managed.units
                   b == axes[x]
        <3>4. /\ h.wants = ghost.wants /\ h.excused = ghost.excused
              /\ h.pending[x] = ghost.pending[x] /\ h.seen[x] = ghost.seen[x]
              /\ h.callers[x] = IF u = "axis_visibility" /\ b.axis_visibility # ghost.seen[x].axis_visibility
                                THEN ghost.callers[x] \ {u}
                                ELSE IF u \notin ghost.pending[x] /\ (ghost.built \/ u \in ghost.wants)
                                THEN ghost.callers[x] \cup {u} ELSE ghost.callers[x]
            BY <1>7, <3>1
        <3>5. /\ ClaimsTold(ghost, x, b, units, plot) /\ IsShown(b)
              /\ \A f \in AxesFields \ {u, "auto"} : a[f] = b[f]
              /\ u = "axis_visibility" => (a.axis_visibility <=> ~b.axis_visibility)
            BY <1>3, <1>5, <2>1, <2>3
        <3> HIDE DEF h, units, b
        <3>6. /\ ClaimsTold(h, x, a, units, plot)
              /\ UpToDate(ghost, x, b, plot) => UpToDate(h, x, a, plot)
            BY <1>5, <3>2, <3>4, <3>5, ChangeIsTold
        <3>7. QED
            BY <2>1, <2>2, <2>3, <3>3, <3>6 DEF h, units, b
    <2>4. CASE x # figure.bound
        <3>1. axes'[figure.bound] = axes[figure.bound]
            BY <1>4, <2>4
        <3>2. /\ ghost'.pending[figure.bound] = ghost.pending[figure.bound]
              /\ ghost'.seen[figure.bound] = ghost.seen[figure.bound]
              /\ ghost'.callers[figure.bound] = ghost.callers[figure.bound]
            BY <1>7, <2>1, <2>4
        <3>3. QED
            BY <1>7, <2>1, <2>2, <3>1, <3>2 DEF ClaimsTold, UpToDate
    <2>5. QED
        BY <2>3, <2>4
<1>10. ASSUME figure.bound = <<>>
       PROVE  /\ plot = NoPlot /\ ghost'.wants = {} /\ ghost'.excused = {}
              /\ \A y \in Axes : ghost'.pending[y] = {}
    BY <1>7, <1>10 DEF ClaimsInv
<1>11. QED
    BY <1>4, <1>6, <1>7, <1>8, <1>9, <1>10 DEF ClaimsInv

(***************************************************************************)
(* Updates, and the axes the plot is bound to                              *)
(***************************************************************************)

\* A rebuild on the axes the plot is bound to afterwards.
LEMMA UpdateKeepsClaims ==
    ASSUME ClaimsInv, figure.bound # <<>>, plot' = plot, PlaceTold',
           NEW x \in Axes, figure'.bound = x, NEW rebound, NEW g, AfterUpdate(rebound, x, g),
           IsGhost(g), AreAxes(rebound.axes, plot), AreHistories(rebound.histories),
           NEW w, w = rebound.work, IsRebuilding(w), ~w.failed, IsLocator(w.a.ticks.at, plot),
           axes[x].limits = w.a.limits, axes[x].ticks = w.a.ticks,
           ClaimsTold(g, x, w.a, w.units, plot), LeftTold(g, x, rebound.histories, plot)
    PROVE  ClaimsInv'
<1>1. AreSettings(plot) /\ x # <<>>
    <2>1. \A y \in Axes : y # <<>>
        BY DEF Axes
    <2>2. QED
        BY <2>1 DEF ClaimsInv
<1>2. /\ AreAxes(axes', plot) /\ IsGhost(ghost')
      /\ {"units", "hid", "histories"} \subseteq DOMAIN managed'
      /\ AreUnits(managed'.units) /\ AreHistories(managed'.histories)
      /\ ClaimsTold(ghost', x, axes'[x], managed'.units, plot)
      /\ LeftTold(ghost', x, managed'.histories, plot)
      /\ ~needs_update' => UpToDate(ghost', x, axes'[x], plot)
    BY <1>1, UpdateTells
<1>3. QED
    BY <1>1, <1>2 DEF ClaimsInv

\* What a plot that lives starts from.
LEMMA BoundIsTold ==
    ASSUME ClaimsInv, IsAlive
    PROVE  /\ bound = figure.bound /\ figure.bound # <<>> /\ bound \in Axes
           /\ PlaceTold /\ AreAxes(axes, plot) /\ AreSettings(plot) /\ IsGhost(ghost)
           /\ AreUnits(managed.units) /\ AreHistories(managed.histories)
           /\ ClaimsTold(ghost, bound, axes[bound], managed.units, plot)
           /\ LeftTold(ghost, bound, managed.histories, plot)
           /\ figure.made \in Nat /\ calls.binds \in Nat /\ figure.made <= calls.binds + 1
BY DEF ClaimsInv, PlaceTold, IsAlive, bound

LEMMA WorkIsRebuilding ==
    ASSUME NEW x, IsShown(axes[x]), NEW units, AreUnits(units), NEW tracked,
           NEW w, w = Work(x, units, tracked)
    PROVE  /\ IsRebuilding(w) /\ ~w.failed /\ w.a = axes[x] /\ w.units = units
BY DEF Work, IsRebuilding

LEMMA RemovalSpares ==
    ASSUME NEW w, IsRebuilding(w), NEW v, v = RemoveAll(w)
    PROVE  /\ IsRebuilding(v) /\ v.units = w.units /\ (v.failed <=> w.failed)
           /\ \A f \in AxesFields \ {"drawn"} : v.a[f] = w.a[f]
<1> DEFINE front == Front(w.a.drawn)
           a == [w.a EXCEPT !.drawn = front]
<1>1. v = IF w.tracked THEN [w EXCEPT !.a = a, !.tracked = FALSE] ELSE w
    BY DEF RemoveAll, IsRebuilding
<1> HIDE DEF front
<1>2. IsShown(a) /\ \A f \in AxesFields \ {"drawn"} : a[f] = w.a[f]
    BY DEF IsRebuilding, IsShown, AxesFields
<1> HIDE DEF a
<1>3. QED
    BY <1>1, <1>2 DEF IsRebuilding

LEMMA CurrentIs ==
    /\ Current.work = Work(bound, managed.units, registry.tracked) /\ Current.axes = axes
    /\ Current.histories = managed.histories
    /\ [Current EXCEPT !.work = RemoveAll(Current.work)].work = RemoveAll(Current.work)
    /\ [Current EXCEPT !.work = RemoveAll(Current.work)].axes = axes
    /\ [Current EXCEPT !.work = RemoveAll(Current.work)].histories = managed.histories
<1> DEFINE w == Work(bound, managed.units, registry.tracked)
           h == managed.histories
           k == registry.histories
           v == RemoveAll(Current.work)
<1>1. Current = [work |-> w, axes |-> axes, histories |-> h, kept |-> k]
    BY DEF Current
<1> HIDE DEF w, h, k, v
<1>2. /\ Current.work = w /\ Current.axes = axes /\ Current.histories = h
      /\ [Current EXCEPT !.work = v].work = v /\ [Current EXCEPT !.work = v].axes = axes
      /\ [Current EXCEPT !.work = v].histories = h
    BY <1>1
<1>3. QED
    BY <1>2 DEF w, h, v

LEMMA UpdateAxisTells ==
    ASSUME ClaimsInv, UpdateAxis
    PROVE  ClaimsInv'
<1> DEFINE x == figure.bound
           w == Current.work
<1>1. IsAlive /\ AfterUpdate(Current, bound, ghost) /\ UNCHANGED <<plot, figure, calls>>
    BY DEF UpdateAxis
<1>2. /\ bound = x /\ x # <<>> /\ x \in Axes /\ PlaceTold /\ AreAxes(axes, plot) /\ IsGhost(ghost)
      /\ AreUnits(managed.units) /\ AreHistories(managed.histories)
      /\ ClaimsTold(ghost, x, axes[x], managed.units, plot)
      /\ LeftTold(ghost, x, managed.histories, plot)
    BY <1>1, BoundIsTold
<1>3. IsShown(axes[x]) /\ IsLocator(axes[x].ticks.at, plot)
    BY <1>2 DEF AreAxes
<1>4. /\ w = Work(x, managed.units, registry.tracked) /\ Current.axes = axes
      /\ Current.histories = managed.histories
    BY <1>2, CurrentIs
<1> HIDE DEF w
<1>5. IsRebuilding(w) /\ ~w.failed /\ w.a = axes[x] /\ w.units = managed.units
    BY <1>2, <1>3, <1>4, WorkIsRebuilding
<1>6. PlaceTold' /\ plot' = plot /\ figure'.bound = x
    BY <1>1, <1>2 DEF PlaceTold
<1>7. AfterUpdate(Current, x, ghost) /\ w = Current.work
    BY <1>1, <1>2 DEF w
<1> HIDE DEF x
<1>8. figure.bound # <<>>
    BY <1>2 DEF x
<1>9. QED
    BY <1>2, <1>3, <1>4, <1>5, <1>6, <1>7, <1>8, UpdateKeepsClaims

\* The claims come along to other axes, where none of them is recorded, and those on the axes
\* that are left stay in their history.
LEMMA ClaimsComeAlong ==
    ASSUME ClaimsInv, IsAlive, NEW x \in Axes, NEW g, g = Carried(x),
           NEW rebound, rebound = Rebound(x)
    PROVE  /\ IsGhost(g) /\ AreAxes(rebound.axes, plot) /\ AreHistories(rebound.histories)
           /\ IsRebuilding(rebound.work) /\ ~rebound.work.failed
           /\ \A f \in AxesFields \ {"drawn"} : rebound.work.a[f] = axes[x][f]
           /\ \A a : ClaimsTold(g, x, a, rebound.work.units, plot)
           /\ LeftTold(g, x, rebound.histories, plot)
<1> DEFINE after == AttachAxes(figure, x)
           wants == ghost.wants \cup ghost.pending[x]
           histories == [managed.histories EXCEPT ![bound] = <<managed.units>>]
           restored == RestoreAxes(managed.units, histories[x])
           units == InitializeFromAx(restored, axes[x])
           keeps == figure.shared \/ DirectFigure(x) = FigureOf(bound)
           kept == IF keeps /\ registry.tracked THEN registry.histories \cup {bound}
                   ELSE registry.histories
           w == Work(x, units, x \in kept)
           there == Forgotten(after, axes, FreshAxes)
           known == Forgotten(after, histories, <<>>)
           pending == Forgotten(after, ghost.pending, {})
           callers == Forgotten(after, ghost.callers, {})
           seen == Forgotten(after, ghost.seen, Seen(FreshAxes))
           Gone(y) == FigureOf(y) \in figure.open \ after.open
<1>1. /\ bound = figure.bound /\ figure.bound # <<>> /\ bound \in Axes
      /\ AreAxes(axes, plot) /\ IsGhost(ghost)
      /\ AreUnits(managed.units) /\ AreHistories(managed.histories)
      /\ ClaimsTold(ghost, bound, axes[bound], managed.units, plot)
      /\ LeftTold(ghost, bound, managed.histories, plot)
    BY BoundIsTold
<1>2. /\ rebound.work = RemoveAll(w) /\ rebound.axes = there /\ rebound.histories = known
    BY DEF Rebound
<1>3. g = [ghost EXCEPT !.wants = wants, !.built = FALSE,
                        !.pending = [pending EXCEPT ![x] = wants],
                        !.callers = [callers EXCEPT ![x] = callers[x] \ wants],
                        !.seen = seen]
    BY DEF Carried
<1>4. /\ pending = [y \in Axes |-> IF Gone(y) THEN {} ELSE ghost.pending[y]]
      /\ callers = [y \in Axes |-> IF Gone(y) THEN {} ELSE ghost.callers[y]]
      /\ seen = [y \in Axes |-> IF Gone(y) THEN Seen(FreshAxes) ELSE ghost.seen[y]]
      /\ there = [y \in Axes |-> IF Gone(y) THEN FreshAxes ELSE axes[y]]
      /\ known = [y \in Axes |-> IF Gone(y) THEN <<>> ELSE histories[y]]
    BY DEF Forgotten
<1>5. /\ histories[bound] = <<managed.units>>
      /\ \A y \in Axes \ {bound} : histories[y] = managed.histories[y]
      /\ histories = [y \in Axes |-> histories[y]]
    BY <1>1 DEF AreHistories
<1>6. \A u \in Units : restored[u] = IF managed.units[u].ownership = "gerrytools_explicit" THEN NoClaim
                                     ELSE IF histories[x] = <<>> THEN ResetHistory(managed.units)[u]
                                     ELSE histories[x][1][u]
    BY DEF RestoreAxes, NoClaim
<1> HIDE DEF restored
<1>7. AreUnits(units) /\ \A u \in Units : IsClaimed(restored, u) => units[u] = restored[u]
    BY UnitsAreInitialized
<1> HIDE DEF units, pending, callers, seen, there, known, histories, wants, kept, Gone
<1>8. WantedBy(plot) \subseteq Units
    BY DEF WantedBy, Units
<1>9. /\ ghost.excused \subseteq {"limits"} /\ ghost.wants \subseteq WantedBy(plot)
      /\ "tick_style" \in ghost.wants => plot.style # NoStyle
      /\ ghost.pending[bound] \subseteq ghost.wants
      /\ \A u \in ghost.wants \ ghost.excused : IsClaimed(managed.units, u)
      /\ \A u \in ghost.pending[bound] \ ghost.excused : managed.units[u] = NoClaim
      /\ FailsTicks(plot) => "ticks" \in ghost.pending[bound]
    BY <1>1 DEF ClaimsTold
<1>10. \A y \in Axes \ {bound} :
           /\ ghost.pending[y] \subseteq WantedBy(plot)
           /\ "tick_style" \in ghost.pending[y] => plot.style # NoStyle
           /\ \A u \in ghost.pending[y] \ ghost.excused :
                  managed.histories[y] # <<>> /\ managed.histories[y][1][u] = NoClaim
    BY <1>1 DEF LeftTold
<1>11. \A y \in Axes :
           /\ ghost.pending[y] \subseteq WantedBy(plot)
           /\ "tick_style" \in ghost.pending[y] => plot.style # NoStyle
           /\ \A u \in ghost.pending[y] \ ghost.excused :
                  histories[y] # <<>> /\ histories[y][1][u] = NoClaim
    <2>1. SUFFICES ASSUME NEW y \in Axes
                   PROVE  /\ ghost.pending[y] \subseteq WantedBy(plot)
                          /\ "tick_style" \in ghost.pending[y] => plot.style # NoStyle
                          /\ \A u \in ghost.pending[y] \ ghost.excused :
                                 histories[y] # <<>> /\ histories[y][1][u] = NoClaim
        OBVIOUS
    <2>2. CASE y = bound
        BY <1>5, <1>9, <2>2
    <2>3. CASE y # bound
        BY <1>5, <1>10, <2>3
    <2>4. QED
        BY <2>2, <2>3
<1>12. /\ g.wants = wants /\ g.excused = ghost.excused /\ g.pending[x] = wants
       /\ g.callers[x] \cap wants = {} /\ IsGhost(g)
       /\ \A y \in Axes \ {x} : g.pending[y] = IF Gone(y) THEN {} ELSE ghost.pending[y]
    <2>1. {"limits", "axis_visibility"} \subseteq DOMAIN Seen(FreshAxes)
          /\ Seen(FreshAxes).axis_visibility \in BOOLEAN
        BY DEF Seen, FreshAxes
    <2>2. \A y \in Axes : /\ {"limits", "axis_visibility"} \subseteq DOMAIN seen[y]
                          /\ seen[y].axis_visibility \in BOOLEAN
        BY <1>1, <1>4, <2>1 DEF IsGhost
    <2>3. seen = [y \in Axes |-> seen[y]]
        BY <1>4
    <2> DEFINE carried == [pending EXCEPT ![x] = wants]
               others == [callers EXCEPT ![x] = callers[x] \ wants]
    <2>4. /\ carried = [y \in Axes |-> carried[y]] /\ carried[x] = wants
          /\ \A y \in Axes \ {x} : carried[y] = IF Gone(y) THEN {} ELSE ghost.pending[y]
        BY <1>4
    <2>5. others = [y \in Axes |-> others[y]] /\ others[x] \cap wants = {}
        BY <1>4
    <2> HIDE DEF carried, others
    <2>6. g = [ghost EXCEPT !.wants = wants, !.built = FALSE, !.pending = carried,
                            !.callers = others, !.seen = seen]
        BY <1>3 DEF carried, others
    <2>7. /\ g.wants = wants /\ g.excused = ghost.excused /\ g.pending = carried
          /\ g.callers = others /\ g.seen = seen
          /\ {"wants", "excused", "pending", "built", "callers", "seen"} \subseteq DOMAIN g
        BY <1>1, <2>6 DEF IsGhost
    <2>8. IsGhost(g)
        BY <2>2, <2>3, <2>4, <2>5, <2>7 DEF IsGhost
    <2>9. QED
        BY <2>4, <2>5, <2>7, <2>8
<1>13. /\ wants \subseteq WantedBy(plot) /\ ghost.wants \subseteq wants
       /\ "tick_style" \in wants => plot.style # NoStyle
    BY <1>9, <1>11 DEF wants
<1>14. ASSUME NEW u \in wants \ ghost.excused
       PROVE  units[u] = NoClaim
    <2>1. u \in Units
        BY <1>8, <1>13, <1>14
    <2>2. restored[u] = NoClaim
        <3>1. CASE managed.units[u].ownership = "gerrytools_explicit"
            BY <1>6, <2>1, <3>1
        <3>2. CASE managed.units[u].ownership # "gerrytools_explicit"
            <4>1. u \in ghost.pending[x]
                BY <1>9, <1>14, <3>2 DEF IsClaimed, wants
            <4>2. histories[x] # <<>> /\ histories[x][1][u] = NoClaim
                BY <1>11, <1>14, <4>1
            <4>3. QED
                BY <1>6, <2>1, <3>2, <4>2
        <3>3. QED
            BY <3>1, <3>2
    <2>3. QED
        BY <1>7, <2>1, <2>2 DEF IsClaimed, NoClaim
<1>15. IsShown(axes[x])
    BY <1>1 DEF AreAxes
<1>16. IsRebuilding(w) /\ ~w.failed /\ w.a = axes[x] /\ w.units = units
    BY <1>7, <1>15, WorkIsRebuilding
<1> HIDE DEF w
<1>17. /\ IsRebuilding(rebound.work) /\ ~rebound.work.failed /\ rebound.work.units = units
       /\ \A f \in AxesFields \ {"drawn"} : rebound.work.a[f] = axes[x][f]
    <2> DEFINE v == rebound.work
    <2>1. v = RemoveAll(w)
        BY <1>2
    <2> HIDE DEF v
    <2>2. /\ IsRebuilding(v) /\ v.units = w.units /\ (v.failed <=> w.failed)
          /\ \A f \in AxesFields \ {"drawn"} : v.a[f] = w.a[f]
        BY <1>16, <2>1, RemovalSpares
    <2>3. QED
        BY <1>16, <2>2 DEF v
<1>18. AreAxes(there, plot)
    BY <1>1, <1>4, FreshIsShown DEF AreAxes
<1>19. AreHistories(known)
    <2>1. \A y \in Axes \ {bound} : histories[y] = <<>> \/ \E h : AreUnits(h) /\ histories[y] = <<h>>
        BY <1>1, <1>5 DEF AreHistories
    <2>2. \E h : AreUnits(h) /\ histories[bound] = <<h>>
        BY <1>1, <1>5
    <2>3. ASSUME NEW y \in Axes
          PROVE  known[y] = <<>> \/ \E h : AreUnits(h) /\ known[y] = <<h>>
        BY <1>4, <2>1, <2>2
    <2>4. known = [y \in Axes |-> known[y]]
        BY <1>4
    <2>5. QED
        BY <2>3, <2>4 DEF AreHistories
<1>20. ASSUME NEW a
       PROVE  ClaimsTold(g, x, a, units, plot)
    <2>1. \A u \in wants \ ghost.excused : IsClaimed(units, u)
        BY <1>14 DEF IsClaimed, NoClaim
    <2>2. FailsTicks(plot) => "ticks" \in wants
        BY <1>9, <1>13
    <2>3. QED
        BY <1>9, <1>12, <1>13, <1>14, <2>1, <2>2 DEF ClaimsTold
<1>21. LeftTold(g, x, known, plot)
    BY <1>4, <1>11, <1>12 DEF LeftTold
<1>22. QED
    BY <1>2, <1>12, <1>17, <1>18, <1>19, <1>20, <1>21

LEMMA BindToAxTells ==
    ASSUME ClaimsInv, BindToAx
    PROVE  ClaimsInv'
<1>1. PICK x \in Axes :
          /\ IsAlive
          /\ figure' = AttachAxes(figure, x)
          /\ calls' = [calls EXCEPT !.binds = @ + 1]
          /\ IF x = bound
             THEN AfterUpdate([Current EXCEPT !.work = RemoveAll(@)], x, ghost)
             ELSE AfterUpdate(Rebound(x), x, Carried(x))
          /\ UNCHANGED plot
    BY DEF BindToAx
<1>2. /\ bound = figure.bound /\ figure.bound # <<>> /\ bound \in Axes
      /\ PlaceTold /\ AreAxes(axes, plot) /\ IsGhost(ghost)
      /\ AreUnits(managed.units) /\ AreHistories(managed.histories)
      /\ ClaimsTold(ghost, bound, axes[bound], managed.units, plot)
      /\ LeftTold(ghost, bound, managed.histories, plot)
      /\ figure.made \in Nat /\ calls.binds \in Nat /\ figure.made <= calls.binds + 1
    BY <1>1, BoundIsTold
<1>3. IsShown(axes[x]) /\ IsLocator(axes[x].ticks.at, plot)
    BY <1>2 DEF AreAxes
<1>4. x # <<>>
    BY DEF Axes
<1>5. /\ {"bound", "shared", "finalizer", "open", "made"} \subseteq DOMAIN figure'
      /\ figure'.made = figure.made /\ figure'.bound = x
    <2> DEFINE f == figure'
    <2>1. f = AttachAxes(figure, x)
        BY <1>1
    <2> HIDE DEF f
    <2>2. /\ {"bound", "shared", "finalizer", "open", "made"} \subseteq DOMAIN f
          /\ f.made = (IF x = <<>> THEN figure.made + 1 ELSE figure.made)
          /\ f.bound = (IF x = <<>> THEN <<figure.made + 1, "main">> ELSE x)
        BY <1>2, <1>4, <2>1, AttachedTold
    <2>3. QED
        BY <1>4, <2>2 DEF f
<1>6. PlaceTold'
    <2>1. calls'.binds = calls.binds + 1
          /\ {"units", "settings", "direct", "binds"} \subseteq DOMAIN calls'
        BY <1>1, <1>2 DEF PlaceTold
    <2>2. figure'.made <= calls'.binds + 1 /\ calls'.binds \in Nat
        BY <1>2, <1>5, <2>1
    <2>3. plot' = plot /\ plot.kind # "none"
        BY <1>1 DEF IsAlive
    <2>4. QED
        BY <1>2, <1>4, <1>5, <2>1, <2>2, <2>3 DEF PlaceTold
<1>7. plot' = plot
    BY <1>1
\* Bound again to the same axes, the plot removes what it drew before it looks.
<1>8. CASE x = bound
    <2> DEFINE removed == RemoveAll(Current.work)
               rebound == [Current EXCEPT !.work = removed]
               now == Current.work
    <2>1. AfterUpdate(rebound, x, ghost)
        BY <1>1, <1>8
    <2>2. /\ now = Work(x, managed.units, registry.tracked)
          /\ rebound.work = removed /\ rebound.axes = axes /\ rebound.histories = managed.histories
        BY <1>8, CurrentIs
    <2>3. removed = RemoveAll(now)
        OBVIOUS
    <2> HIDE DEF rebound, removed, now
    <2>4. IsRebuilding(now) /\ ~now.failed /\ now.a = axes[x] /\ now.units = managed.units
        BY <1>2, <1>3, <2>2, WorkIsRebuilding
    <2>5. /\ IsRebuilding(removed) /\ removed.units = now.units /\ (removed.failed <=> now.failed)
          /\ \A f \in AxesFields \ {"drawn"} : removed.a[f] = now.a[f]
        BY <2>3, <2>4, RemovalSpares
    <2> DEFINE b == removed.a
    <2>6. /\ ~removed.failed /\ removed.units = managed.units
          /\ \A f \in AxesFields \ {"drawn"} : b[f] = axes[x][f]
        BY <2>4, <2>5
    <2>7. b.limits = axes[x].limits /\ b.ticks = axes[x].ticks
        BY <2>6 DEF AxesFields
    <2>8. ClaimsTold(ghost, x, axes[x], managed.units, plot) /\ LeftTold(ghost, x, managed.histories, plot)
        BY <1>2, <1>8
    <2> HIDE DEF b
    <2>9. ClaimsTold(ghost, x, b, managed.units, plot)
        BY <2>6, <2>8, OtherDrawing
    <2>10. /\ IsLocator(removed.a.ticks.at, plot)
           /\ axes[x].limits = removed.a.limits /\ axes[x].ticks = removed.a.ticks
           /\ ClaimsTold(ghost, x, removed.a, removed.units, plot)
        BY <1>3, <2>6, <2>7, <2>9 DEF b
    <2>11. /\ AreAxes(rebound.axes, plot) /\ AreHistories(rebound.histories)
           /\ LeftTold(ghost, x, rebound.histories, plot) /\ removed = rebound.work
        BY <1>2, <2>2, <2>8
    <2>12. QED
        BY <1>2, <1>5, <1>6, <1>7, <2>1, <2>5, <2>6, <2>10, <2>11, UpdateKeepsClaims
<1>9. CASE x # bound
    <2> DEFINE rebound == Rebound(x)
               g == Carried(x)
               w == rebound.work
    <2>1. AfterUpdate(rebound, x, g)
        BY <1>1, <1>9
    <2>2. g = Carried(x) /\ rebound = Rebound(x)
        OBVIOUS
    <2>3. w = rebound.work
        OBVIOUS
    <2> HIDE DEF g, rebound
    <2>4. /\ IsGhost(g) /\ AreAxes(rebound.axes, plot) /\ AreHistories(rebound.histories)
          /\ IsRebuilding(rebound.work) /\ ~rebound.work.failed
          /\ \A f \in AxesFields \ {"drawn"} : rebound.work.a[f] = axes[x][f]
          /\ \A a : ClaimsTold(g, x, a, rebound.work.units, plot)
          /\ LeftTold(g, x, rebound.histories, plot)
        BY <1>1, <2>2, ClaimsComeAlong
    <2>5. w.a.limits = axes[x].limits /\ w.a.ticks = axes[x].ticks
        BY <2>4 DEF AxesFields
    <2>6. /\ IsLocator(w.a.ticks.at, plot) /\ ClaimsTold(g, x, w.a, w.units, plot)
          /\ IsRebuilding(w) /\ ~w.failed
        BY <1>3, <2>4, <2>5
    <2> HIDE DEF w
    <2>7. QED
        BY <1>2, <1>5, <1>6, <1>7, <2>1, <2>3, <2>4, <2>5, <2>6, UpdateKeepsClaims
<1>10. QED
    BY <1>8, <1>9

LEMMA UnbindTells ==
    ASSUME ClaimsInv, Unbind
    PROVE  ClaimsInv'
<1> DEFINE x == <<figure.made + 1, "main">>
           rebound == Rebound(x)
           g == Carried(x)
           units == rebound.work.units
<1>1. /\ IsAlive /\ calls.binds < MaxBinds /\ figure' = AttachAxes(figure, <<>>)
      /\ needs_update' = TRUE /\ plot' = plot
      /\ calls' = [calls EXCEPT !.binds = @ + 1]
    BY DEF Unbind
<1>2. /\ bound = figure.bound /\ figure.bound # <<>> /\ bound \in Axes
      /\ PlaceTold /\ AreSettings(plot)
      /\ figure.made \in Nat /\ calls.binds \in Nat /\ figure.made <= calls.binds + 1
    BY <1>1, BoundIsTold
<1>3. figure.made <= MaxBinds
    BY <1>1, <1>2, AxesAssumption
<1>4. /\ {"bound", "shared", "finalizer", "open", "made"} \subseteq DOMAIN figure'
      /\ figure'.made = figure.made + 1 /\ figure'.bound = x /\ x \in Axes /\ x # <<>>
    <2> DEFINE f == figure'
               none == <<>>
    <2>1. f = AttachAxes(figure, none) /\ none = <<>>
        BY <1>1
    <2> HIDE DEF f, none
    <2>2. /\ {"bound", "shared", "finalizer", "open", "made"} \subseteq DOMAIN f
          /\ f.made = (IF none = <<>> THEN figure.made + 1 ELSE figure.made)
          /\ f.bound \in Axes /\ f.bound # <<>>
          /\ f.bound = (IF none = <<>> THEN <<figure.made + 1, "main">> ELSE none)
        BY <1>2, <1>3, <2>1, AttachedTold
    <2>3. QED
        BY <2>1, <2>2 DEF f
<1> DEFINE histories == rebound.histories
           hid == managed.hid
<1>5. /\ axes' = rebound.axes /\ ghost' = g
      /\ managed' = [units |-> units, hid |-> hid, histories |-> histories]
    <2>1. AttachAxes(figure, <<>>).bound = x
        BY <1>1, <1>4
    <2>2. QED
        BY <2>1 DEF Unbind
<1>6. PlaceTold'
    <2>1. calls'.binds = calls.binds + 1
          /\ {"units", "settings", "direct", "binds"} \subseteq DOMAIN calls'
        BY <1>1, <1>2 DEF PlaceTold
    <2>2. figure'.made \in Nat /\ figure'.made <= calls'.binds + 1 /\ calls'.binds \in Nat
        BY <1>2, <1>4, <2>1
    <2>3. plot' = plot /\ plot.kind # "none"
        BY <1>1 DEF IsAlive
    <2> HIDE DEF x
    <2>4. QED
        BY <1>4, <2>1, <2>2, <2>3 DEF PlaceTold
<1>7. g = Carried(x) /\ rebound = Rebound(x)
    OBVIOUS
<1> HIDE DEF x, g, rebound
<1>8. /\ IsGhost(g) /\ AreAxes(rebound.axes, plot) /\ AreHistories(rebound.histories)
      /\ IsRebuilding(rebound.work)
      /\ \A a : ClaimsTold(g, x, a, rebound.work.units, plot)
      /\ LeftTold(g, x, rebound.histories, plot)
    BY <1>1, <1>4, <1>7, ClaimsComeAlong
<1> HIDE DEF hid
<1>9. /\ managed'.units = units /\ managed'.histories = histories
      /\ {"units", "hid", "histories"} \subseteq DOMAIN managed' /\ AreUnits(managed'.units)
    BY <1>5, <1>8 DEF IsRebuilding
<1>10. ClaimsTold(ghost', x, axes'[x], managed'.units, plot')
    BY <1>1, <1>5, <1>8, <1>9
<1>11. QED
    BY <1>1, <1>2, <1>4, <1>5, <1>6, <1>8, <1>9, <1>10 DEF ClaimsInv

LEMMA NextTells ==
    ASSUME ClaimsInv, [Next]_vars
    PROVE  ClaimsInv'
<1>1. CASE Next
    BY <1>1, ConstructTells, CollectTells, UpdateAxisTells, BindToAxTells, UnbindTells,
       SettersKeepClaims, ChangeDirectlyTells DEF Next
<1>2. CASE UNCHANGED vars
    BY <1>2 DEF vars, ClaimsInv, PlaceTold, IsClaimed
<1>3. QED
    BY <1>1, <1>2

\* Whatever axes the plot has been on and whatever the caller has done to them, a plot that
\* needs no update shows every setting that was made explicitly, unless the caller has changed
\* the unit since (_ManagedAxesState: detect_external_changes, reconcile and restore_axes, as
\* the rebuilds of gerryplot.py and geoplotbase.py call them).
THEOREM SettingsHoldOnAnyAxes ==
    Spec => []ExplicitSettingsHold
<1>1. Init => ClaimsInv
    BY ClaimsInit
<1>2. ClaimsInv /\ [Next]_vars => ClaimsInv'
    BY NextTells
<1>3. ClaimsInv => ExplicitSettingsHold
    BY ClaimsAreEnough
<1>4. QED
    BY <1>1, <1>2, <1>3, PTL DEF Spec

(***************************************************************************)
(* Sequences of columns                                                    *)
(***************************************************************************)

\* A set of numbers that is not empty has a least one.
LEMMA LeastOf ==
    ASSUME NEW S, S \subseteq Nat, S # {}
    PROVE  \E n \in S : \A m \in S : n <= m
<1>1. PICK n \in S : \A m \in S : ~(<<m, n>> \in OpToRel(<, Nat))
    BY NatLessThanWellFounded, WFMin
<1>2. \A m \in S : ~(m < n)
    BY <1>1 DEF OpToRel
<1>3. QED
    BY <1>2

\* f has the first blocks of ss concatenated, for each number of blocks up to n.
IsFlattening(f, ss, n) == f = [i \in 1 .. n |-> IF i = 1 THEN ss[i] ELSE f[i - 1] \o ss[i]]

HasFlattening(ss, n) == \E f : IsFlattening(f, ss, n)

\* What flattens n blocks can be extended by a further one.
LEMMA FlatteningsGoOn ==
    ASSUME NEW ss, NEW n \in Nat, HasFlattening(ss, n)
    PROVE  HasFlattening(ss, n + 1)
<1>0. PICK f : f = [i \in 1 .. n |-> IF i = 1 THEN ss[i] ELSE f[i - 1] \o ss[i]]
    BY DEF HasFlattening, IsFlattening
<1> DEFINE Next1 == IF n = 0 THEN ss[1] ELSE f[n] \o ss[n + 1]
           g == [i \in 1 .. n + 1 |-> IF i = n + 1 THEN Next1 ELSE f[i]]
<1>1. ASSUME NEW i \in 1 .. n + 1
      PROVE  g[i] = IF i = 1 THEN ss[i] ELSE g[i - 1] \o ss[i]
    <2>1. CASE i = n + 1 /\ n = 0
        BY <2>1
    <2>2. CASE i = n + 1 /\ n # 0
        <3>1. n \in 1 .. n + 1 /\ n # n + 1 /\ i - 1 = n /\ i # 1
            BY <2>2
        <3>2. g[n] = f[n] /\ g[i] = f[n] \o ss[n + 1]
            BY <2>2, <3>1, Zenon
        <3> HIDE DEF g
        <3>3. QED
            BY <2>2, <3>1, <3>2
    <2>3. CASE i \in 1 .. n
        <3>1. f[i] = IF i = 1 THEN ss[i] ELSE f[i - 1] \o ss[i]
            BY <1>0, <2>3
        <3>2. g[i] = f[i] /\ (i # 1 => g[i - 1] = f[i - 1])
            BY <2>3
        <3>3. QED
            BY <3>1, <3>2
    <2>4. QED
        BY <2>1, <2>2, <2>3
<1>2. g = [i \in 1 .. n + 1 |-> g[i]]
    OBVIOUS
<1> HIDE DEF g
<1>3. [i \in 1 .. n + 1 |-> g[i]]
        = [i \in 1 .. n + 1 |-> IF i = 1 THEN ss[i] ELSE g[i - 1] \o ss[i]]
    BY <1>1
<1>4. IsFlattening(g, ss, n + 1)
    BY <1>2, <1>3 DEF IsFlattening
<1>5. QED
    BY <1>4 DEF HasFlattening

LEMMA FlatteningsExist ==
    ASSUME NEW ss, NEW n \in Nat
    PROVE  HasFlattening(ss, n)
<1> DEFINE without == {m \in Nat : ~HasFlattening(ss, m)}
<1>1. HasFlattening(ss, 0)
    <2>1. IsFlattening(<<>>, ss, 0)
        BY DEF IsFlattening
    <2>2. QED
        BY <2>1 DEF HasFlattening
<1>2. SUFFICES ASSUME without # {} PROVE FALSE
    OBVIOUS
<1>3. PICK m \in without : \A k \in without : m <= k
    BY <1>2, LeastOf
<1>4. m - 1 \in Nat /\ m - 1 + 1 = m /\ ~(m <= m - 1)
    BY <1>1, <1>3
<1>5. HasFlattening(ss, m - 1)
    BY <1>3, <1>4
<1>6. HasFlattening(ss, m - 1 + 1)
    BY <1>4, <1>5, FlatteningsGoOn
<1>7. QED
    BY <1>3, <1>4, <1>6

\* Flattening adds no elements.
LEMMA FlatteningIsSequence ==
    ASSUME NEW X, NEW ss \in Seq(Seq(X))
    PROVE  FlattenSeq(ss) \in Seq(X)
<1>1. CASE ss = <<>>
    BY <1>1 DEF FlattenSeq
<1>2. CASE ss # <<>>
    <2> DEFINE f == CHOOSE f : IsFlattening(f, ss, Len(ss))
    <2>1. Len(ss) \in Nat /\ Len(ss) # 0
        BY <1>2
    <2>2. IsFlattening(f, ss, Len(ss))
        BY <2>1, FlatteningsExist DEF HasFlattening
    <2>3. FlattenSeq(ss) = f[Len(ss)]
        BY <2>1 DEF FlattenSeq, IsFlattening
    <2> HIDE DEF f
    <2>4. \A i \in 1 .. Len(ss) : f[i] = IF i = 1 THEN ss[i] ELSE f[i - 1] \o ss[i]
        BY <2>2 DEF IsFlattening
    <2> DEFINE wrong == {i \in 1 .. Len(ss) : f[i] \notin Seq(X)}
    <2>5. wrong = {}
        <3> SUFFICES ASSUME wrong # {} PROVE FALSE
            OBVIOUS
        <3>0. wrong \subseteq Nat
            OBVIOUS
        <3>1. PICK i \in wrong : \A k \in wrong : i <= k
            <4> HIDE DEF wrong
            <4>1. QED
                BY <3>0, LeastOf
        <3>2. i \in 1 .. Len(ss) /\ ss[i] \in Seq(X)
            OBVIOUS
        <3>3. i # 1
            BY <2>4, <3>1, <3>2
        <3>4. i - 1 \in 1 .. Len(ss) /\ ~(i <= i - 1)
            BY <3>2, <3>3
        <3>5. f[i - 1] \in Seq(X)
            BY <3>1, <3>4
        <3>6. f[i - 1] \o ss[i] \in Seq(X)
            BY <3>2, <3>5
        <3>7. QED
            BY <2>4, <3>1, <3>2, <3>3, <3>6
    <2>6. QED
        BY <2>1, <2>3, <2>5
<1>3. QED
    BY <1>1, <1>2

\* The columns of the data frame up to the n-th that are not listed.
IsUnlistedTo(f, listed, n) ==
    f = [i \in 0 .. n |->
           IF i = 0 THEN <<>>
           ELSE IF Columns[i] \in listed THEN f[i - 1] ELSE Append(f[i - 1], Columns[i])]

HasUnlisted(listed, n) == \E f : IsUnlistedTo(f, listed, n)

LEMMA UnlistedGoesOn ==
    ASSUME NEW listed, NEW n \in Nat, HasUnlisted(listed, n)
    PROVE  HasUnlisted(listed, n + 1)
<1>0. PICK f : IsUnlistedTo(f, listed, n)
    BY DEF HasUnlisted
<1> DEFINE last == IF Columns[n + 1] \in listed THEN f[n] ELSE Append(f[n], Columns[n + 1])
           g == [i \in 0 .. n + 1 |-> IF i = n + 1 THEN last ELSE f[i]]
           Step(i) == IF i = 0 THEN <<>>
                      ELSE IF Columns[i] \in listed THEN g[i - 1] ELSE Append(g[i - 1], Columns[i])
<1>1. ASSUME NEW i \in 0 .. n + 1
      PROVE  g[i] = Step(i)
    <2>1. CASE i = n + 1
        <3>1. g[n] = f[n] /\ g[i] = last /\ i - 1 = n /\ i # 0
            BY <2>1
        <3> HIDE DEF g
        <3>2. QED
            BY <2>1, <3>1
    <2>2. CASE i \in 0 .. n
        <3>1. f[i] = IF i = 0 THEN <<>>
                     ELSE IF Columns[i] \in listed THEN f[i - 1] ELSE Append(f[i - 1], Columns[i])
            BY <1>0, <2>2 DEF IsUnlistedTo
        <3>2. g[i] = f[i] /\ (i # 0 => g[i - 1] = f[i - 1])
            BY <2>2
        <3> HIDE DEF g
        <3>3. QED
            BY <3>1, <3>2
    <2>3. QED
        BY <2>1, <2>2
<1>2. g = [i \in 0 .. n + 1 |-> g[i]]
    OBVIOUS
<1> HIDE DEF g
<1>3. QED
    BY <1>1, <1>2 DEF HasUnlisted, IsUnlistedTo

LEMMA UnlistedExists ==
    ASSUME NEW listed, NEW n \in Nat
    PROVE  HasUnlisted(listed, n)
<1> DEFINE without == {m \in Nat : ~HasUnlisted(listed, m)}
<1>1. HasUnlisted(listed, 0)
    <2>1. IsUnlistedTo([i \in 0 .. 0 |-> <<>>], listed, 0)
        BY DEF IsUnlistedTo
    <2>2. QED
        BY <2>1 DEF HasUnlisted
<1>2. SUFFICES ASSUME without # {} PROVE FALSE
    OBVIOUS
<1>3. PICK m \in without : \A k \in without : m <= k
    BY <1>2, LeastOf
<1>4. m - 1 \in Nat /\ m - 1 + 1 = m /\ ~(m <= m - 1)
    BY <1>1, <1>3
<1>5. HasUnlisted(listed, m - 1)
    BY <1>3, <1>4
<1>6. HasUnlisted(listed, m - 1 + 1)
    BY <1>4, <1>5, UnlistedGoesOn
<1>7. QED
    BY <1>3, <1>4, <1>6

LEMMA ColumnsAreListed ==
    /\ NColumns \in Nat
    /\ Columns \in Seq(ToSet(Columns))
    /\ \A i \in 1 .. NColumns : Columns[i] \in ToSet(Columns)
    /\ ToSet(Columns) \subseteq STRING
BY LayoutAssumption DEF NColumns, ToSet

LEMMA UnlistedAreColumns ==
    ASSUME NEW listed
    PROVE  Unlisted(listed) \in Seq(ToSet(Columns))
<1> DEFINE f == CHOOSE f : IsUnlistedTo(f, listed, NColumns)
<1>1. IsUnlistedTo(f, listed, NColumns)
    BY ColumnsAreListed, UnlistedExists DEF HasUnlisted
<1>2. Unlisted(listed) = f[NColumns]
    BY DEF Unlisted, IsUnlistedTo
<1> HIDE DEF f
<1> DEFINE wrong == {i \in 0 .. NColumns : f[i] \notin Seq(ToSet(Columns))}
<1>3. wrong = {}
    <2> SUFFICES ASSUME wrong # {} PROVE FALSE
        OBVIOUS
    <2>0. wrong \subseteq Nat
        BY ColumnsAreListed
    <2>1. PICK i \in wrong : \A k \in wrong : i <= k
        <3> HIDE DEF wrong
        <3>1. QED
            BY <2>0, LeastOf
    <2>2. i \in 0 .. NColumns /\ NColumns \in Nat
        BY ColumnsAreListed
    <2>3. f[i] = IF i = 0 THEN <<>>
                 ELSE IF Columns[i] \in listed THEN f[i - 1] ELSE Append(f[i - 1], Columns[i])
        BY <1>1, <2>2 DEF IsUnlistedTo
    <2>4. i # 0
        <3>1. f[i] \notin Seq(ToSet(Columns))
            BY <2>1
        <3>2. <<>> \in Seq(ToSet(Columns))
            OBVIOUS
        <3>3. QED
            BY <2>3, <3>1, <3>2
    <2>5. i - 1 \in 0 .. NColumns /\ ~(i <= i - 1) /\ i \in 1 .. NColumns
        BY <2>2, <2>4
    <2>6. f[i - 1] \in Seq(ToSet(Columns))
        BY <2>1, <2>5
    <2>7. Append(f[i - 1], Columns[i]) \in Seq(ToSet(Columns))
        BY <2>5, <2>6, ColumnsAreListed
    <2>8. QED
        BY <2>1, <2>3, <2>4, <2>6, <2>7
<1>4. QED
    BY <1>2, <1>3, ColumnsAreListed

(***************************************************************************)
(* The inductive invariant of a table                                      *)
(***************************************************************************)

\* A preamble of n columns.
IsPreamble(preamble, n) ==
    DOMAIN preamble = {"alignments", "boundaries"} /\ Fits(preamble, n)

\* The options have a preamble for the columns, and one for the groups if any is given.
PreamblesFit(opts) ==
    /\ DOMAIN opts = DOMAIN FreshOptions
    /\ IsPreamble(opts.preamble, NColumns)
    /\ opts.group_preamble # <<>> =>
          IsPreamble(opts.group_preamble[1], Len(NonEmptyGroups(opts)))
    /\ opts.groups \in Seq(HeaderGroup)

\* The formatters that cells are formatted by.
FormattersInUse(opts) ==
    {opts.number_fmt, opts.str_fmt, opts.index_fmt}
      \cup {opts.col_formatters[column] : column \in ToSet(Columns)}
      \cup {opts.row_formatters[r] : r \in RowIndices}

Provides(doc, formatter) == \A c \in CommandsFor(formatter) : HasCommand(doc, c)

\* The document of a table: its commands and how often each of them was added.
DocumentCounts ==
    /\ DOMAIN document = DOMAIN NewDocument
    /\ document.command_list \in [Commands -> Nat]
    /\ user \in [Commands -> Nat]
    /\ formatter_commands \subseteq Commands
    /\ \A c \in Commands :
          document.command_list[c] = user[c] + (IF c \in formatter_commands THEN 1 ELSE 0)

TableInv ==
    /\ PreamblesFit(options)
    /\ DocumentCounts
    /\ FormattersInUse(options) \subseteq Seq(Primitives)
    /\ \A formatter \in FormattersInUse(options) : Provides(document, formatter)

(***************************************************************************)
(* What the setters leave alone                                            *)
(***************************************************************************)

OptionNames ==
    {"toprule_cmd", "bottomrule_cmd", "hrule_cmd", "include_column_headers",
     "include_group_headers", "include_index", "index_name", "index_column", "group_index",
     "hrule_counts", "preamble", "group_preamble", "row_colors", "number_fmt", "str_fmt",
     "index_fmt", "col_formatters", "row_formatters", "groups", "cell_borders", "extra_draws"}

LEMMA FreshNames == DOMAIN FreshOptions = OptionNames
BY DEF FreshOptions, OptionNames

KeepsPreambles(opts) ==
    /\ DOMAIN opts = OptionNames
    /\ opts.preamble = options.preamble
    /\ opts.group_preamble = options.group_preamble
    /\ opts.groups = options.groups

KeepsFormatters(opts) ==
    /\ opts.number_fmt = options.number_fmt
    /\ opts.str_fmt = options.str_fmt
    /\ opts.index_fmt = options.index_fmt
    /\ opts.col_formatters = options.col_formatters
    /\ opts.row_formatters = options.row_formatters

KeepsCommands(doc) ==
    DOMAIN doc = DOMAIN document /\ doc.command_list = document.command_list

LEMMA KeptPreamblesFit ==
    ASSUME PreamblesFit(options), NEW opts, KeepsPreambles(opts)
    PROVE  PreamblesFit(opts)
BY FreshNames DEF PreamblesFit, KeepsPreambles, NonEmptyGroups

LEMMA KeptFormatters ==
    ASSUME NEW opts, KeepsFormatters(opts)
    PROVE  FormattersInUse(opts) = FormattersInUse(options)
BY DEF FormattersInUse, KeepsFormatters

\* A setter that adds no commands, and uses no formatter that is new.
LEMMA SetsKeeps ==
    ASSUME TableInv, NEW topic, NEW opts, NEW doc, Sets(topic, opts, doc, {}),
           PreamblesFit(opts), KeepsCommands(doc),
           FormattersInUse(opts) \subseteq FormattersInUse(options) \cup {NoFormatter, Decimals}
    PROVE  TableInv'
<1>1. /\ options' = opts /\ document' = doc /\ user' = user
      /\ formatter_commands' = formatter_commands
    BY DEF Sets
<1>2. CommandsFor(NoFormatter) = {} /\ CommandsFor(Decimals) = {}
    BY TableAssumption DEF CommandsFor, NoFormatter, Decimals
<1>3. NoFormatter \in Seq(Primitives) /\ Decimals \in Seq(Primitives)
    BY TableAssumption DEF NoFormatter
<1>4. \A formatter : Provides(document, formatter) => Provides(doc, formatter)
    BY DEF Provides, KeepsCommands, HasCommand
<1>5. \A formatter \in {NoFormatter, Decimals} : Provides(doc, formatter)
    BY <1>2 DEF Provides
<1>6. \A formatter \in FormattersInUse(opts) : formatter \in Seq(Primitives) /\ Provides(doc, formatter)
    BY <1>3, <1>4, <1>5 DEF TableInv
<1>7. DocumentCounts'
    BY <1>1 DEF TableInv, DocumentCounts, KeepsCommands
<1>8. PreamblesFit(options)' /\ FormattersInUse(options)' = FormattersInUse(opts)
    BY <1>1 DEF PreamblesFit, FormattersInUse, IsPreamble, NonEmptyGroups
<1>9. (\A formatter \in FormattersInUse(options) : Provides(document, formatter))'
    BY <1>1, <1>6, <1>8 DEF Provides, HasCommand
<1>10. QED
    BY <1>6, <1>7, <1>8, <1>9 DEF TableInv

\* A setter of what is neither a preamble nor a formatter.
LEMMA UnrelatedSetsKeep ==
    ASSUME TableInv, NEW topic, NEW opts, NEW doc, Sets(topic, opts, doc, {}),
           KeepsPreambles(opts), KeepsFormatters(opts), KeepsCommands(doc)
    PROVE  TableInv'
BY SetsKeeps, KeptPreamblesFit, KeptFormatters DEF TableInv

LEMMA UnrelatedOptionsKeep ==
    ASSUME TableInv, NEW topic, NEW opts, SetsOptions(topic, opts),
           KeepsPreambles(opts), KeepsFormatters(opts)
    PROVE  TableInv'
BY UnrelatedSetsKeep DEF SetsOptions, KeepsCommands

LEMMA NamesOfOptions ==
    ASSUME TableInv
    PROVE  DOMAIN options = OptionNames
BY FreshNames DEF TableInv, PreamblesFit

(***************************************************************************)
(* Rules                                                                   *)
(***************************************************************************)

LEMMA HorizontalRulesKeep ==
    ASSUME TableInv,
           AddHruleAbove \/ AddHruleAboveAll \/ SetAllHrule \/ ClearAllHrule \/ SetRuleCommand
    PROVE  TableInv'
<1> USE NamesOfOptions DEF OptionNames
<1>1. ASSUME NEW topic, NEW counts, SetsOptions(topic, [options EXCEPT !.hrule_counts = counts])
      PROVE  TableInv'
    <2> DEFINE opts == [options EXCEPT !.hrule_counts = counts]
    <2>1. KeepsPreambles(opts) /\ KeepsFormatters(opts)
        BY DEF KeepsPreambles, KeepsFormatters
    <2>2. QED
        BY <1>1, <2>1, UnrelatedOptionsKeep
<1>2. CASE AddHruleAbove
    BY <1>1, <1>2 DEF AddHruleAbove
<1>3. CASE AddHruleAboveAll
    BY <1>1, <1>3 DEF AddHruleAboveAll
<1>4. CASE SetAllHrule
    BY <1>1, <1>4 DEF SetAllHrule
<1>5. CASE ClearAllHrule
    <2> DEFINE opts == [options EXCEPT !.toprule_cmd = "none", !.bottomrule_cmd = "none",
                                       !.hrule_counts = [r \in 0..Rows |-> 0]]
    <2>1. KeepsPreambles(opts) /\ KeepsFormatters(opts)
        BY DEF KeepsPreambles, KeepsFormatters
    <2>2. QED
        BY <1>5, <2>1, UnrelatedOptionsKeep DEF ClearAllHrule
<1>6. CASE SetRuleCommand
    <2>1. PICK cmd : \/ SetsOptions("rows", [options EXCEPT !.hrule_cmd = cmd])
                     \/ SetsOptions("rows", [options EXCEPT !.toprule_cmd = cmd])
                     \/ SetsOptions("rows", [options EXCEPT !.bottomrule_cmd = cmd])
        BY <1>6 DEF SetRuleCommand
    <2> DEFINE Good(opts) == KeepsPreambles(opts) /\ KeepsFormatters(opts)
    <2>2. Good([options EXCEPT !.hrule_cmd = cmd])
        BY DEF KeepsPreambles, KeepsFormatters
    <2>3. Good([options EXCEPT !.toprule_cmd = cmd])
        BY DEF KeepsPreambles, KeepsFormatters
    <2>4. Good([options EXCEPT !.bottomrule_cmd = cmd])
        BY DEF KeepsPreambles, KeepsFormatters
    <2>5. QED
        BY <2>1, <2>2, <2>3, <2>4, UnrelatedOptionsKeep
<1>7. QED
    BY <1>2, <1>3, <1>4, <1>5, <1>6

\* Options that have another preamble of the columns.
KeepsOthers(opts) ==
    /\ DOMAIN opts = OptionNames
    /\ opts.group_preamble = options.group_preamble
    /\ opts.groups = options.groups
    /\ KeepsFormatters(opts)

LEMMA PreambleSetsKeep ==
    ASSUME TableInv, NEW topic, NEW opts, NEW doc, Sets(topic, opts, doc, {}),
           KeepsOthers(opts), IsPreamble(opts.preamble, NColumns), KeepsCommands(doc)
    PROVE  TableInv'
<1>1. PreamblesFit(opts)
    BY FreshNames DEF TableInv, PreamblesFit, KeepsOthers, NonEmptyGroups
<1>2. QED
    BY <1>1, SetsKeeps, KeptFormatters DEF KeepsOthers

\* Rules are added to the preamble, or to the index column.
LEMMA RuledOptions ==
    ASSUME TableInv, NEW added
    PROVE  /\ KeepsOthers(WithVRules(options, added))
           /\ IsPreamble(WithVRules(options, added).preamble, NColumns)
<1> USE NamesOfOptions DEF OptionNames
<1>1. IsPreamble(options.preamble, NColumns)
    BY DEF TableInv, PreamblesFit
<1> DEFINE bare == [options.preamble EXCEPT !.boundaries =
                      [b \in 0..NColumns |-> WithRules(@[b], added[b])]]
           ruled == [options.preamble EXCEPT !.boundaries =
                       [b \in 0..NColumns |-> IF b = 0 THEN @[b] ELSE WithRules(@[b], added[b + 1])]]
<1>2. IsPreamble(bare, NColumns) /\ IsPreamble(ruled, NColumns)
    BY <1>1 DEF IsPreamble, Fits
<1>3. CASE ~options.include_index
    <2> DEFINE opts == [options EXCEPT !.preamble = bare]
    <2>1. WithVRules(options, added) = opts
        BY <1>3 DEF WithVRules
    <2>2. opts.preamble = bare /\ KeepsOthers(opts)
        BY DEF KeepsOthers, KeepsFormatters
    <2>3. QED
        BY <1>2, <2>1, <2>2
<1>4. CASE options.include_index
    <2> DEFINE opts == WithVRules(options, added)
    <2>1. opts.preamble = ruled /\ KeepsOthers(opts)
        BY <1>4 DEF WithVRules, KeepsOthers, KeepsFormatters
    <2>2. QED
        BY <1>2, <2>1
<1>5. QED
    BY <1>3, <1>4

LEMMA VerticalRulesKeep ==
    ASSUME TableInv, AddVRulesOf \/ AddVRuleAll \/ ClearAllVRule
    PROVE  TableInv'
<1> USE NamesOfOptions DEF OptionNames
<1>0. KeepsCommands(document)
    BY DEF KeepsCommands
<1>1. CASE AddVRulesOf
    <2>1. PICK indices, count, side : AddVRules(indices, count, side)
        BY <1>1 DEF AddVRulesOf
    <2> DEFINE opts == WithVRules(options, VRulesAt(indices, count, side))
    <2>2. Sets("columns", opts, document, {})
        BY <2>1 DEF AddVRules, SetsOptions
    <2>3. KeepsOthers(opts) /\ IsPreamble(opts.preamble, NColumns)
        BY RuledOptions
    <2>4. QED
        BY <1>0, <2>2, <2>3, PreambleSetsKeep
<1>2. CASE AddVRuleAll
    <2> DEFINE ones == [b \in 0..DisplayedColumns |-> 1]
               everywhere == WithVRules(options, ones)
               opts == IF options.include_index THEN everywhere
                       ELSE [everywhere EXCEPT !.index_column.left = WithRules(@, 1)]
    <2>1. Sets("columns", opts, document, {})
        BY <1>2 DEF AddVRuleAll, SetsOptions
    <2>2. KeepsOthers(everywhere) /\ IsPreamble(everywhere.preamble, NColumns)
        BY RuledOptions
    <2> HIDE DEF everywhere
    <2>3. KeepsOthers(opts) /\ opts.preamble = everywhere.preamble
        BY <2>2 DEF KeepsOthers, KeepsFormatters
    <2>4. QED
        BY <1>0, <2>1, <2>2, <2>3, PreambleSetsKeep
<1>3. CASE ClearAllVRule
    <2> DEFINE opts == [options EXCEPT !.preamble = WithoutVRules(@), !.index_column = IndexWithoutVRules(@),
                    !.group_preamble = IF @ = <<>> THEN @ ELSE <<WithoutVRules(@[1])>>,
                    !.group_index = IF @ = <<>> THEN @ ELSE <<IndexWithoutVRules(@[1])>>]
    <2>1. SetsOptions("columns", opts)
        BY <1>3 DEF ClearAllVRule
    <2>2. /\ DOMAIN opts = OptionNames
          /\ opts.preamble = WithoutVRules(options.preamble)
          /\ opts.group_preamble = IF options.group_preamble = <<>> THEN <<>>
                                   ELSE <<WithoutVRules(options.group_preamble[1])>>
          /\ opts.groups = options.groups
          /\ KeepsFormatters(opts)
        BY DEF KeepsFormatters
    <2> HIDE DEF opts
    <2>3. ASSUME NEW preamble, NEW n, IsPreamble(preamble, n)
          PROVE  IsPreamble(WithoutVRules(preamble), n)
        BY <2>3 DEF WithoutVRules, IsPreamble, Fits
    <2>4. PreamblesFit(opts)
        BY <2>2, <2>3, FreshNames DEF TableInv, PreamblesFit, NonEmptyGroups
    <2>5. QED
        BY <1>0, <2>1, <2>2, <2>4, SetsKeeps, KeptFormatters DEF SetsOptions
<1>4. QED
    BY <1>1, <1>2, <1>3

(***************************************************************************)
(* The index, the headers and the formats                                  *)
(***************************************************************************)

LEMMA ParsedIsPreamble ==
    ASSUME NEW fmt
    PROVE  IsPreamble(ParseTabularPreamble(fmt), NumberOfColumns(fmt))
BY DEF ParseTabularPreamble, IsPreamble, Fits

LEMMA WithoutIndexIsPreamble ==
    ASSUME NEW parsed, NEW n
    PROVE  IsPreamble(WithoutIndex(parsed, n), n)
BY DEF WithoutIndex, IsPreamble, Fits

LEMMA PackagesKeepCommands ==
    ASSUME TableInv, NEW packages
    PROVE  KeepsCommands(WithPackages(document, packages))
BY DEF TableInv, DocumentCounts, KeepsCommands, WithPackages, NewDocument

LEMMA IncludeIndexKeeps ==
    ASSUME TableInv, IncludeIndex
    PROVE  TableInv'
<1> USE NamesOfOptions DEF OptionNames
<1>1. PICK name, fmt :
        LET named == [options EXCEPT !.index_name = name]
        IN  \/ SetsOptions("columns", [named EXCEPT !.include_index = TRUE])
            \/ SetsOptions("columns", named)
            \/ Sets("columns", [named EXCEPT !.include_index = TRUE,
                                           !.index_column = IndexOf(ParseTabularPreamble(fmt))],
                    WithPackages(document, ColspecPackages(fmt)), {})
    BY DEF IncludeIndex
<1> DEFINE named == [options EXCEPT !.index_name = name]
           shown == [named EXCEPT !.include_index = TRUE]
           indexed == [named EXCEPT !.include_index = TRUE,
                                    !.index_column = IndexOf(ParseTabularPreamble(fmt))]
           Kept(opts) == KeepsPreambles(opts) /\ KeepsFormatters(opts)
<1>2. Kept(named)
    BY DEF KeepsPreambles, KeepsFormatters
<1>3. DOMAIN named = OptionNames
    OBVIOUS
<1>4. Kept(shown) /\ Kept(indexed)
    <2> HIDE DEF named
    <2>1. QED
        BY <1>2, <1>3 DEF KeepsPreambles, KeepsFormatters
<1>5. CASE SetsOptions("columns", shown)
    BY <1>4, <1>5, UnrelatedOptionsKeep
<1>6. CASE SetsOptions("columns", named)
    BY <1>2, <1>6, UnrelatedOptionsKeep
<1>7. CASE Sets("columns", indexed, WithPackages(document, ColspecPackages(fmt)), {})
    BY <1>4, <1>7, UnrelatedSetsKeep, PackagesKeepCommands
<1>8. QED
    BY <1>1, <1>5, <1>6, <1>7

LEMMA ShownHeadersKeep ==
    ASSUME TableInv, RemoveIndex \/ SetHeaders
    PROVE  TableInv'
<1> USE NamesOfOptions DEF OptionNames
<1>1. CASE RemoveIndex
    <2> DEFINE opts == [options EXCEPT !.include_index = FALSE]
    <2>1. KeepsPreambles(opts) /\ KeepsFormatters(opts)
        BY DEF KeepsPreambles, KeepsFormatters
    <2>2. QED
        BY <1>1, <2>1, UnrelatedOptionsKeep DEF RemoveIndex
<1>2. CASE SetHeaders
    <2>1. PICK columns, groups : SetsOptions("headers",
            [options EXCEPT !.include_column_headers = columns, !.include_group_headers = groups])
        BY <1>2 DEF SetHeaders
    <2> DEFINE opts == [options EXCEPT !.include_column_headers = columns,
                                       !.include_group_headers = groups]
    <2>2. KeepsPreambles(opts) /\ KeepsFormatters(opts)
        BY DEF KeepsPreambles, KeepsFormatters
    <2>3. QED
        BY <2>1, <2>2, UnrelatedOptionsKeep
<1>3. QED
    BY <1>1, <1>2

LEMMA TabularFormatKeeps ==
    ASSUME TableInv, SetTabularFormat
    PROVE  TableInv'
<1> USE NamesOfOptions DEF OptionNames
<1>1. PICK fmt \in Formats :
        /\ NumberOfColumns(fmt) = DisplayedColumns
        /\ Sets("columns",
                IF options.include_index
                THEN [options EXCEPT !.index_column = IndexOf(ParseTabularPreamble(fmt)),
                                     !.preamble = WithoutIndex(ParseTabularPreamble(fmt), NColumns)]
                ELSE [options EXCEPT !.preamble = ParseTabularPreamble(fmt)],
                WithPackages(document, ColspecPackages(fmt)), {})
    BY DEF SetTabularFormat
<1>2. CASE options.include_index
    <2> DEFINE opts == [options EXCEPT !.index_column = IndexOf(ParseTabularPreamble(fmt)),
                                       !.preamble = WithoutIndex(ParseTabularPreamble(fmt), NColumns)]
    <2>1. KeepsOthers(opts) /\ opts.preamble = WithoutIndex(ParseTabularPreamble(fmt), NColumns)
        BY DEF KeepsOthers, KeepsFormatters
    <2>2. QED
        BY <1>1, <1>2, <2>1, WithoutIndexIsPreamble, PreambleSetsKeep, PackagesKeepCommands
<1>3. CASE ~options.include_index
    <2> DEFINE opts == [options EXCEPT !.preamble = ParseTabularPreamble(fmt)]
    <2>1. KeepsOthers(opts) /\ opts.preamble = ParseTabularPreamble(fmt)
        BY DEF KeepsOthers, KeepsFormatters
    <2>2. NumberOfColumns(fmt) = NColumns
        BY <1>1, <1>3, ColumnsAreListed DEF DisplayedColumns, IndexCells
    <2>3. IsPreamble(opts.preamble, NColumns)
        BY <2>1, <2>2, ParsedIsPreamble
    <2>4. QED
        BY <1>1, <1>3, <2>1, <2>3, PreambleSetsKeep, PackagesKeepCommands
<1>4. QED
    BY <1>2, <1>3

\* The header groups, or the preamble of their cells, are replaced.
LEMMA GroupSetsKeep ==
    ASSUME TableInv, NEW topic, NEW opts, NEW doc, Sets(topic, opts, doc, {}), KeepsCommands(doc),
           DOMAIN opts = OptionNames, opts.preamble = options.preamble, KeepsFormatters(opts),
           opts.groups \in Seq(HeaderGroup),
           opts.group_preamble # <<>> => IsPreamble(opts.group_preamble[1], Len(NonEmptyGroups(opts)))
    PROVE  TableInv'
<1>1. PreamblesFit(opts)
    BY FreshNames DEF TableInv, PreamblesFit
<1>2. QED
    BY <1>1, SetsKeeps, KeptFormatters

LEMMA GroupFormatKeeps ==
    ASSUME TableInv, SetGroupTabularFormat
    PROVE  TableInv'
<1> USE NamesOfOptions DEF OptionNames
<1> DEFINE cells == Len(NonEmptyGroups(options))
<1>1. PICK fmt \in Formats :
        LET omitted == options.include_index /\ NumberOfColumns(fmt) = cells
        IN  /\ \/ NumberOfColumns(fmt) = cells
               \/ options.include_index /\ NumberOfColumns(fmt) = cells + 1
            /\ Sets("headers", WithGroupFormat(options, ParseTabularPreamble(fmt), omitted, cells),
                    WithPackages(document, ColspecPackages(fmt)), {})
    BY DEF SetGroupTabularFormat
<1> DEFINE parsed == ParseTabularPreamble(fmt)
           omitted == options.include_index /\ NumberOfColumns(fmt) = cells
           opts == WithGroupFormat(options, parsed, omitted, cells)
           bare == [options EXCEPT !.group_index = <<>>, !.group_preamble = <<parsed>>]
           implied == [options EXCEPT !.group_index = <<ImpliedGroupIndex(options, parsed)>>,
                                      !.group_preamble = <<parsed>>]
           given == [options EXCEPT !.group_index = <<IndexOf(parsed)>>,
                                    !.group_preamble = <<WithoutIndex(parsed, cells)>>]
<1> HIDE DEF cells
<1>2. CASE ~options.include_index
    <2>1. opts = bare
        BY <1>2, Zenon DEF WithGroupFormat
    <2>2. /\ DOMAIN bare = OptionNames /\ bare.preamble = options.preamble /\ KeepsFormatters(bare)
          /\ bare.groups = options.groups /\ bare.group_preamble = <<parsed>>
        BY DEF KeepsFormatters
    <2>3. IsPreamble(parsed, cells)
        BY <1>1, <1>2, ParsedIsPreamble
    <2> HIDE DEF bare, parsed
    <2>4. IsPreamble(bare.group_preamble[1], Len(NonEmptyGroups(bare)))
        BY <2>2, <2>3 DEF NonEmptyGroups, cells
    <2>5. bare.groups \in Seq(HeaderGroup)
        BY <2>2 DEF TableInv, PreamblesFit
    <2>6. Sets("headers", bare, WithPackages(document, ColspecPackages(fmt)), {})
        BY <1>1, <2>1 DEF parsed
    <2>7. QED
        BY <2>2, <2>4, <2>5, <2>6, GroupSetsKeep, PackagesKeepCommands
<1>3. CASE options.include_index /\ omitted
    <2>1. opts = implied
        BY <1>3, Zenon DEF WithGroupFormat
    <2>2. /\ DOMAIN implied = OptionNames /\ implied.preamble = options.preamble
          /\ KeepsFormatters(implied)
          /\ implied.groups = options.groups /\ implied.group_preamble = <<parsed>>
        BY DEF KeepsFormatters
    <2>3. IsPreamble(parsed, cells)
        BY <1>1, <1>3, ParsedIsPreamble
    <2> HIDE DEF implied, parsed
    <2>4. IsPreamble(implied.group_preamble[1], Len(NonEmptyGroups(implied)))
        BY <2>2, <2>3 DEF NonEmptyGroups, cells
    <2>5. implied.groups \in Seq(HeaderGroup)
        BY <2>2 DEF TableInv, PreamblesFit
    <2>6. Sets("headers", implied, WithPackages(document, ColspecPackages(fmt)), {})
        BY <1>1, <2>1 DEF parsed
    <2>7. QED
        BY <2>2, <2>4, <2>5, <2>6, GroupSetsKeep, PackagesKeepCommands
<1>4. CASE options.include_index /\ ~omitted
    <2>1. opts = given
        BY <1>4, Zenon DEF WithGroupFormat
    <2>2. /\ DOMAIN given = OptionNames /\ given.preamble = options.preamble
          /\ KeepsFormatters(given)
          /\ given.groups = options.groups /\ given.group_preamble = <<WithoutIndex(parsed, cells)>>
        BY DEF KeepsFormatters
    <2>3. IsPreamble(WithoutIndex(parsed, cells), cells)
        BY WithoutIndexIsPreamble
    <2> HIDE DEF given, parsed
    <2>4. IsPreamble(given.group_preamble[1], Len(NonEmptyGroups(given)))
        BY <2>2, <2>3 DEF NonEmptyGroups, cells
    <2>5. given.groups \in Seq(HeaderGroup)
        BY <2>2 DEF TableInv, PreamblesFit
    <2>6. Sets("headers", given, WithPackages(document, ColspecPackages(fmt)), {})
        BY <1>1, <2>1 DEF parsed
    <2>7. QED
        BY <2>2, <2>4, <2>5, <2>6, GroupSetsKeep, PackagesKeepCommands
<1>5. QED
    BY <1>2, <1>3, <1>4

\* A group without a name.
LEMMA GroupIsHeaderGroup ==
    ASSUME NEW columns \in Seq(ToSet(Columns))
    PROVE  [name |-> "", columns |-> columns] \in HeaderGroup
<1> DEFINE S == Seq(ToSet(Columns))
<1>1. columns \in S
    OBVIOUS
<1> HIDE DEF S
<1>2. [name |-> "", columns |-> columns] \in [name : {""} \cup STRING, columns : S]
    BY <1>1
<1>3. QED
    BY <1>2 DEF HeaderGroup, S

\* The groups that are kept list columns of the data frame.
LEMMA UnlistedJoin ==
    ASSUME NEW groups \in HeaderGroups, AreListedOnce(groups)
    PROVE  WithUnlisted(groups) \in Seq(HeaderGroup)
<1> DEFINE missing == Unlisted(UNION {ToSet(groups[g].columns) : g \in DOMAIN groups})
<1>1. missing \in Seq(ToSet(Columns))
    BY UnlistedAreColumns
<1>2. groups \in Seq([name : STRING, columns : Seq(STRING)])
    BY TableAssumption
<1> HIDE DEF missing
<1>3. ASSUME NEW g \in DOMAIN groups
      PROVE  groups[g] \in HeaderGroup
    <2>1. groups[g] \in [name : STRING, columns : Seq(STRING)]
        <3> DEFINE X == [name : STRING, columns : Seq(STRING)]
        <3>1. groups \in Seq(X)
            BY <1>2
        <3> HIDE DEF X
        <3>2. groups[g] \in X
            BY <3>1
        <3>3. QED
            BY <3>2 DEF X
    <2>2. groups[g].columns \in Seq(STRING) /\ ToSet(groups[g].columns) \subseteq ToSet(Columns)
        BY <2>1 DEF AreListedOnce
    <2> DEFINE listed == groups[g].columns
    <2>3. \A i \in 1 .. Len(listed) : listed[i] \in ToSet(Columns)
        BY <2>2 DEF ToSet
    <2>4. listed \in Seq(ToSet(Columns))
        <3> HIDE DEF listed
        <3>1. listed \in Seq(STRING)
            BY <2>2 DEF listed
        <3>2. listed = [i \in 1 .. Len(listed) |-> listed[i]] /\ Len(listed) \in Nat
            BY <3>1
        <3>3. [i \in 1 .. Len(listed) |-> listed[i]] \in Seq(ToSet(Columns))
            BY <2>3, <3>2
        <3>4. QED
            BY <3>2, <3>3
    <2>5. QED
        BY <2>1, <2>4 DEF HeaderGroup
<1>4. groups \in Seq(HeaderGroup)
    <2>1. groups = [g \in 1 .. Len(groups) |-> groups[g]] /\ Len(groups) \in Nat
          /\ DOMAIN groups = 1 .. Len(groups)
        BY <1>2
    <2>2. [g \in 1 .. Len(groups) |-> groups[g]] \in Seq(HeaderGroup)
        BY <1>3, <2>1
    <2>3. QED
        BY <2>1, <2>2
<1> DEFINE joined(g) == [groups[g] EXCEPT !.columns = @ \o missing]
           unnamed == [name |-> "", columns |-> missing]
           all == [g \in DOMAIN groups |-> IF groups[g].name = "" THEN joined(g) ELSE groups[g]]
<1>5. unnamed \in HeaderGroup
    BY <1>1, GroupIsHeaderGroup
<1>6. Append(groups, unnamed) \in Seq(HeaderGroup)
    <2> HIDE DEF unnamed
    <2>1. QED
        BY <1>4, <1>5, AppendProperties
<1>7. ASSUME NEW g \in DOMAIN groups
      PROVE  joined(g) \in HeaderGroup
    <2>0. groups[g].columns \in Seq(ToSet(Columns))
        BY <1>3 DEF HeaderGroup
    <2>1. groups[g].columns \o missing \in Seq(ToSet(Columns))
        BY <1>1, <2>0, ConcatProperties
    <2>2. QED
        BY <1>3, <2>1 DEF HeaderGroup
<1>8. all \in Seq(HeaderGroup)
    <2>1. DOMAIN groups = 1 .. Len(groups) /\ Len(groups) \in Nat
        BY <1>4
    <2> DEFINE kept(g) == IF groups[g].name = "" THEN joined(g) ELSE groups[g]
    <2>2. \A g \in 1 .. Len(groups) : kept(g) \in HeaderGroup
        BY <1>3, <1>7, <2>1
    <2> HIDE DEF kept
    <2>3. [g \in 1 .. Len(groups) |-> kept(g)] \in Seq(HeaderGroup)
        BY <2>1, <2>2, IsASeq
    <2>4. QED
        BY <2>1, <2>3 DEF kept
<1>9. QED
    BY <1>4, <1>6, <1>8 DEF WithUnlisted, missing

LEMMA HeaderGroupsKeep ==
    ASSUME TableInv, SetHeaderGroups \/ ClearHeaderGroups
    PROVE  TableInv'
<1> USE NamesOfOptions DEF OptionNames
<1>0. KeepsCommands(document)
    BY DEF KeepsCommands
<1>1. PICK groups \in Seq(HeaderGroup) :
        SetsOptions("headers", [options EXCEPT !.groups = groups, !.group_preamble = <<>>,
                                              !.group_index = <<>>])
    <2>1. CASE SetHeaderGroups
        <3>1. PICK groups \in HeaderGroups :
                /\ AreListedOnce(groups)
                /\ SetsOptions("headers", [options EXCEPT !.groups = WithUnlisted(groups),
                                              !.group_preamble = <<>>, !.group_index = <<>>])
            BY <2>1 DEF SetHeaderGroups
        <3>2. QED
            BY <3>1, UnlistedJoin
    <2>2. CASE ClearHeaderGroups
        <3>1. OneGroup \in Seq(HeaderGroup)
            <4> DEFINE group == [name |-> "", columns |-> Columns]
            <4>1. group \in HeaderGroup
                BY ColumnsAreListed, GroupIsHeaderGroup
            <4> HIDE DEF group
            <4>2. <<group>> \in Seq(HeaderGroup)
                BY <4>1
            <4>3. QED
                BY <4>2 DEF OneGroup, group
        <3>2. QED
            BY <2>2, <3>1 DEF ClearHeaderGroups
    <2>3. QED
        BY <2>1, <2>2
<1> DEFINE opts == [options EXCEPT !.groups = groups, !.group_preamble = <<>>, !.group_index = <<>>]
<1>2. /\ DOMAIN opts = OptionNames /\ opts.preamble = options.preamble /\ KeepsFormatters(opts)
      /\ opts.groups = groups /\ opts.group_preamble = <<>>
    BY DEF KeepsFormatters
<1> HIDE DEF opts
<1>3. Sets("headers", opts, document, {})
    BY <1>1 DEF SetsOptions, opts
<1>4. QED
    BY <1>0, <1>2, <1>3, GroupSetsKeep

(***************************************************************************)
(* Cells                                                                   *)
(***************************************************************************)

LEMMA CommandsAreKnown ==
    ASSUME NEW formatter \in Seq(Primitives)
    PROVE  CommandsFor(formatter) \subseteq Commands
<1>1. \A i \in DOMAIN formatter : formatter[i] \in Primitives
    OBVIOUS
<1>2. QED
    BY <1>1, TableAssumption DEF CommandsFor

\* A formatter is registered, and then used unless it is refused.
LEMMA FormatterSetsKeep ==
    ASSUME TableInv, NEW formatter \in Formatters, NEW opts, SetsFormatter(formatter, opts),
           KeepsPreambles(opts),
           FormattersInUse(opts) \subseteq FormattersInUse(options) \cup {formatter}
    PROVE  TableInv'
<1> DEFINE added == Registered(formatter)
           doc == WithCommands(document, added)
           used == IF formatter \in Unfit THEN options ELSE opts
<1>1. /\ options' = used /\ document' = doc /\ user' = user
      /\ formatter_commands' = formatter_commands \cup added
    BY DEF SetsFormatter, Sets
<1>2. formatter \in Seq(Primitives) /\ CommandsFor(formatter) \subseteq Commands
    BY TableAssumption, CommandsAreKnown
<1>3. added \subseteq Commands /\ \A c \in CommandsFor(formatter) : c \in added \/ HasCommand(document, c)
    BY <1>2 DEF Registered
<1>4. \A c \in added : document.command_list[c] = 0 /\ c \notin formatter_commands
    <2> SUFFICES ASSUME NEW c \in added
                 PROVE  document.command_list[c] = 0 /\ c \notin formatter_commands
        OBVIOUS
    <2>1. c \in Commands /\ ~(document.command_list[c] > 0)
        BY <1>3 DEF Registered, HasCommand
    <2>2. document.command_list[c] \in Nat /\ user[c] \in Nat
        BY <2>1 DEF TableInv, DocumentCounts
    <2>3. QED
        BY <2>1, <2>2 DEF TableInv, DocumentCounts
<1>5. /\ DOMAIN doc = DOMAIN NewDocument
      /\ doc.command_list = [c \in Commands |-> IF c \in added THEN document.command_list[c] + 1
                                                ELSE document.command_list[c]]
    BY DEF WithCommands, TableInv, DocumentCounts, NewDocument
<1> HIDE DEF added, doc
<1>6. DocumentCounts'
    <2>1. doc.command_list \in [Commands -> Nat]
        BY <1>5 DEF TableInv, DocumentCounts
    <2>2. \A c \in Commands :
             doc.command_list[c] = user[c] + (IF c \in formatter_commands \cup added THEN 1 ELSE 0)
        <3> SUFFICES ASSUME NEW c \in Commands
                     PROVE  doc.command_list[c] = user[c] + (IF c \in formatter_commands \cup added THEN 1 ELSE 0)
            OBVIOUS
        <3>1. document.command_list[c] = user[c] + (IF c \in formatter_commands THEN 1 ELSE 0)
              /\ user[c] \in Nat /\ document.command_list[c] \in Nat
            BY DEF TableInv, DocumentCounts
        <3>2. QED
            BY <1>4, <1>5, <3>1
    <2>3. QED
        BY <1>1, <1>3, <1>5, <2>1, <2>2 DEF TableInv, DocumentCounts
<1>7. \A c \in Commands : HasCommand(document, c) => HasCommand(doc, c)
    BY <1>5 DEF HasCommand, TableInv, DocumentCounts
<1>8. \A c \in added : HasCommand(doc, c)
    BY <1>3, <1>4, <1>5 DEF HasCommand
<1>9. Provides(doc, formatter)
    BY <1>2, <1>3, <1>7, <1>8 DEF Provides
<1>10. \A f \in FormattersInUse(options) : Provides(doc, f)
    BY <1>7, CommandsAreKnown DEF TableInv, Provides
<1>11. FormattersInUse(used) \subseteq FormattersInUse(options) \cup {formatter}
    OBVIOUS
<1>12. PreamblesFit(used)
    BY KeptPreamblesFit DEF TableInv
<1> HIDE DEF used
<1>13. PreamblesFit(options)' /\ FormattersInUse(options)' = FormattersInUse(used)
    BY <1>1, <1>12 DEF PreamblesFit, FormattersInUse, IsPreamble, NonEmptyGroups
<1>14. \A f \in FormattersInUse(used) : f \in Seq(Primitives) /\ Provides(doc, f)
    BY <1>2, <1>9, <1>10, <1>11 DEF TableInv
<1>15. (\A f \in FormattersInUse(options) : Provides(document, f))'
    BY <1>1, <1>13, <1>14 DEF Provides, HasCommand
<1>16. QED
    BY <1>6, <1>13, <1>14, <1>15 DEF TableInv

LEMMA FormattersKeep ==
    ASSUME TableInv, SetFormatter \/ SetColumnFormatter \/ SetRowFormatter
    PROVE  TableInv'
<1> USE NamesOfOptions DEF OptionNames
<1>1. CASE SetFormatter
    <2>1. PICK formatter \in Formatters :
            \/ SetsFormatter(formatter, [options EXCEPT !.number_fmt = formatter])
            \/ SetsFormatter(formatter, [options EXCEPT !.str_fmt = formatter])
            \/ SetsFormatter(formatter, [options EXCEPT !.index_fmt = formatter])
        BY <1>1 DEF SetFormatter
    <2> DEFINE Good(opts) == /\ KeepsPreambles(opts)
                             /\ FormattersInUse(opts) \subseteq FormattersInUse(options) \cup {formatter}
    <2>2. Good([options EXCEPT !.number_fmt = formatter])
        BY DEF KeepsPreambles, FormattersInUse
    <2>3. Good([options EXCEPT !.str_fmt = formatter])
        BY DEF KeepsPreambles, FormattersInUse
    <2>4. Good([options EXCEPT !.index_fmt = formatter])
        BY DEF KeepsPreambles, FormattersInUse
    <2>5. QED
        BY <2>1, <2>2, <2>3, <2>4, FormatterSetsKeep
<1>2. CASE SetColumnFormatter
    <2>1. PICK formatter \in Formatters, columns \in SUBSET ToSet(Columns) : SetsFormatter(formatter,
            [options EXCEPT !.col_formatters =
               [c \in ToSet(Columns) |-> IF c \in columns THEN formatter ELSE @[c]]])
        BY <1>2 DEF SetColumnFormatter
    <2> DEFINE opts == [options EXCEPT !.col_formatters =
                          [c \in ToSet(Columns) |-> IF c \in columns THEN formatter ELSE @[c]]]
    <2>2. /\ KeepsPreambles(opts)
          /\ opts.number_fmt = options.number_fmt /\ opts.str_fmt = options.str_fmt
          /\ opts.index_fmt = options.index_fmt /\ opts.row_formatters = options.row_formatters
          /\ \A c \in ToSet(Columns) : opts.col_formatters[c] \in {formatter, options.col_formatters[c]}
        BY DEF KeepsPreambles
    <2>3. SetsFormatter(formatter, opts)
        BY <2>1
    <2> HIDE DEF opts
    <2>4. FormattersInUse(opts) \subseteq FormattersInUse(options) \cup {formatter}
        BY <2>2 DEF FormattersInUse
    <2>5. QED
        BY <2>2, <2>3, <2>4, FormatterSetsKeep
<1>3. CASE SetRowFormatter
    <2>1. PICK formatter \in Formatters, indices \in IndexLists : SetsFormatter(formatter,
            [options EXCEPT !.row_formatters =
               [r \in RowIndices |-> IF Times(Applied(indices, Rows - 1), r) > 0 THEN formatter ELSE @[r]]])
        BY <1>3 DEF SetRowFormatter
    <2> DEFINE opts == [options EXCEPT !.row_formatters =
               [r \in RowIndices |-> IF Times(Applied(indices, Rows - 1), r) > 0 THEN formatter ELSE @[r]]]
    <2>2. /\ KeepsPreambles(opts)
          /\ opts.number_fmt = options.number_fmt /\ opts.str_fmt = options.str_fmt
          /\ opts.index_fmt = options.index_fmt /\ opts.col_formatters = options.col_formatters
          /\ \A r \in RowIndices : opts.row_formatters[r] \in {formatter, options.row_formatters[r]}
        BY DEF KeepsPreambles
    <2>3. SetsFormatter(formatter, opts)
        BY <2>1
    <2> HIDE DEF opts
    <2>4. FormattersInUse(opts) \subseteq FormattersInUse(options) \cup {formatter}
        BY <2>2 DEF FormattersInUse
    <2>5. QED
        BY <2>2, <2>3, <2>4, FormatterSetsKeep
<1>4. QED
    BY <1>1, <1>2, <1>3

LEMMA CellsKeep ==
    ASSUME TableInv, HighlightRows \/ SetDecimalCount
    PROVE  TableInv'
<1> USE NamesOfOptions DEF OptionNames
<1>1. CASE HighlightRows
    <2>1. PICK colors : SetsOptions("cells", [options EXCEPT !.row_colors = colors])
        BY <1>1 DEF HighlightRows
    <2> DEFINE opts == [options EXCEPT !.row_colors = colors]
    <2>2. KeepsPreambles(opts) /\ KeepsFormatters(opts)
        BY DEF KeepsPreambles, KeepsFormatters
    <2>3. QED
        BY <2>1, <2>2, UnrelatedOptionsKeep
<1>2. CASE SetDecimalCount
    <2> DEFINE opts == [options EXCEPT !.number_fmt = Decimals]
    <2>1. KeepsPreambles(opts) /\ FormattersInUse(opts) \subseteq FormattersInUse(options) \cup {Decimals}
        BY DEF KeepsPreambles, FormattersInUse
    <2>2. Sets("cells", opts, document, {})
        BY <1>2 DEF SetDecimalCount, SetsOptions
    <2>3. PreamblesFit(opts) /\ KeepsCommands(document)
        BY <2>1, KeptPreamblesFit DEF TableInv, KeepsCommands
    <2> HIDE DEF opts
    <2>4. QED
        BY <2>1, <2>2, <2>3, SetsKeeps
<1>3. QED
    BY <1>1, <1>2

\* Fresh options use no formatter that has commands.
LEMMA FreshOptionsFit ==
    ASSUME NEW opts \in {FreshOptions, DefaultOptions}
    PROVE  PreamblesFit(opts) /\ FormattersInUse(opts) \subseteq {NoFormatter, Decimals}
<1>1. /\ DOMAIN opts = DOMAIN FreshOptions
      /\ opts.preamble = PlainPreamble(NColumns) /\ opts.group_preamble = <<>>
      /\ opts.groups = OneGroup
      /\ opts.number_fmt \in {NoFormatter, Decimals}
      /\ opts.str_fmt = NoFormatter /\ opts.index_fmt = NoFormatter
      /\ opts.col_formatters = [column \in ToSet(Columns) |-> NoFormatter]
      /\ opts.row_formatters = [r \in RowIndices |-> NoFormatter]
    <2>1. CASE opts = FreshOptions
        BY <2>1 DEF FreshOptions
    <2>2. CASE opts = DefaultOptions
        BY <2>2, FreshNames DEF DefaultOptions, OptionNames, FreshOptions
    <2>3. QED
        BY <2>1, <2>2
<1>2. OneGroup \in Seq(HeaderGroup)
    <2> DEFINE group == [name |-> "", columns |-> Columns]
    <2>1. group \in HeaderGroup
        BY ColumnsAreListed, GroupIsHeaderGroup
    <2> HIDE DEF group
    <2>2. <<group>> \in Seq(HeaderGroup)
        BY <2>1
    <2>3. QED
        BY <2>2 DEF OneGroup, group
<1>3. PreamblesFit(opts)
    BY <1>1, <1>2 DEF PreamblesFit, PlainPreamble, IsPreamble, Fits
<1>4. QED
    BY <1>1, <1>3 DEF FormattersInUse

LEMMA NoFormatterCommands ==
    /\ CommandsFor(NoFormatter) = {} /\ CommandsFor(Decimals) = {}
    /\ NoFormatter \in Seq(Primitives) /\ Decimals \in Seq(Primitives)
BY TableAssumption DEF CommandsFor, NoFormatter, Decimals

LEMMA ClearOptionsKeeps ==
    ASSUME TableInv, ClearOptions
    PROVE  TableInv'
<1> DEFINE doc == [document EXCEPT !.command_list =
               [c \in Commands |-> IF c \in formatter_commands /\ @[c] > 0 THEN @[c] - 1 ELSE @[c]]]
<1>1. options' = FreshOptions /\ document' = doc /\ formatter_commands' = {} /\ user' = user
    BY DEF ClearOptions
<1>2. DOMAIN doc = DOMAIN NewDocument /\ doc.command_list = user
    <2>1. DOMAIN doc = DOMAIN NewDocument
          /\ doc.command_list = [c \in Commands |->
                IF c \in formatter_commands /\ document.command_list[c] > 0
                THEN document.command_list[c] - 1 ELSE document.command_list[c]]
        BY DEF TableInv, DocumentCounts, NewDocument
    <2>2. \A c \in Commands :
            (IF c \in formatter_commands /\ document.command_list[c] > 0
             THEN document.command_list[c] - 1 ELSE document.command_list[c]) = user[c]
        <3> SUFFICES ASSUME NEW c \in Commands
                     PROVE  (IF c \in formatter_commands /\ document.command_list[c] > 0
                             THEN document.command_list[c] - 1 ELSE document.command_list[c]) = user[c]
            OBVIOUS
        <3>1. document.command_list[c] = user[c] + (IF c \in formatter_commands THEN 1 ELSE 0)
              /\ user[c] \in Nat
            BY DEF TableInv, DocumentCounts
        <3>2. QED
            BY <3>1
    <2>3. user = [c \in Commands |-> user[c]]
        BY DEF TableInv, DocumentCounts
    <2>4. QED
        BY <2>1, <2>2, <2>3
<1> HIDE DEF doc
<1>3. DocumentCounts'
    <2>1. \A c \in Commands : user[c] \in Nat
        BY DEF TableInv, DocumentCounts
    <2>2. QED
        BY <1>1, <1>2, <2>1 DEF TableInv, DocumentCounts
<1>4. PreamblesFit(FreshOptions) /\ FormattersInUse(FreshOptions) \subseteq {NoFormatter, Decimals}
    BY FreshOptionsFit
<1>5. PreamblesFit(options)' /\ FormattersInUse(options)' = FormattersInUse(FreshOptions)
    BY <1>1, <1>4 DEF PreamblesFit, FormattersInUse, IsPreamble, NonEmptyGroups
<1>6. (\A formatter \in FormattersInUse(options) : Provides(document, formatter))'
    BY <1>4, <1>5, NoFormatterCommands DEF Provides
<1>7. QED
    BY <1>3, <1>4, <1>5, <1>6, NoFormatterCommands DEF TableInv

(***************************************************************************)
(* Drawings, and the document                                              *)
(***************************************************************************)

LEMMA DrawsKeep ==
    ASSUME TableInv, SetsDraws
    PROVE  TableInv'
<1> USE NamesOfOptions DEF OptionNames
<1>1. \E value : \/ SetsOptions("draws", [options EXCEPT !.cell_borders = value])
                 \/ SetsOptions("draws", [options EXCEPT !.extra_draws = value])
    BY DEF SetsDraws, SetCellBorder, AddDraw, ClearDraws
<1>2. PICK value : \/ SetsOptions("draws", [options EXCEPT !.cell_borders = value])
                   \/ SetsOptions("draws", [options EXCEPT !.extra_draws = value])
    BY <1>1
<1> DEFINE Kept(opts) == KeepsPreambles(opts) /\ KeepsFormatters(opts)
<1>3. Kept([options EXCEPT !.cell_borders = value])
    BY DEF KeepsPreambles, KeepsFormatters
<1>4. Kept([options EXCEPT !.extra_draws = value])
    BY DEF KeepsPreambles, KeepsFormatters
<1>5. QED
    BY <1>2, <1>3, <1>4, UnrelatedOptionsKeep

\* A document that has gained commands of the caller's.
LEMMA DocumentsKeep ==
    ASSUME TableInv, NEW doc, NEW added,
           UNCHANGED <<options, formatter_commands>>, document' = doc, user' = added,
           DOMAIN doc = DOMAIN document,
           \/ doc.command_list = document.command_list /\ added = user
           \/ \E c \in Commands :
                 /\ doc.command_list = [document.command_list EXCEPT ![c] = @ + 1]
                 /\ added = [user EXCEPT ![c] = @ + 1]
    PROVE  TableInv'
<1>1. CASE doc.command_list = document.command_list /\ added = user
    <2>1. DocumentCounts'
        BY <1>1 DEF TableInv, DocumentCounts
    <2>2. \A formatter : Provides(document, formatter) => Provides(document, formatter)'
        BY <1>1 DEF Provides, HasCommand
    <2>3. PreamblesFit(options)' /\ FormattersInUse(options)' = FormattersInUse(options)
        BY DEF TableInv, PreamblesFit, FormattersInUse, IsPreamble, NonEmptyGroups
    <2>4. QED
        BY <2>1, <2>2, <2>3 DEF TableInv
<1>2. ASSUME NEW c \in Commands, doc.command_list = [document.command_list EXCEPT ![c] = @ + 1],
             added = [user EXCEPT ![c] = @ + 1]
      PROVE  TableInv'
    <2>1. DocumentCounts'
        BY <1>2 DEF TableInv, DocumentCounts
    <2>2. \A x \in Commands : HasCommand(document, x) => HasCommand(doc, x)
        BY <1>2 DEF TableInv, DocumentCounts, HasCommand
    <2>3. \A formatter \in Seq(Primitives) : Provides(document, formatter) => Provides(doc, formatter)
        BY <2>2, CommandsAreKnown DEF Provides
    <2>4. PreamblesFit(options)' /\ FormattersInUse(options)' = FormattersInUse(options)
        BY DEF TableInv, PreamblesFit, FormattersInUse, IsPreamble, NonEmptyGroups
    <2>5. (\A formatter \in FormattersInUse(options) : Provides(document, formatter))'
        BY <2>3, <2>4 DEF TableInv, Provides, HasCommand
    <2>6. QED
        BY <2>1, <2>4, <2>5 DEF TableInv
<1>3. QED
    BY <1>1, <1>2

LEMMA HandlesKeepCommands ==
    ASSUME TableInv, NEW bodies, NEW handle \in Handles(bodies)
    PROVE  KeepsCommands(handle) /\ DOMAIN handle = DOMAIN NewDocument
BY DEF Handles, KeepsCommands, TableInv, DocumentCounts, NewDocument

LEMMA DocumentKeeps ==
    ASSUME TableInv, UsesTableDocument
    PROVE  TableInv'
<1> DEFINE bodies == {GenerateLatex}
<1> HIDE DEF bodies
<1>0. UsesDocument(bodies) /\ UNCHANGED <<options, formatter_commands>>
    BY DEF UsesTableDocument, bodies
<1> USE HandlesKeepCommands DEF KeepsCommands
<1>1. CASE AccessDocument(bodies)
    <2>1. PICK body \in bodies : document' = [document EXCEPT !.body = body] /\ user' = user
        BY <1>1 DEF AccessDocument, Documents
    <2>2. [document EXCEPT !.body = body] \in Handles(bodies)
        BY DEF Handles
    <2>3. QED
        BY <1>0, <2>1, <2>2, DocumentsKeep
<1>2. CASE AddPackages(bodies) \/ AddPackageWithOptions(bodies) \/ AddColor(bodies)
    <2>1. PICK handle \in Handles(bodies) :
            \/ \E package : document' = WithPackages(handle, {package})
            \/ \E package : document' = WithPackageOptions(handle, package)
            \/ \E name, color : document' = WithColor(handle, name, color)
        BY <1>2 DEF AddPackages, AddPackageWithOptions, AddColor, Documents
    <2>2. user' = user
        BY <1>2 DEF AddPackages, AddPackageWithOptions, AddColor, Documents
    <2>3. DOMAIN handle = DOMAIN NewDocument /\ handle.command_list = document.command_list
          /\ DOMAIN document = DOMAIN NewDocument
        BY DEF TableInv, DocumentCounts
    <2> DEFINE Same(doc) == DOMAIN doc = DOMAIN document /\ doc.command_list = document.command_list
    <2>4. \A package : Same(WithPackages(handle, {package}))
        BY <2>3 DEF WithPackages, NewDocument
    <2>5. \A package : Same(WithPackageOptions(handle, package))
        BY <2>3 DEF WithPackageOptions, NewDocument
    <2>6. \A name, color : Same(WithColor(handle, name, color))
        BY <2>3 DEF WithColor, NewDocument
    <2>7. \E doc : document' = doc /\ Same(doc)
        <3> HIDE DEF Same
        <3>1. QED
            BY <2>1, <2>4, <2>5, <2>6
    <2>8. QED
        BY <1>0, <2>2, <2>7, DocumentsKeep
<1>3. CASE AddCommand(bodies)
    <2>1. PICK handle \in Handles(bodies), c \in Commands :
            document' = WithCommand(handle, c) /\ user' = [user EXCEPT ![c] = @ + 1]
        BY <1>3 DEF AddCommand, Documents
    <2>2. DOMAIN document' = DOMAIN document
          /\ document'.command_list = [document.command_list EXCEPT ![c] = @ + 1]
        BY <2>1 DEF WithCommand, NewDocument
    <2>3. QED
        BY <1>0, <2>1, <2>2, DocumentsKeep
<1>4. CASE SavePdf(bodies) \/ SavePng(bodies)
    <2>1. PICK handle \in Handles(bodies) : document' = handle /\ user' = user
        BY <1>4 DEF SavePdf, SavePng, Saves
    <2>2. QED
        BY <1>0, <2>1, DocumentsKeep
<1>5. QED
    BY <1>0, <1>1, <1>2, <1>3, <1>4 DEF UsesDocument

(***************************************************************************)
(* The invariant, and what follows from it                                 *)
(***************************************************************************)

LEMMA TableInvInit == TableInit => TableInv
<1> SUFFICES ASSUME TableInit PROVE TableInv
    OBVIOUS
<1>1. PICK doc : doc = SetupDocument(dialect) /\ DocumentInit(doc)
    BY DEF TableInit
<1>2. DOMAIN doc = DOMAIN NewDocument /\ doc.command_list \in [Commands -> Nat]
    BY <1>1, TableAssumption DEF SetupDocument, NewDocument, WithCommand, WithPackages
<1>3. document = doc /\ user = [c \in Commands |-> doc.command_list[c]] /\ formatter_commands = {}
    BY <1>1 DEF DocumentInit, TableInit
<1>4. DocumentCounts
    BY <1>2, <1>3 DEF DocumentCounts
<1>5. PreamblesFit(options) /\ FormattersInUse(options) \subseteq {NoFormatter, Decimals}
    BY FreshOptionsFit DEF TableInit
<1>6. QED
    BY <1>4, <1>5, NoFormatterCommands DEF TableInv, Provides

LEMMA TableInvStutters ==
    ASSUME TableInv, UNCHANGED tableVars
    PROVE  TableInv'
BY DocumentsKeep DEF tableVars

LEMMA TableInvNext ==
    ASSUME TableInv, [TableNext]_tableVars
    PROVE  TableInv'
<1>1. CASE SetsRules
    BY <1>1, HorizontalRulesKeep, VerticalRulesKeep DEF SetsRules
<1>2. CASE SetsColumns
    BY <1>2, IncludeIndexKeeps, ShownHeadersKeep, TabularFormatKeeps, GroupFormatKeeps,
       HeaderGroupsKeep DEF SetsColumns
<1>3. CASE SetsCells
    BY <1>3, CellsKeep, FormattersKeep, ClearOptionsKeeps DEF SetsCells
<1>4. CASE SetsDraws
    BY <1>4, DrawsKeep
<1>5. CASE UsesTableDocument
    BY <1>5, DocumentKeeps
<1>6. CASE UNCHANGED tableVars
    BY <1>6, TableInvStutters
<1>7. QED
    BY <1>1, <1>2, <1>3, <1>4, <1>5, <1>6 DEF TableNext

\* Cells of data are formatted by formatters in use, or not at all.
LEMMA CellsUseFormatters ==
    ASSUME NEW r \in RowIndices, NEW column \in ToSet(Columns)
    PROVE  \/ FormatCellValue(options, r, column) = Escaped
           \/ \E formatter \in FormattersInUse(options) : \E kind :
                 FormatCellValue(options, r, column) = Formatted(formatter, kind)
<1> DEFINE kind == CellKinds[r][column]
<1>1. CASE kind = "nan"
    BY <1>1 DEF FormatCellValue
<1>2. CASE kind # "nan" /\ options.col_formatters[column] # NoFormatter
    <2>1. FormatCellValue(options, r, column) = Formatted(options.col_formatters[column], kind)
        BY <1>2, Zenon DEF FormatCellValue
    <2>2. QED
        BY <2>1 DEF FormattersInUse
<1>3. CASE kind # "nan" /\ options.col_formatters[column] = NoFormatter
           /\ options.row_formatters[r] # NoFormatter
    <2>1. FormatCellValue(options, r, column) = Formatted(options.row_formatters[r], kind)
        BY <1>3, Zenon DEF FormatCellValue
    <2>2. QED
        BY <2>1 DEF FormattersInUse
<1>4. CASE kind # "nan" /\ options.col_formatters[column] = NoFormatter
           /\ options.row_formatters[r] = NoFormatter
    <2>1. FormatCellValue(options, r, column) =
            IF kind \in {"low", "high"} THEN Formatted(options.number_fmt, kind)
            ELSE IF kind = "text" THEN Formatted(options.str_fmt, kind)
            ELSE Escaped
        BY <1>4, Zenon DEF FormatCellValue
    <2>2. QED
        BY <2>1 DEF FormattersInUse
<1>5. QED
    BY <1>1, <1>2, <1>3, <1>4

LEMMA OrderingListsColumns ==
    ASSUME PreamblesFit(options)
    PROVE  ColumnOrdering(options) \in Seq(ToSet(Columns))
<1> DEFINE S == Seq(ToSet(Columns))
           groups == options.groups
<1>1. groups \in Seq(HeaderGroup)
    BY DEF PreamblesFit
<1>2. \A group \in HeaderGroup : group.columns \in S
    BY DEF HeaderGroup
<1> HIDE DEF S, groups
<1>3. /\ DOMAIN groups = 1 .. Len(groups) /\ Len(groups) \in Nat
      /\ \A g \in 1 .. Len(groups) : groups[g] \in HeaderGroup
    BY <1>1
<1>4. [g \in DOMAIN groups |-> groups[g].columns] \in Seq(S)
    BY <1>2, <1>3
<1>5. GroupColumns(options) \in Seq(Seq(ToSet(Columns)))
    BY <1>4 DEF GroupColumns, groups, S
<1>6. FlattenSeq(GroupColumns(options)) \in Seq(ToSet(Columns))
    BY <1>5, FlatteningIsSequence
<1>7. QED
    BY <1>6, ColumnsAreListed DEF ColumnOrdering

\* The rows of data of a layout are those of the data frame.
LEMMA DataRowsOfLayout ==
    ASSUME NEW row \in DataOf(ResolveLayout(options))
    PROVE  \E r \in RowIndices : row.cells = DataCells(options, r)
<1> DEFINE group == [kind |-> "group", cells |-> GroupHeaderCells(options, ResolvedPreamble(options)),
                     rules_before |-> 0, fill |-> "none"]
           columns == [kind |-> "columns", cells |-> ColumnHeaderCells(options),
                       rules_before |-> 0, fill |-> "none"]
           data(r) == [kind |-> "data", cells |-> DataCells(options, r),
                       rules_before |-> options.hrule_counts[r], fill |-> options.row_colors[r]]
           D == {data(r) : r \in RowIndices}
           X == {group, columns} \cup D
           first == IF HasGroups(options) /\ options.include_group_headers THEN <<group>> ELSE <<>>
           second == IF options.include_column_headers THEN <<columns>> ELSE <<>>
           third == [i \in 1..Rows |-> data(i - 1)]
<1>1. ResolveLayout(options).rows = first \o second \o third
    BY DEF ResolveLayout
<1>2. Rows \in Nat
    BY LayoutAssumption
<1>3. \A i \in 1 .. Rows : data(i - 1) \in D
    BY <1>2 DEF RowIndices
<1>4. group.kind # "data" /\ columns.kind # "data"
    OBVIOUS
<1>5. \A x \in D : \E r \in RowIndices : x.cells = DataCells(options, r)
    OBVIOUS
<1> HIDE DEF group, columns, data, D
<1>6. first \in Seq(X) /\ second \in Seq(X)
    <2>1. group \in X /\ columns \in X
        OBVIOUS
    <2> HIDE DEF X
    <2>2. QED
        BY <2>1
<1>7. third \in Seq(X)
    <2>1. \A i \in 1 .. Rows : data(i - 1) \in X
        BY <1>3
    <2> HIDE DEF X
    <2>2. QED
        BY <1>2, <2>1
<1> HIDE DEF X, first, second, third
<1>8. first \o second \in Seq(X)
    BY <1>6, ConcatProperties
<1>9. first \o second \o third \in Seq(X)
    BY <1>7, <1>8, ConcatProperties
<1>10. row \in ToSet(first \o second \o third) /\ row.kind = "data"
    BY <1>1 DEF DataOf, IsOfData
<1>11. row \in X
    BY <1>9, <1>10 DEF ToSet
<1>12. QED
    BY <1>4, <1>5, <1>10, <1>11 DEF X

\* The commands of a row's cells are those of formatters in use.
LEMMA CellCommands ==
    ASSUME PreamblesFit(options), NEW r \in RowIndices, NEW cell \in ToSet(DataCells(options, r))
    PROVE  \/ cell.commands = {}
           \/ \E formatter \in FormattersInUse(options) : cell.commands = CommandsFor(formatter)
<1> DEFINE ordering == ColumnOrdering(options)
           index == FormatIndexCell(options)
           value(i) == FormatCellValue(options, r, ordering[i])
           V == {value(i) : i \in DOMAIN ordering}
           first == IF options.include_index THEN <<index>> ELSE <<>>
           X == {index} \cup V
<1>1. ordering \in Seq(ToSet(Columns))
    BY OrderingListsColumns
<1>2. DataCells(options, r) = first \o [i \in DOMAIN ordering |-> value(i)]
    BY DEF DataCells
<1>3. \A i \in DOMAIN ordering : ordering[i] \in ToSet(Columns)
    <2> HIDE DEF ordering
    <2>1. QED
        BY <1>1
<1>4. index = Formatted(options.index_fmt, "text") /\ options.index_fmt \in FormattersInUse(options)
    BY DEF FormatIndexCell, FormattersInUse
<1>5. \A x \in V : \/ x = Escaped
                   \/ \E formatter \in FormattersInUse(options) : \E kind : x = Formatted(formatter, kind)
    BY <1>3, CellsUseFormatters
<1>6. DOMAIN ordering = 1 .. Len(ordering) /\ Len(ordering) \in Nat
    <2> HIDE DEF ordering
    <2>1. QED
        BY <1>1
<1>7. \A i \in DOMAIN ordering : value(i) \in V
    OBVIOUS
<1> HIDE DEF ordering, index, value, V
<1>8. first \in Seq(X) /\ [i \in DOMAIN ordering |-> value(i)] \in Seq(X)
    <2>1. index \in X /\ \A i \in DOMAIN ordering : value(i) \in X
        BY <1>7
    <2> HIDE DEF X
    <2>2. QED
        BY <1>6, <2>1
<1>9. DataCells(options, r) \in Seq(X)
    <2> HIDE DEF X, first
    <2>1. QED
        BY <1>2, <1>8, ConcatProperties
<1>10. cell \in X
    <2> HIDE DEF X
    <2>1. QED
        BY <1>9 DEF ToSet
<1>11. Escaped.commands = {} /\ \A f, kind : Formatted(f, kind).commands = CommandsFor(f)
    BY DEF Escaped, Formatted
<1>12. QED
    BY <1>4, <1>5, <1>10, <1>11

LEMMA InvIsRenderable == TableInv => TableStaysRenderable
<1> SUFFICES ASSUME TableInv PROVE TableStaysRenderable
    OBVIOUS
<1>1. IsResolved(options)
    BY DEF IsResolved, TableInv, PreamblesFit, IsPreamble
<1>2. ASSUME NEW c \in CommandsUsed(ResolveLayout(options))
      PROVE  HasCommand(document, c)
    <2>1. PICK cell \in CellsOf(ResolveLayout(options)) : c \in cell.commands
        BY DEF CommandsUsed
    <2>2. PICK row \in DataOf(ResolveLayout(options)) : cell \in ToSet(row.cells)
        BY DEF CellsOf
    <2>3. PICK r \in RowIndices : row.cells = DataCells(options, r)
        BY DataRowsOfLayout
    <2>4. \/ cell.commands = {}
          \/ \E formatter \in FormattersInUse(options) : cell.commands = CommandsFor(formatter)
        BY <2>2, <2>3, CellCommands DEF TableInv
    <2>5. QED
        BY <2>1, <2>4 DEF TableInv, Provides
<1>3. CommandsAreDefined
    BY <1>2 DEF CommandsAreDefined, TableInv, DocumentCounts
<1>4. QED
    BY <1>1, <1>3 DEF TableStaysRenderable

\* A table can be typeset whatever sequence of calls has set, changed, cleared or refused its
\* index, formats, header groups and formatters (TableStaysRenderable): the preambles fit, and
\* the commands of every cell are in the document, each exactly as often as it was added.
THEOREM TablesStayRenderable == TableSpec => []TableStaysRenderable
<1>1. TableInit => TableInv
    BY TableInvInit
<1>2. TableInv /\ [TableNext]_tableVars => TableInv'
    BY TableInvNext
<1>3. TableInv => TableStaysRenderable
    BY InvIsRenderable
<1>4. QED
    BY <1>1, <1>2, <1>3, PTL DEF TableSpec

(***************************************************************************)
(* What is saved                                                           *)
(***************************************************************************)

\* A document whose body draws at positions only if it is compiled twice.
Repeats(doc, passes) ==
    /\ DOMAIN doc = DOMAIN NewDocument
    /\ doc.compile_passes = passes
    /\ doc.body.positioned => passes = 2

FilesInv ==
    /\ DOMAIN disk = DOMAIN NewWorkspace
    /\ DOMAIN saved = {"pdf", "png"}
    /\ SavedFilesAreCurrent

\* What all the passes over a document leave shows that document, at its own positions.
LEMMA PassesSettle ==
    ASSUME NEW doc, NEW passes \in {1, 2}, Repeats(doc, passes),
           NEW files, DOMAIN files = DOMAIN NewWorkspace,
           NEW run \in PassRuns(doc), HasCompiled(run, doc)
    PROVE  AfterPasses(files, doc, run).pdf = <<[source |-> doc, settled |-> TRUE]>>
<1>1. PassesOf(doc) \in {1, 2} /\ (PassesOf(doc) = 1 => ChosenEngine = "tectonic" \/ passes = 1)
    BY DEF PassesOf, Repeats
<1>2. run.compiled = PassesOf(doc)
    BY DEF HasCompiled
<1>3. run.ended # "failed"
    <2>1. CASE run = [compiled |-> PassesOf(doc), ended |-> "compiled"]
        BY <2>1
    <2>2. CASE \E n \in 0..(PassesOf(doc) - 1), outcome \in PassOutcomes :
                 run = [compiled |-> n, ended |-> outcome]
        BY <1>1, <1>2, <2>2
    <2>3. QED
        BY <2>1, <2>2 DEF PassRuns
<1> DEFINE begun == [files EXCEPT !.workdir = TRUE]
           aux == IF PassesOf(doc) = 1 THEN begun.aux ELSE <<doc>>
           typeset == Typeset(doc, aux)
<1>4. DOMAIN begun = {"workdir", "aux", "pdf", "png"}
    BY DEF NewWorkspace
<1>5. AfterPasses(files, doc, run) = AfterCompiled(begun, doc, PassesOf(doc))
    BY <1>2, <1>3 DEF AfterPasses
<1> HIDE DEF begun
<1>6. AfterCompiled(begun, doc, PassesOf(doc)).pdf = <<typeset>>
    BY <1>1, <1>4 DEF AfterCompiled
<1>7. ChosenEngine = "tectonic" \/ ~doc.body.positioned \/ aux = <<doc>>
    BY <1>1 DEF Repeats
<1>8. typeset = [source |-> doc, settled |-> TRUE]
    BY <1>7 DEF Typeset
<1>9. QED
    BY <1>5, <1>6, <1>8

LEMMA PassesKeepNames ==
    ASSUME NEW doc, NEW files, DOMAIN files = DOMAIN NewWorkspace, NEW run
    PROVE  DOMAIN AfterPasses(files, doc, run) = DOMAIN NewWorkspace
BY DEF AfterPasses, AfterCompiled, NewWorkspace

\* What a save replaces is current when the file it copies is.
LEMMA SavesKeep ==
    ASSUME FilesInv, NEW doc, NEW now, NEW extension \in {"pdf", "png"}, NEW file,
           Saves(doc, now, extension, file), DOMAIN now = DOMAIN NewWorkspace,
           file # NoFile => file[1] = [source |-> doc, settled |-> TRUE]
    PROVE  FilesInv'
<1>1. disk' = now /\ saved' = IF file = NoFile THEN saved
                              ELSE [saved EXCEPT ![extension] = <<[file |-> file[1], of |-> doc]>>]
    BY DEF Saves
<1>2. CASE file = NoFile
    BY <1>1, <1>2 DEF FilesInv, SavedFilesAreCurrent
<1>3. CASE file # NoFile
    <2> DEFINE new == [file |-> file[1], of |-> doc]
    <2>1. new.file = [source |-> new.of, settled |-> TRUE]
        BY <1>3
    <2> HIDE DEF new
    <2>2. saved' = [saved EXCEPT ![extension] = <<new>>]
        BY <1>1, <1>3 DEF new
    <2>3. DOMAIN saved' = {"pdf", "png"} /\ saved'[extension] = <<new>>
          /\ \A x \in DOMAIN saved : x # extension => saved'[x] = saved[x]
        BY <2>2 DEF FilesInv
    <2>4. ASSUME NEW x \in DOMAIN saved', saved'[x] # NoFile
          PROVE  saved'[x][1].file = [source |-> saved'[x][1].of, settled |-> TRUE]
        <3>1. CASE x = extension
            <4>1. saved'[x][1] = new
                BY <2>3, <3>1
            <4>2. QED
                BY <2>1, <4>1
        <3>2. CASE x # extension
            BY <2>3, <2>4, <3>2 DEF FilesInv, SavedFilesAreCurrent
        <3>3. QED
            BY <3>1, <3>2
    <2>5. QED
        BY <1>1, <2>3, <2>4 DEF FilesInv, SavedFilesAreCurrent
<1>4. QED
    BY <1>2, <1>3

\* The bodies a builder renders draw at positions only if its document is compiled twice.
BodiesRepeat(bodies, passes) == \A body \in bodies : body.positioned => passes = 2

LEMMA HandlesRepeat ==
    ASSUME NEW passes, Repeats(document, passes), NEW bodies, BodiesRepeat(bodies, passes),
           NEW handle \in Handles(bodies)
    PROVE  Repeats(handle, passes)
BY DEF Handles, Repeats, BodiesRepeat, NewDocument

\* Every use of the document, with a handle of any age, keeps what is saved current.
LEMMA DocumentKeepsFiles ==
    ASSUME FilesInv, NEW passes \in {1, 2}, Repeats(document, passes),
           NEW bodies, BodiesRepeat(bodies, passes), UsesDocument(bodies)
    PROVE  FilesInv' /\ Repeats(document', passes)
<1>1. ASSUME NEW doc, NEW added, Documents(doc, added), Repeats(doc, passes)
      PROVE  FilesInv' /\ Repeats(document', passes)
    BY <1>1 DEF Documents, FilesInv, SavedFilesAreCurrent
<1>2. CASE AccessDocument(bodies)
    <2>1. PICK body \in bodies : Documents([document EXCEPT !.body = body], user)
        BY <1>2 DEF AccessDocument
    <2>2. Repeats([document EXCEPT !.body = body], passes)
        BY HandlesRepeat DEF Handles
    <2>3. QED
        BY <1>1, <2>1, <2>2
<1>3. CASE AddPackages(bodies) \/ AddPackageWithOptions(bodies) \/ AddCommand(bodies) \/ AddColor(bodies)
    <2>1. PICK handle \in Handles(bodies) :
            \/ \E package : Documents(WithPackages(handle, {package}), user)
            \/ \E package : Documents(WithPackageOptions(handle, package), user)
            \/ \E c : Documents(WithCommand(handle, c), [user EXCEPT ![c] = @ + 1])
            \/ \E name, color : Documents(WithColor(handle, name, color), user)
        BY <1>3 DEF AddPackages, AddPackageWithOptions, AddCommand, AddColor
    <2>2. Repeats(handle, passes)
        BY HandlesRepeat
    <2>3. \A package : Repeats(WithPackages(handle, {package}), passes)
        BY <2>2 DEF WithPackages, NewDocument, Repeats
    <2>4. \A package : Repeats(WithPackageOptions(handle, package), passes)
        BY <2>2 DEF WithPackageOptions, NewDocument, Repeats
    <2>5. \A c : Repeats(WithCommand(handle, c), passes)
        BY <2>2 DEF WithCommand, NewDocument, Repeats
    <2>6. \A name, color : Repeats(WithColor(handle, name, color), passes)
        BY <2>2 DEF WithColor, NewDocument, Repeats
    <2>7. QED
        BY <1>1, <2>1, <2>3, <2>4, <2>5, <2>6
<1>4. CASE SavePdf(bodies)
    <2>1. PICK handle \in Handles(bodies) : \E run \in PassRuns(handle) :
            LET now == AfterPasses(disk, handle, run)
            IN  Saves(handle, now, "pdf", IF HasCompiled(run, handle) THEN now.pdf ELSE NoFile)
        BY <1>4 DEF SavePdf
    <2>2. PICK run \in PassRuns(handle) :
            Saves(handle, AfterPasses(disk, handle, run), "pdf",
                  IF HasCompiled(run, handle) THEN AfterPasses(disk, handle, run).pdf ELSE NoFile)
        BY <2>1
    <2> DEFINE now == AfterPasses(disk, handle, run)
               file == IF HasCompiled(run, handle) THEN now.pdf ELSE NoFile
    <2>3. Repeats(handle, passes)
        BY HandlesRepeat
    <2>4. DOMAIN now = DOMAIN NewWorkspace
        BY PassesKeepNames DEF FilesInv
    <2>5. file # NoFile => file[1] = [source |-> handle, settled |-> TRUE]
        BY <2>3, PassesSettle DEF FilesInv
    <2>6. Saves(handle, now, "pdf", file)
        BY <2>2
    <2> HIDE DEF now, file
    <2>7. FilesInv'
        BY <2>4, <2>5, <2>6, SavesKeep
    <2>8. document' = handle
        BY <2>6 DEF Saves
    <2>9. QED
        BY <2>3, <2>7, <2>8
<1>5. CASE SavePng(bodies)
    <2>1. PICK handle \in Handles(bodies), renders \in BOOLEAN : \E run \in PassRuns(handle) :
            LET compiled == AfterPasses(disk, handle, run)
                now == IF HasCompiled(run, handle) /\ renders THEN AfterRender(compiled) ELSE compiled
            IN  /\ renders => HasCompiled(run, handle)
                /\ Saves(handle, now, "png", IF renders THEN now.png ELSE NoFile)
        BY <1>5 DEF SavePng
    <2>2. PICK run \in PassRuns(handle) :
            LET compiled == AfterPasses(disk, handle, run)
                now == IF HasCompiled(run, handle) /\ renders THEN AfterRender(compiled) ELSE compiled
            IN  /\ renders => HasCompiled(run, handle)
                /\ Saves(handle, now, "png", IF renders THEN now.png ELSE NoFile)
        BY <2>1
    <2> DEFINE compiled == AfterPasses(disk, handle, run)
               now == IF HasCompiled(run, handle) /\ renders THEN AfterRender(compiled) ELSE compiled
               file == IF renders THEN now.png ELSE NoFile
    <2>3. Repeats(handle, passes)
        BY HandlesRepeat
    <2>4. DOMAIN compiled = DOMAIN NewWorkspace
        BY PassesKeepNames DEF FilesInv
    <2>5. renders => HasCompiled(run, handle) /\ compiled.pdf = <<[source |-> handle, settled |-> TRUE]>>
        BY <2>2, <2>3, PassesSettle DEF FilesInv
    <2>6. Saves(handle, now, "png", file)
        BY <2>2
    <2> HIDE DEF compiled
    <2>7. DOMAIN now = DOMAIN NewWorkspace /\ (renders => now.png = compiled.pdf)
        BY <2>4, <2>5 DEF AfterRender, NewWorkspace
    <2> HIDE DEF now
    <2>8. file # NoFile => file[1] = [source |-> handle, settled |-> TRUE]
        BY <2>5, <2>7
    <2> HIDE DEF file
    <2>9. FilesInv'
        BY <2>6, <2>7, <2>8, SavesKeep
    <2>10. document' = handle
        BY <2>6 DEF Saves
    <2>11. QED
        BY <2>3, <2>9, <2>10
<1>6. QED
    BY <1>2, <1>3, <1>4, <1>5 DEF UsesDocument

LEMMA FilesInvInit ==
    ASSUME NEW doc, DocumentInit(doc)
    PROVE  FilesInv
BY DEF DocumentInit, FilesInv, NewWorkspace, SavedFilesAreCurrent

\* TikzTable draws at positions, and its document is compiled twice.
PassesWanted == IF dialect = "nicetabular" THEN 2 ELSE 1

LEMMA TableFilesInit ==
    ASSUME TableInit
    PROVE  FilesInv /\ Repeats(document, PassesWanted)
<1>1. document = SetupDocument(dialect) /\ FilesInv
    BY FilesInvInit DEF TableInit, DocumentInit
<1>2. dialect \in {"tabular", "nicetabular"}
    BY TableAssumption DEF TableInit
<1>3. Repeats(SetupDocument(dialect), PassesWanted)
    BY <1>2 DEF SetupDocument, NewDocument, NoBody, WithCommand, WithPackages, Repeats, PassesWanted
<1>4. QED
    BY <1>1, <1>3

\* A setter leaves the files, and the body of the document, as they are.
LEMMA SettersKeepFiles ==
    ASSUME FilesInv, Repeats(document, PassesWanted), SetsRules \/ SetsColumns \/ SetsCells \/ SetsDraws
    PROVE  FilesInv' /\ Repeats(document, PassesWanted)'
<1>1. ASSUME UNCHANGED <<dialect, disk, saved>>, Repeats(document', PassesWanted)
      PROVE  FilesInv' /\ Repeats(document, PassesWanted)'
    <2>1. PassesWanted' = PassesWanted
        BY <1>1 DEF PassesWanted
    <2>2. QED
        BY <1>1, <2>1 DEF FilesInv, SavedFilesAreCurrent, Repeats
<1>2. ASSUME NEW topic, NEW opts, NEW doc, NEW added, Sets(topic, opts, doc, added),
             Repeats(doc, PassesWanted)
      PROVE  FilesInv' /\ Repeats(document, PassesWanted)'
    BY <1>1, <1>2 DEF Sets
<1>3. ASSUME NEW topic, NEW opts, SetsOptions(topic, opts)
      PROVE  FilesInv' /\ Repeats(document, PassesWanted)'
    BY <1>2, <1>3 DEF SetsOptions
<1>4. \A packages : Repeats(WithPackages(document, packages), PassesWanted)
    BY DEF WithPackages, NewDocument, Repeats
<1>5. \A added : Repeats(WithCommands(document, added), PassesWanted)
    BY DEF WithCommands, NewDocument, Repeats
<1>6. CASE SetsRules
    BY <1>3, <1>6 DEF SetsRules, AddHruleAbove, AddHruleAboveAll, SetAllHrule, ClearAllHrule,
       SetRuleCommand, AddVRulesOf, AddVRules, AddVRuleAll, ClearAllVRule
<1>7. CASE SetsColumns
    <2>1. CASE IncludeIndex
        BY <1>2, <1>3, <1>4, <2>1 DEF IncludeIndex
    <2>2. CASE RemoveIndex \/ SetHeaders \/ SetHeaderGroups \/ ClearHeaderGroups
        BY <1>3, <2>2 DEF RemoveIndex, SetHeaders, SetHeaderGroups, ClearHeaderGroups
    <2>3. CASE SetTabularFormat \/ SetGroupTabularFormat
        BY <1>2, <1>4, <2>3 DEF SetTabularFormat, SetGroupTabularFormat
    <2>4. QED
        BY <1>7, <2>1, <2>2, <2>3 DEF SetsColumns
<1>8. CASE SetsCells
    <2>1. CASE HighlightRows \/ SetDecimalCount
        BY <1>3, <2>1 DEF HighlightRows, SetDecimalCount
    <2>2. CASE SetFormatter \/ SetColumnFormatter \/ SetRowFormatter
        BY <1>2, <1>5, <2>2 DEF SetFormatter, SetColumnFormatter, SetRowFormatter, SetsFormatter
    <2>3. CASE ClearOptions
        BY <1>1, <2>3 DEF ClearOptions, Repeats, NewDocument
    <2>4. QED
        BY <1>8, <2>1, <2>2, <2>3 DEF SetsCells
<1>9. CASE SetsDraws
    BY <1>3, <1>9 DEF SetsDraws, SetCellBorder, AddDraw, ClearDraws
<1>10. QED
    BY <1>6, <1>7, <1>8, <1>9

LEMMA TableFilesNext ==
    ASSUME FilesInv, Repeats(document, PassesWanted), [TableNext]_tableVars
    PROVE  FilesInv' /\ Repeats(document, PassesWanted)'
<1>1. CASE UsesTableDocument
    <2>1. UsesDocument({GenerateLatex}) /\ dialect' = dialect
        BY <1>1 DEF UsesTableDocument
    <2>2. BodiesRepeat({GenerateLatex}, PassesWanted) /\ PassesWanted \in {1, 2}
        <3>1. GenerateLatex.positioned = (dialect = "nicetabular")
            BY DEF GenerateLatex
        <3>2. QED
            BY <3>1 DEF BodiesRepeat, PassesWanted
    <2>3. FilesInv' /\ Repeats(document', PassesWanted)
        BY <2>1, <2>2, DocumentKeepsFiles
    <2>4. PassesWanted' = PassesWanted
        BY <2>1 DEF PassesWanted
    <2>5. QED
        BY <2>3, <2>4 DEF Repeats
<1>2. CASE UNCHANGED tableVars
    BY <1>2 DEF tableVars, FilesInv, SavedFilesAreCurrent, Repeats, PassesWanted
<1>3. QED
    BY <1>1, <1>2, SettersKeepFiles DEF TableNext

\* What is saved of a table shows the table as it was at the call, with what is drawn at its own
\* positions (SavedFilesAreCurrent), whichever passes have failed or hung before: a document that
\* draws at positions is compiled twice, and nothing is copied unless all passes have succeeded.
THEOREM SavedTablesAreCurrent == TableSpec => []SavedFilesAreCurrent
<1>1. TableInit => FilesInv /\ Repeats(document, PassesWanted)
    BY TableFilesInit
<1>2. (FilesInv /\ Repeats(document, PassesWanted)) /\ [TableNext]_tableVars
        => (FilesInv /\ Repeats(document, PassesWanted))'
    BY TableFilesNext
<1>3. FilesInv => SavedFilesAreCurrent
    BY DEF FilesInv
<1>4. QED
    BY <1>1, <1>2, <1>3, PTL DEF TableSpec

LEMMA PlotFilesInit ==
    ASSUME PlotInit
    PROVE  FilesInv /\ Repeats(document, 1)
<1>1. document = WithPackages(NewDocument, {"tikz"}) /\ FilesInv
    BY FilesInvInit DEF PlotInit, DocumentInit
<1>2. QED
    BY <1>1 DEF NewDocument, NoBody, WithPackages, Repeats

LEMMA PlotFilesNext ==
    ASSUME FilesInv, Repeats(document, 1), [PlotNext]_plotVars
    PROVE  FilesInv' /\ Repeats(document, 1)'
<1>1. CASE UsesPlotDocument
    <2>1. BodiesRepeat(GeneratePicture, 1)
        BY DEF BodiesRepeat, GeneratePicture
    <2>2. QED
        BY <1>1, <2>1, DocumentKeepsFiles DEF UsesPlotDocument
<1>2. ASSUME UNCHANGED <<document, disk, saved>>
      PROVE  FilesInv' /\ Repeats(document, 1)'
    BY <1>2 DEF FilesInv, SavedFilesAreCurrent, Repeats
<1>3. CASE SetsPlot
    BY <1>2, <1>3 DEF SetsPlot, SetsLimits, SetLimits, SetScale, UpdateCrosshairs, SetFlags, AddElection,
       AddLines, ClearLines, SetMarkerOptions, SetHullOptions, ClearPlotOptions, Plots
<1>4. CASE UNCHANGED plotVars
    BY <1>2, <1>4 DEF plotVars
<1>5. QED
    BY <1>1, <1>3, <1>4 DEF PlotNext

\* What is saved of a plot shows the plot as it was at the call (SavedFilesAreCurrent), though
\* its document is compiled once: nothing in it is drawn at positions.
THEOREM SavedPlotsAreCurrent == PlotSpec => []SavedFilesAreCurrent
<1>1. PlotInit => FilesInv /\ Repeats(document, 1)
    BY PlotFilesInit
<1>2. (FilesInv /\ Repeats(document, 1)) /\ [PlotNext]_plotVars => (FilesInv /\ Repeats(document, 1))'
    BY PlotFilesNext
<1>3. FilesInv => SavedFilesAreCurrent
    BY DEF FilesInv
<1>4. QED
    BY <1>1, <1>2, <1>3, PTL DEF PlotSpec

(***************************************************************************)
(* The packages of a document                                              *)
(***************************************************************************)

\* The macros for which the preamble is searched, and those of packages that are loaded anyway.
ScannedMacros == {hint[1] : hint \in Hints} \cup {"color", "fill", "named"}

\* A document that lists tikz and has no macros of packages the scan does not know of.
IsScanned(doc) ==
    /\ doc.body.macros \subseteq ScannedMacros \cup {"tikz"}
    /\ "tikz" \in doc.package_list \cup doc.optioned

\* A package that is wanted is loaded, or another that loads it: options move a package to
\* another stage, and xcolor gives way to latexcolors.
LEMMA WantedIsLoaded ==
    ASSUME NEW doc, NEW package \in doc.package_list \cup ScannedPackages(doc) \cup doc.optioned
    PROVE  \E p \in Loaded(doc) : package \in Provided(p)
<1> DEFINE wanted == (doc.package_list \cup ScannedPackages(doc)) \ doc.optioned
<1>1. Loaded(doc) = doc.optioned \cup ResolvedPackages(doc)
    <2>1. DOMAIN Preamble(doc) = 1 .. 3 /\ 1 .. 3 = {1, 2, 3}
        BY DEF Preamble
    <2>2. /\ Preamble(doc)[1] = doc.optioned \cap {"xcolor"}
          /\ Preamble(doc)[2] = ResolvedPackages(doc)
          /\ Preamble(doc)[3] = doc.optioned \ {"xcolor"}
        BY DEF Preamble
    <2>3. QED
        BY <2>1, <2>2 DEF Loaded
<1>2. \A p : p \in Provided(p)
    BY DEF Provided
<1>3. CASE package \in doc.optioned \/ package # "xcolor" \/ "latexcolors" \notin wanted
    <2>1. package \in Loaded(doc)
        BY <1>1, <1>3 DEF ResolvedPackages
    <2>2. QED
        BY <1>2, <2>1
<1>4. CASE package = "xcolor" /\ "latexcolors" \in wanted
    <2>1. "latexcolors" \in Loaded(doc)
        BY <1>1, <1>4 DEF ResolvedPackages
    <2>2. package \in Provided("latexcolors")
        BY <1>4 DEF Provided
    <2>3. QED
        BY <2>1, <2>2
<1>5. QED
    BY <1>3, <1>4

\* Whatever is needed of a document that is scanned is found by the scan, or listed.
LEMMA ScanFindsNeeds ==
    ASSUME NEW doc, IsScanned(doc), NEW package \in Needed(doc)
    PROVE  \/ package \in doc.package_list \cup ScannedPackages(doc) \cup doc.optioned
           \/ package = "xcolor" /\ "latexcolors" \in ScannedPackages(doc)
<1>1. Haystack(doc) \subseteq ScannedMacros \cup {"tikz"}
    BY CommandAssumption DEF Haystack, CommandMacros, DefinedCommands, IsScanned, ScannedMacros
<1>2. /\ UsesLatexcolorsName(doc) => "latexcolors" \in ScannedPackages(doc)
      /\ HasColors(doc) /\ ~UsesLatexcolorsName(doc) => "xcolor" \in ScannedPackages(doc)
    BY DEF ScannedPackages
<1>3. CASE \E name \in ColorNames : doc.color_dict[name] # "none" /\ package = "xcolor"
    BY <1>2, <1>3 DEF HasColors
<1>4. CASE \E name \in ColorNames : doc.color_dict[name] = "named" /\ package = "latexcolors"
    BY <1>2, <1>4 DEF UsesLatexcolorsName
<1>5. ASSUME NEW n \in Needs, n[1] \in Haystack(doc), package = n[2]
      PROVE  \/ package \in doc.package_list \cup ScannedPackages(doc) \cup doc.optioned
             \/ package = "xcolor" /\ "latexcolors" \in ScannedPackages(doc)
    <2>1. n[1] \in ScannedMacros \cup {"tikz"}
        BY <1>1, <1>5
    <2>2. CASE n \in Hints
        BY <1>5, <2>2 DEF ScannedPackages
    <2>3. CASE n[1] \in {"color", "fill"} /\ n[2] = "xcolor"
        BY <1>2, <1>5, <2>3 DEF HasColors
    <2>4. CASE n = <<"named", "latexcolors">>
        BY <1>2, <1>5, <2>4 DEF UsesLatexcolorsName
    <2>5. CASE n = <<"tikz", "tikz">>
        BY <1>5, <2>5 DEF IsScanned
    <2>6. n \in Hints \/ (n[1] \in {"color", "fill"} /\ n[2] = "xcolor")
          \/ n = <<"named", "latexcolors">> \/ n = <<"tikz", "tikz">>
        <3>1. n[1] \in {"booktabs", "fill", "fpeval", "num", "includegraphics", "multirow", ">",
                        "color", "named", "tikz"}
            BY <2>1 DEF ScannedMacros, Hints
        <3>2. QED
            BY <3>1 DEF Needs
    <2>7. QED
        BY <2>2, <2>3, <2>4, <2>5, <2>6
<1>6. QED
    BY <1>3, <1>4, <1>5 DEF Needed

\* A document that is scanned is loadable, whatever packages, options, commands and colors
\* were added to it.
LEMMA ScannedIsLoadable ==
    ASSUME NEW doc, IsScanned(doc)
    PROVE  IsLoadable(doc)
<1>1. /\ Preamble(doc)[1] = doc.optioned \cap {"xcolor"}
      /\ Preamble(doc)[2] = ResolvedPackages(doc)
      /\ Preamble(doc)[3] = doc.optioned \ {"xcolor"}
    BY DEF Preamble
<1>2. 1 .. 3 = {1, 2, 3}
    OBVIOUS
<1>3. ResolvedPackages(doc) \cap doc.optioned = {}
    BY DEF ResolvedPackages
<1>4. \A i, j \in 1 .. 3 : i # j => Preamble(doc)[i] \cap Preamble(doc)[j] = {}
    BY <1>1, <1>2, <1>3
<1>5. "xcolor" \in doc.optioned => \A j \in 1 .. 3 : "xcolor" \in Preamble(doc)[j] => j = 1
    BY <1>1, <1>2, <1>3
<1>6. ASSUME NEW package \in Needed(doc)
      PROVE  \E p \in Loaded(doc) : package \in Provided(p)
    <2>1. CASE package \in doc.package_list \cup ScannedPackages(doc) \cup doc.optioned
        BY <2>1, WantedIsLoaded
    <2>2. CASE package = "xcolor" /\ "latexcolors" \in ScannedPackages(doc)
        <3>1. Loaded(doc) = Preamble(doc)[1] \cup Preamble(doc)[2] \cup Preamble(doc)[3]
            BY <1>2 DEF Loaded
        <3>2. "latexcolors" \in Loaded(doc)
            BY <1>1, <2>2, <3>1 DEF ResolvedPackages
        <3>3. "xcolor" \in Provided("latexcolors")
            BY DEF Provided
        <3>4. QED
            BY <2>2, <3>2, <3>3
    <2>3. QED
        BY <2>1, <2>2, ScanFindsNeeds
<1>7. QED
    BY <1>2, <1>4, <1>5, <1>6 DEF IsLoadable

\* The body a plot renders is scanned, as are all handles on its document.
LEMMA PicturesAreScanned ==
    ASSUME NEW body \in GeneratePicture
    PROVE  body.macros \subseteq ScannedMacros \cup {"tikz"}
<1>1. \A color : ColorMacros(color) \subseteq {"color", "named"}
    BY DEF ColorMacros
<1>2. PictureMacros \subseteq {"tikz", "color", "named"}
    BY <1>1 DEF PictureMacros
<1>3. QED
    BY <1>2 DEF GeneratePicture, ScannedMacros

PlotDocumentInv == DOMAIN document = DOMAIN NewDocument /\ IsScanned(document)

LEMMA PlotHandles ==
    ASSUME PlotDocumentInv, NEW handle \in Handles(GeneratePicture)
    PROVE  DOMAIN handle = DOMAIN NewDocument /\ IsScanned(handle)
<1>1. CASE handle = document
    BY <1>1 DEF PlotDocumentInv
<1>2. ASSUME NEW body \in GeneratePicture, handle = [document EXCEPT !.body = body]
      PROVE  DOMAIN handle = DOMAIN NewDocument /\ IsScanned(handle)
    BY <1>2, PicturesAreScanned DEF PlotDocumentInv, IsScanned, NewDocument
<1>3. QED
    BY <1>1, <1>2 DEF Handles

LEMMA PlotDocumentNext ==
    ASSUME PlotDocumentInv, [PlotNext]_plotVars
    PROVE  PlotDocumentInv'
<1> DEFINE Good(doc) == DOMAIN doc = DOMAIN NewDocument /\ IsScanned(doc)
           H == Handles(GeneratePicture)
<1>1. ASSUME NEW doc, Good(doc), document' = doc
      PROVE  PlotDocumentInv'
    BY <1>1 DEF PlotDocumentInv, IsScanned
<1>2. \A handle \in H : Good(handle)
    BY PlotHandles
<1>3. ASSUME NEW doc, Good(doc)
      PROVE  /\ \A package : Good(WithPackages(doc, {package}))
             /\ \A package : Good(WithPackageOptions(doc, package))
             /\ \A c : Good(WithCommand(doc, c))
             /\ \A name, color : Good(WithColor(doc, name, color))
    <2>1. \A package : Good(WithPackages(doc, {package}))
        BY <1>3 DEF WithPackages, IsScanned, NewDocument
    <2>2. \A package : Good(WithPackageOptions(doc, package))
        BY <1>3 DEF WithPackageOptions, IsScanned, NewDocument
    <2>3. \A c : Good(WithCommand(doc, c))
        BY <1>3 DEF WithCommand, IsScanned, NewDocument
    <2>4. \A name, color : Good(WithColor(doc, name, color))
        BY <1>3 DEF WithColor, IsScanned, NewDocument
    <2>5. QED
        BY <2>1, <2>2, <2>3, <2>4
<1> HIDE DEF Good
<1>4. CASE UsesPlotDocument
    <2>1. \/ \E body \in GeneratePicture : document' = [document EXCEPT !.body = body]
          \/ \E handle \in H :
                \/ \E package : document' = WithPackages(handle, {package})
                \/ \E package : document' = WithPackageOptions(handle, package)
                \/ \E c : document' = WithCommand(handle, c)
                \/ \E name, color : document' = WithColor(handle, name, color)
                \/ document' = handle
        BY <1>4 DEF UsesPlotDocument, UsesDocument, AccessDocument, AddPackages,
           AddPackageWithOptions, AddCommand, AddColor, SavePdf, SavePng, Documents, Saves
    <2>2. \A body \in GeneratePicture : [document EXCEPT !.body = body] \in H
        BY DEF Handles
    <2> HIDE DEF H
    <2>3. QED
        BY <1>1, <1>2, <1>3, <2>1, <2>2
<1>5. CASE document' = document
    BY <1>5 DEF PlotDocumentInv, IsScanned
<1>6. CASE SetsPlot
    BY <1>5, <1>6 DEF SetsPlot, SetsLimits, SetLimits, SetScale, UpdateCrosshairs, SetFlags, AddElection,
       AddLines, ClearLines, SetMarkerOptions, SetHullOptions, ClearPlotOptions, Plots
<1>7. CASE UNCHANGED plotVars
    BY <1>5, <1>7 DEF plotVars
<1>8. QED
    BY <1>4, <1>6, <1>7 DEF PlotNext

\* The document of a plot, as it is rendered now or was when the caller took it, can be loaded
\* by LaTeX (IsLoadable): each macro of what was drawn, defined or colored has its package,
\* however packages and options were added (_render.py scans the body for them).
THEOREM PlotsStayLoadable ==
    PlotSpec => [](\A handle \in Handles(GeneratePicture) : IsLoadable(handle))
<1>1. PlotInit => PlotDocumentInv
    <2>1. PlotInit => document = WithPackages(NewDocument, {"tikz"})
        BY DEF PlotInit, DocumentInit
    <2>2. QED
        BY <2>1 DEF PlotDocumentInv, IsScanned, WithPackages, NewDocument, NoBody
<1>2. PlotDocumentInv /\ [PlotNext]_plotVars => PlotDocumentInv'
    BY PlotDocumentNext
<1>3. PlotDocumentInv => \A handle \in Handles(GeneratePicture) : IsLoadable(handle)
    BY PlotHandles, ScannedIsLoadable
<1>4. QED
    BY <1>1, <1>2, <1>3, PTL DEF PlotSpec

(***************************************************************************)
(* Vertical rules                                                          *)
(***************************************************************************)

IsBoundary(boundary) == DOMAIN boundary = {"vrules", "extra"} /\ boundary.vrules \in Nat

\* Boundaries count their rules, those of the preamble and of the index column.
RulesCount(opts) ==
    /\ IsPreamble(opts.preamble, NColumns)
    /\ \A b \in 0..NColumns : IsBoundary(opts.preamble.boundaries[b])
    /\ DOMAIN opts.index_column = {"alignment", "left", "right"}
    /\ IsBoundary(opts.index_column.left) /\ IsBoundary(opts.index_column.right)

LEMMA PlainBoundary == IsBoundary(NoBoundary)
BY DEF IsBoundary, NoBoundary

LEMMA RuledBoundary ==
    ASSUME NEW boundary, IsBoundary(boundary), NEW count \in Nat
    PROVE  /\ IsBoundary(WithRules(boundary, count))
           /\ WithRules(boundary, count).vrules = boundary.vrules + count
BY DEF IsBoundary, WithRules

\* Formats are parsed to boundaries that count their rules.
LEMMA ParsedBoundaries ==
    ASSUME NEW fmt \in Formats, NEW b \in 0..NumberOfColumns(fmt)
    PROVE  IsBoundary(ParseTabularPreamble(fmt).boundaries[b])
<1> DEFINE rules == {i \in DOMAIN fmt : fmt[i] = "|" /\ NumberOfColumns(SubSeq(fmt, 1, i)) = b}
           tokens == SubSeq(fmt, ColumnAt(fmt, b) + 1, ColumnAt(fmt, b + 1) - 1)
           extra == SelectSeq(tokens, LAMBDA token : token # "|")
<1>1. IsFiniteSet(rules)
    <2>1. fmt \in Seq(ColumnTypes \cup BoundaryTokens \cup {"?"})
        BY TableAssumption
    <2>2. DOMAIN fmt = 1 .. Len(fmt) /\ Len(fmt) \in Nat
        BY <2>1
    <2>3. IsFiniteSet(DOMAIN fmt)
        BY <2>2, FS_Interval
    <2>4. QED
        BY <2>3, FS_Subset
<1>2. Cardinality(rules) \in Nat
    <2> HIDE DEF rules
    <2>1. QED
        BY <1>1, FS_CardinalityType
<1>3. ParseTabularPreamble(fmt).boundaries[b] = [vrules |-> Cardinality(rules), extra |-> extra]
    BY DEF ParseTabularPreamble
<1> HIDE DEF rules, extra
<1>4. QED
    BY <1>2, <1>3 DEF IsBoundary

\* How often an index is applied.
LEMMA TimesApplied ==
    ASSUME NEW indices \in IndexLists, NEW limit, NEW index
    PROVE  Times(Applied(indices, limit), index) \in Nat
<1> DEFINE applied == Applied(indices, limit)
           bad == {i \in DOMAIN indices : indices[i] > limit}
           hits == {i \in DOMAIN applied : applied[i] = index}
<1>1. indices \in Seq(Nat)
    BY TableAssumption
<1>2. \E n \in Nat : DOMAIN applied = 1 .. n
    <2>1. CASE bad = {}
        BY <1>1, <2>1 DEF Applied
    <2>2. CASE bad # {}
        <3>1. bad \subseteq Nat
            BY <1>1
        <3>2. \E i \in bad : \A j \in bad : i <= j
            <4> HIDE DEF bad
            <4>1. QED
                BY <2>2, <3>1, LeastOf
        <3>3. PICK i \in bad : i = CHOOSE k \in bad : \A j \in bad : k <= j
            <4> HIDE DEF bad
            <4>1. QED
                BY <3>2
        <3>4. applied = SubSeq(indices, 1, i - 1)
            BY <2>2, <3>3 DEF Applied
        <3>5. i \in 1 .. Len(indices)
            BY <1>1
        <3>6. SubSeq(indices, 1, i - 1) \in Seq(Nat)
            BY <1>1, <3>5
        <3>7. QED
            BY <3>4, <3>6
    <2>3. QED
        BY <2>1, <2>2
<1> HIDE DEF applied
<1>3. IsFiniteSet(DOMAIN applied)
    <2>1. PICK n \in Nat : DOMAIN applied = 1 .. n
        BY <1>2
    <2>2. QED
        BY <2>1, FS_Interval
<1>4. IsFiniteSet(hits)
    BY <1>3, FS_Subset
<1>5. Cardinality(hits) \in Nat
    <2> HIDE DEF hits
    <2>1. QED
        BY <1>4, FS_CardinalityType
<1>6. QED
    BY <1>5 DEF Times, applied

\* The rules of a call are counts at the boundaries displayed.
LEMMA RulesAsked ==
    ASSUME NEW indices \in IndexLists, NEW count \in Nat, NEW side
    PROVE  \A b \in 0..DisplayedColumns : VRulesAt(indices, count, side)[b] \in Nat
<1> DEFINE right == IF side = "right" THEN 1 ELSE 0
           applied == Applied(indices, DisplayedColumns - right)
<1>1. VRulesAt(indices, count, side) = [b \in 0..DisplayedColumns |-> count * Times(applied, b - right)]
    BY DEF VRulesAt
<1>2. \A b : Times(applied, b - right) \in Nat
    BY TimesApplied
<1> HIDE DEF applied, right
<1>3. QED
    BY <1>1, <1>2

\* Where rules are added they are counted, and nowhere else.
LEMMA RulesAdded ==
    ASSUME TableInv, RulesCount(options), options.include_index \in BOOLEAN,
           NEW added, \A b \in 0..DisplayedColumns : added[b] \in Nat,
           NEW opts, opts = WithVRules(options, added)
    PROVE  /\ RulesCount(opts) /\ opts.include_index = options.include_index
           /\ ~options.include_index =>
                \A b \in 0..NColumns :
                   opts.preamble.boundaries[b].vrules = options.preamble.boundaries[b].vrules + added[b]
           /\ options.include_index =>
                /\ opts.index_column.left.vrules = options.index_column.left.vrules + added[0]
                /\ opts.index_column.right.vrules = options.index_column.right.vrules + added[1]
                /\ opts.preamble.boundaries[0] = options.preamble.boundaries[0]
                /\ \A b \in 1..NColumns : opts.preamble.boundaries[b].vrules =
                                           options.preamble.boundaries[b].vrules + added[b + 1]
<1> USE NamesOfOptions DEF OptionNames
<1>0. NColumns \in Nat
    BY ColumnsAreListed
<1> DEFINE at == options.preamble.boundaries
           index == options.index_column
<1>1. \A b \in 0..NColumns : IsBoundary(at[b])
    BY DEF RulesCount
<1>2. IsPreamble(opts.preamble, NColumns)
    BY RuledOptions
<1>3. DOMAIN options.preamble = {"alignments", "boundaries"}
    BY DEF RulesCount, IsPreamble
<1>4. CASE ~options.include_index
    <2>1. DisplayedColumns = NColumns
        BY <1>0, <1>4 DEF DisplayedColumns, IndexCells
    <2>2. /\ opts.preamble.boundaries = [b \in 0..NColumns |-> WithRules(at[b], added[b])]
          /\ opts.index_column = index /\ opts.include_index = options.include_index
        BY <1>3, <1>4 DEF WithVRules
    <2>3. \A b \in 0..NColumns : /\ IsBoundary(opts.preamble.boundaries[b])
                                  /\ opts.preamble.boundaries[b].vrules = at[b].vrules + added[b]
        BY <1>1, <2>1, <2>2, RuledBoundary
    <2>4. QED
        BY <1>2, <1>4, <2>2, <2>3 DEF RulesCount
<1>5. CASE options.include_index
    <2>1. DisplayedColumns = NColumns + 1
        BY <1>5 DEF DisplayedColumns, IndexCells
    <2>2. /\ opts.preamble.boundaries =
               [b \in 0..NColumns |-> IF b = 0 THEN at[b] ELSE WithRules(at[b], added[b + 1])]
          /\ opts.index_column = [[index EXCEPT !.left = WithRules(@, added[0])]
                                    EXCEPT !.right = WithRules(@, added[1])]
          /\ opts.include_index = options.include_index
        BY <1>3, <1>5 DEF WithVRules
    <2>3. DOMAIN index = {"alignment", "left", "right"} /\ IsBoundary(index.left) /\ IsBoundary(index.right)
        BY DEF RulesCount
    <2>4. /\ DOMAIN opts.index_column = {"alignment", "left", "right"}
          /\ opts.index_column.left = WithRules(index.left, added[0])
          /\ opts.index_column.right = WithRules(index.right, added[1])
        BY <2>2, <2>3
    <2>5. added[0] \in Nat /\ added[1] \in Nat
        BY <1>0, <2>1
    <2>6. /\ IsBoundary(opts.index_column.left) /\ IsBoundary(opts.index_column.right)
          /\ opts.index_column.left.vrules = index.left.vrules + added[0]
          /\ opts.index_column.right.vrules = index.right.vrules + added[1]
        <3>1. PICK left, right, first, second :
                 left = index.left /\ right = index.right /\ first = added[0] /\ second = added[1]
            OBVIOUS
        <3>2. IsBoundary(left) /\ IsBoundary(right) /\ first \in Nat /\ second \in Nat
            BY <2>3, <2>5, <3>1
        <3>3. IsBoundary(WithRules(left, first)) /\ WithRules(left, first).vrules = left.vrules + first
            BY <3>2, RuledBoundary
        <3>4. IsBoundary(WithRules(right, second)) /\ WithRules(right, second).vrules = right.vrules + second
            BY <3>2, RuledBoundary
        <3>5. opts.index_column.left = WithRules(left, first) /\ opts.index_column.right = WithRules(right, second)
            BY <2>4, <3>1
        <3>6. QED
            BY <3>1, <3>3, <3>4, <3>5
    <2>7. opts.preamble.boundaries[0] = at[0]
        BY <1>0, <2>2
    <2>8. \A b \in 1..NColumns : /\ IsBoundary(opts.preamble.boundaries[b])
                                  /\ opts.preamble.boundaries[b].vrules = at[b].vrules + added[b + 1]
        <3> SUFFICES ASSUME NEW b \in 1..NColumns
                     PROVE  /\ IsBoundary(opts.preamble.boundaries[b])
                            /\ opts.preamble.boundaries[b].vrules = at[b].vrules + added[b + 1]
            OBVIOUS
        <3>1. b \in 0..NColumns /\ b # 0 /\ b + 1 \in 0..DisplayedColumns
            BY <1>0, <2>1
        <3>2. added[b + 1] \in Nat /\ IsBoundary(at[b])
            BY <1>1, <3>1
        <3>3. opts.preamble.boundaries[b] = WithRules(at[b], added[b + 1])
            BY <2>2, <3>1
        <3>4. QED
            BY <3>2, <3>3, RuledBoundary
    <2>9. \A b \in 0..NColumns : IsBoundary(opts.preamble.boundaries[b])
        BY <1>0, <1>1, <2>7, <2>8
    <2>10. QED
        BY <1>2, <1>5, <2>2, <2>4, <2>6, <2>7, <2>8, <2>9 DEF RulesCount
<1>6. QED
    BY <1>4, <1>5

\* The invariant of the vertical rules.
RulesInv == RulesCount(options) /\ options.include_index \in BOOLEAN

KeepsRules(opts) ==
    /\ opts.preamble = options.preamble /\ opts.index_column = options.index_column
    /\ opts.include_index \in BOOLEAN

LEMMA KeptRules ==
    ASSUME RulesInv, KeepsRules(options')
    PROVE  RulesInv'
BY DEF RulesInv, KeepsRules, RulesCount

\* Without options there are no rules.
LEMMA FreshRulesCount == RulesCount(FreshOptions) /\ FreshOptions.include_index \in BOOLEAN
<1>1. /\ FreshOptions.preamble = PlainPreamble(NColumns) /\ FreshOptions.index_column = PlainIndex
      /\ FreshOptions.include_index = FALSE
    BY DEF FreshOptions
<1>2. IsPreamble(PlainPreamble(NColumns), NColumns)
    BY DEF PlainPreamble, IsPreamble, Fits
<1>3. \A b \in 0..NColumns : IsBoundary(PlainPreamble(NColumns).boundaries[b])
    BY PlainBoundary DEF PlainPreamble
<1>4. /\ DOMAIN PlainIndex = {"alignment", "left", "right"}
      /\ IsBoundary(PlainIndex.left) /\ IsBoundary(PlainIndex.right)
    BY PlainBoundary DEF PlainIndex
<1>5. QED
    BY <1>1, <1>2, <1>3, <1>4 DEF RulesCount

LEMMA UnrelatedKeepRules ==
    ASSUME TableInv, RulesInv,
           \/ AddHruleAbove \/ AddHruleAboveAll \/ SetAllHrule \/ ClearAllHrule \/ SetRuleCommand
           \/ RemoveIndex \/ SetHeaders \/ SetHeaderGroups \/ ClearHeaderGroups
           \/ SetsDraws
    PROVE  RulesInv'
<1> USE NamesOfOptions DEF OptionNames
<1>1. options.include_index \in BOOLEAN
    BY DEF RulesInv
<1>2. CASE AddHruleAbove
    BY <1>1, <1>2, KeptRules DEF AddHruleAbove, SetsOptions, Sets, KeepsRules
<1>3. CASE AddHruleAboveAll \/ SetAllHrule \/ ClearAllHrule
    BY <1>1, <1>3, KeptRules DEF AddHruleAboveAll, SetAllHrule, ClearAllHrule, SetsOptions, Sets, KeepsRules
<1>4. CASE SetRuleCommand
    BY <1>1, <1>4, KeptRules DEF SetRuleCommand, SetsOptions, Sets, KeepsRules
<1>5. CASE RemoveIndex \/ SetHeaders
    BY <1>1, <1>5, KeptRules DEF RemoveIndex, SetHeaders, SetsOptions, Sets, KeepsRules
<1>6. CASE SetHeaderGroups \/ ClearHeaderGroups
    BY <1>1, <1>6, KeptRules DEF SetHeaderGroups, ClearHeaderGroups, SetsOptions, Sets, KeepsRules
<1>7. CASE SetsDraws
    BY <1>1, <1>7, KeptRules DEF SetsDraws, SetCellBorder, AddDraw, ClearDraws, SetsOptions, Sets,
       KeepsRules
<1>8. QED
    BY <1>2, <1>3, <1>4, <1>5, <1>6, <1>7

LEMMA CellsKeepRules ==
    ASSUME TableInv, RulesInv, SetsCells
    PROVE  RulesInv'
<1> USE NamesOfOptions DEF OptionNames
<1>1. options.include_index \in BOOLEAN
    BY DEF RulesInv
<1>2. KeepsRules(options)
    BY <1>1 DEF KeepsRules
<1>3. CASE HighlightRows \/ SetDecimalCount
    BY <1>1, <1>3, KeptRules DEF HighlightRows, SetDecimalCount, SetsOptions, Sets, KeepsRules
<1>4. ASSUME NEW formatter, NEW opts, SetsFormatter(formatter, opts), KeepsRules(opts)
      PROVE  RulesInv'
    BY <1>2, <1>4, KeptRules DEF SetsFormatter, Sets
<1>5. CASE SetFormatter
    <2>1. PICK formatter \in Formatters :
            \/ SetsFormatter(formatter, [options EXCEPT !.number_fmt = formatter])
            \/ SetsFormatter(formatter, [options EXCEPT !.str_fmt = formatter])
            \/ SetsFormatter(formatter, [options EXCEPT !.index_fmt = formatter])
        BY <1>5 DEF SetFormatter
    <2>2. /\ KeepsRules([options EXCEPT !.number_fmt = formatter])
          /\ KeepsRules([options EXCEPT !.str_fmt = formatter])
          /\ KeepsRules([options EXCEPT !.index_fmt = formatter])
        BY <1>1 DEF KeepsRules
    <2>3. QED
        BY <1>4, <2>1, <2>2
<1>6. CASE SetColumnFormatter
    <2>1. PICK formatter, columns : SetsFormatter(formatter, [options EXCEPT !.col_formatters =
                              [c \in ToSet(Columns) |-> IF c \in columns THEN formatter ELSE @[c]]])
        BY <1>6 DEF SetColumnFormatter
    <2> DEFINE opts == [options EXCEPT !.col_formatters =
                              [c \in ToSet(Columns) |-> IF c \in columns THEN formatter ELSE @[c]]]
    <2>2. KeepsRules(opts)
        BY <1>1 DEF KeepsRules
    <2>3. QED
        BY <1>4, <2>1, <2>2
<1>7. CASE SetRowFormatter
    <2>1. PICK formatter, indices : SetsFormatter(formatter, [options EXCEPT !.row_formatters =
              [r \in RowIndices |-> IF Times(Applied(indices, Rows - 1), r) > 0 THEN formatter ELSE @[r]]])
        BY <1>7 DEF SetRowFormatter
    <2> DEFINE opts == [options EXCEPT !.row_formatters =
              [r \in RowIndices |-> IF Times(Applied(indices, Rows - 1), r) > 0 THEN formatter ELSE @[r]]]
    <2>2. KeepsRules(opts)
        BY <1>1 DEF KeepsRules
    <2>3. QED
        BY <1>4, <2>1, <2>2
<1>8. CASE ClearOptions
    <2>1. options' = FreshOptions
        BY <1>8 DEF ClearOptions
    <2>2. RulesCount(FreshOptions) /\ FreshOptions.include_index \in BOOLEAN
        BY FreshRulesCount
    <2>3. QED
        BY <2>1, <2>2 DEF RulesInv
<1>9. QED
    BY <1>3, <1>5, <1>6, <1>7, <1>8 DEF SetsCells

LEMMA VerticalRulesKeepRules ==
    ASSUME TableInv, RulesInv, AddVRulesOf \/ AddVRuleAll \/ ClearAllVRule
    PROVE  RulesInv'
<1> USE NamesOfOptions DEF OptionNames
<1>0. RulesCount(options) /\ options.include_index \in BOOLEAN
    BY DEF RulesInv
<1>1. CASE AddVRulesOf
    <2>1. PICK indices \in IndexLists, count \in 1..2, side \in {"left", "right"} : AddVRules(indices, count, side)
        BY <1>1 DEF AddVRulesOf
    <2> DEFINE added == VRulesAt(indices, count, side)
               opts == WithVRules(options, added)
    <2>2. options' = opts
        BY <2>1 DEF AddVRules, SetsOptions, Sets
    <2>3. \A b \in 0..DisplayedColumns : added[b] \in Nat
        BY RulesAsked
    <2> HIDE DEF added
    <2>4. RulesCount(opts) /\ opts.include_index = options.include_index
        BY <1>0, <2>3, RulesAdded
    <2>5. QED
        BY <1>0, <2>2, <2>4 DEF RulesInv
<1>2. CASE AddVRuleAll
    <2> DEFINE ones == [b \in 0..DisplayedColumns |-> 1]
               everywhere == WithVRules(options, ones)
               opts == IF options.include_index THEN everywhere
                       ELSE [everywhere EXCEPT !.index_column.left = WithRules(@, 1)]
    <2>1. options' = opts
        BY <1>2 DEF AddVRuleAll, SetsOptions, Sets
    <2>2. \A b \in 0..DisplayedColumns : ones[b] \in Nat
        OBVIOUS
    <2> HIDE DEF ones
    <2>3. RulesCount(everywhere) /\ everywhere.include_index = options.include_index
        BY <1>0, <2>2, RulesAdded
    <2>4. DOMAIN everywhere = OptionNames
        BY RuledOptions DEF KeepsOthers
    <2> HIDE DEF everywhere
    <2>5. CASE options.include_index
        BY <1>0, <2>1, <2>3, <2>5 DEF RulesInv
    <2>6. CASE ~options.include_index
        <3> DEFINE left == WithRules(everywhere.index_column.left, 1)
        <3>1. IsBoundary(left)
            BY <2>3, RuledBoundary DEF RulesCount
        <3>2. opts = [everywhere EXCEPT !.index_column.left = left]
            BY <2>6
        <3> HIDE DEF left, opts
        <3>3. /\ opts.preamble = everywhere.preamble /\ opts.include_index = everywhere.include_index
              /\ opts.index_column = [everywhere.index_column EXCEPT !.left = left]
            BY <2>4, <3>2
        <3>4. RulesCount(opts)
            BY <2>3, <3>1, <3>3 DEF RulesCount
        <3>5. QED
            BY <1>0, <2>1, <2>3, <3>3, <3>4 DEF RulesInv
    <2>7. QED
        BY <2>5, <2>6
<1>3. CASE ClearAllVRule
    <2>1. /\ options'.preamble = WithoutVRules(options.preamble)
          /\ options'.index_column = IndexWithoutVRules(options.index_column)
          /\ options'.include_index = options.include_index
        BY <1>3 DEF ClearAllVRule, SetsOptions, Sets
    <2>2. \A b \in 0..NColumns : IsBoundary(WithoutVRules(options.preamble).boundaries[b])
        BY <1>0 DEF WithoutVRules, RulesCount, IsPreamble, Fits, IsBoundary
    <2>3. IsPreamble(WithoutVRules(options.preamble), NColumns)
        BY <1>0 DEF WithoutVRules, RulesCount, IsPreamble, Fits
    <2>4. /\ DOMAIN IndexWithoutVRules(options.index_column) = {"alignment", "left", "right"}
          /\ IsBoundary(IndexWithoutVRules(options.index_column).left)
          /\ IsBoundary(IndexWithoutVRules(options.index_column).right)
        BY <1>0 DEF IndexWithoutVRules, RulesCount, IsBoundary
    <2>5. QED
        BY <1>0, <2>1, <2>2, <2>3, <2>4 DEF RulesInv, RulesCount
<1>4. QED
    BY <1>1, <1>2, <1>3

LEMMA FormatsKeepRules ==
    ASSUME TableInv, RulesInv, IncludeIndex \/ SetTabularFormat \/ SetGroupTabularFormat
    PROVE  RulesInv'
<1> USE NamesOfOptions DEF OptionNames
<1>0. RulesCount(options) /\ options.include_index \in BOOLEAN /\ NColumns \in Nat
    BY ColumnsAreListed DEF RulesInv
<1>1. \A fmt \in Formats : \A b \in 0..NumberOfColumns(fmt) :
         IsBoundary(ParseTabularPreamble(fmt).boundaries[b])
    BY ParsedBoundaries
<1>2. \A parsed : DOMAIN IndexOf(parsed) = {"alignment", "left", "right"}
                  /\ IndexOf(parsed).left = parsed.boundaries[0] /\ IndexOf(parsed).right = parsed.boundaries[1]
    BY DEF IndexOf
<1>3. CASE IncludeIndex
    <2>1. PICK name, fmt :
            LET named == [options EXCEPT !.index_name = name]
            IN  \/ SetsOptions("columns", [named EXCEPT !.include_index = TRUE])
                \/ SetsOptions("columns", named)
                \/ /\ fmt \in Formats /\ NumberOfColumns(fmt) = 1
                   /\ Sets("columns", [named EXCEPT !.include_index = TRUE,
                                               !.index_column = IndexOf(ParseTabularPreamble(fmt))],
                           WithPackages(document, ColspecPackages(fmt)), {})
        BY <1>3 DEF IncludeIndex
    <2> DEFINE named == [options EXCEPT !.index_name = name]
    <2>2. CASE SetsOptions("columns", [named EXCEPT !.include_index = TRUE]) \/ SetsOptions("columns", named)
        BY <1>0, <2>2, KeptRules DEF SetsOptions, Sets, KeepsRules
    <2>3. CASE /\ fmt \in Formats /\ NumberOfColumns(fmt) = 1
               /\ Sets("columns", [named EXCEPT !.include_index = TRUE,
                                               !.index_column = IndexOf(ParseTabularPreamble(fmt))],
                       WithPackages(document, ColspecPackages(fmt)), {})
        <3>1. fmt \in Formats
            BY <2>3
        <3>2. /\ options'.preamble = options.preamble
              /\ options'.index_column = IndexOf(ParseTabularPreamble(fmt))
              /\ options'.include_index = TRUE
            BY <2>3 DEF Sets
        <3>3. IsBoundary(ParseTabularPreamble(fmt).boundaries[0]) /\ IsBoundary(ParseTabularPreamble(fmt).boundaries[1])
            BY <1>1, <2>3, <3>1
        <3>4. QED
            BY <1>0, <1>2, <3>2, <3>3 DEF RulesInv, RulesCount
    <2>4. QED
        BY <2>1, <2>2, <2>3
<1>4. CASE SetTabularFormat
    <2>1. PICK fmt \in Formats :
            /\ NumberOfColumns(fmt) = DisplayedColumns
            /\ Sets("columns",
                    IF options.include_index
                    THEN [options EXCEPT !.index_column = IndexOf(ParseTabularPreamble(fmt)),
                                         !.preamble = WithoutIndex(ParseTabularPreamble(fmt), NColumns)]
                    ELSE [options EXCEPT !.preamble = ParseTabularPreamble(fmt)],
                    WithPackages(document, ColspecPackages(fmt)), {})
        BY <1>4 DEF SetTabularFormat
    <2> DEFINE parsed == ParseTabularPreamble(fmt)
    <2>2. \A b \in 0..DisplayedColumns : IsBoundary(parsed.boundaries[b])
        BY <1>1, <2>1
    <2>3. CASE options.include_index
        <3>1. DisplayedColumns = NColumns + 1
            BY <1>0, <2>3 DEF DisplayedColumns, IndexCells
        <3>2. /\ options'.preamble = WithoutIndex(parsed, NColumns)
              /\ options'.index_column = IndexOf(parsed)
              /\ options'.include_index = options.include_index
            BY <2>1, <2>3 DEF Sets
        <3> HIDE DEF parsed
        <3>3. \A b \in 0..NColumns : IsBoundary(WithoutIndex(parsed, NColumns).boundaries[b])
            BY <1>0, <2>2, <3>1, PlainBoundary DEF WithoutIndex
        <3>4. IsBoundary(parsed.boundaries[0]) /\ IsBoundary(parsed.boundaries[1])
            BY <1>0, <2>2, <3>1
        <3>5. IsPreamble(WithoutIndex(parsed, NColumns), NColumns)
            BY WithoutIndexIsPreamble
        <3>6. QED
            BY <1>0, <1>2, <3>2, <3>3, <3>4, <3>5 DEF RulesInv, RulesCount
    <2>4. CASE ~options.include_index
        <3>1. DisplayedColumns = NColumns
            BY <1>0, <2>4 DEF DisplayedColumns, IndexCells
        <3>2. /\ options'.preamble = parsed /\ options'.index_column = options.index_column
              /\ options'.include_index = options.include_index
            BY <2>1, <2>4 DEF Sets
        <3>3. IsPreamble(parsed, NColumns)
            BY <2>1, <3>1, ParsedIsPreamble
        <3> HIDE DEF parsed
        <3>4. QED
            BY <1>0, <2>2, <3>1, <3>2, <3>3 DEF RulesInv, RulesCount
    <2>5. QED
        BY <2>3, <2>4
<1>5. CASE SetGroupTabularFormat
    <2>1. PICK fmt :
             options' = WithGroupFormat(options, ParseTabularPreamble(fmt),
                                        options.include_index /\ NumberOfColumns(fmt) = Len(NonEmptyGroups(options)),
                                        Len(NonEmptyGroups(options)))
        BY <1>5 DEF SetGroupTabularFormat, Sets
    <2> DEFINE cells == Len(NonEmptyGroups(options))
               omitted == options.include_index /\ NumberOfColumns(fmt) = cells
    <2> DEFINE parsed == ParseTabularPreamble(fmt)
    <2>2. \/ options' = [options EXCEPT !.group_index = <<>>, !.group_preamble = <<parsed>>]
          \/ options' = [options EXCEPT !.group_index = <<ImpliedGroupIndex(options, parsed)>>,
                                        !.group_preamble = <<parsed>>]
          \/ options' = [options EXCEPT !.group_index = <<IndexOf(parsed)>>,
                                        !.group_preamble = <<WithoutIndex(parsed, cells)>>]
        <3>1. CASE ~options.include_index
            BY <2>1, <3>1, Zenon DEF WithGroupFormat
        <3>2. CASE options.include_index /\ omitted
            BY <2>1, <3>2, Zenon DEF WithGroupFormat
        <3>3. CASE options.include_index /\ ~omitted
            BY <2>1, <3>3, Zenon DEF WithGroupFormat
        <3>4. QED
            BY <3>1, <3>2, <3>3
    <2>3. KeepsRules(options')
        <3> HIDE DEF parsed
        <3>1. QED
            BY <1>0, <2>2 DEF KeepsRules
    <2>4. QED
        BY <2>3, KeptRules
<1>6. QED
    BY <1>3, <1>4, <1>5

LEMMA DocumentKeepsRules ==
    ASSUME RulesInv, UsesTableDocument \/ UNCHANGED tableVars
    PROVE  RulesInv'
BY DEF RulesInv, RulesCount, UsesTableDocument, tableVars

LEMMA RulesInvNext ==
    ASSUME TableInv, RulesInv, [TableNext]_tableVars
    PROVE  RulesInv'
BY UnrelatedKeepRules, CellsKeepRules, VerticalRulesKeepRules, FormatsKeepRules, DocumentKeepsRules
   DEF TableNext, SetsRules, SetsColumns

\* Columns take their tokens along when header groups move them; rules stay.
LEMMA ReorderedRulesStay ==
    ASSUME NEW preamble, NEW order, NEW b \in 0..NColumns
    PROVE  Reordered(preamble, order, NColumns).boundaries[b].vrules = preamble.boundaries[b].vrules
BY DEF Reordered

\* The rules displayed are those of the preamble, after those of the index if it is displayed.
LEMMA RulesAreDisplayed ==
    ASSUME NEW opts, RulesCount(opts)
    PROVE  /\ ~opts.include_index =>
                VRulesDisplayed(opts) = [b \in 0..NColumns |-> opts.preamble.boundaries[b].vrules]
           /\ opts.include_index =>
                VRulesDisplayed(opts) =
                  [b \in 0..(NColumns + 1) |->
                     IF b = 0 THEN opts.index_column.left.vrules
                     ELSE IF b = 1 THEN opts.index_column.right.vrules + opts.preamble.boundaries[0].vrules
                     ELSE opts.preamble.boundaries[b - 1].vrules]
<1>0. NColumns \in Nat
    BY ColumnsAreListed
<1> DEFINE order == [i \in 0..(NColumns - 1) |-> PositionOf(ColumnOrdering(opts)[i + 1])]
           data == Reordered(opts.preamble, order, NColumns)
           index == opts.index_column
           resolved == ResolvedPreamble(opts)
<1>1. \A b \in 0..NColumns : data.boundaries[b].vrules = opts.preamble.boundaries[b].vrules
    BY ReorderedRulesStay
<1>2. CASE ~opts.include_index
    <2>1. resolved = data
        BY <1>2 DEF ResolvedPreamble
    <2>2. NColumns + IndexCells(opts) = NColumns
        BY <1>0, <1>2 DEF IndexCells
    <2> HIDE DEF data, resolved
    <2>3. [b \in 0..NColumns |-> resolved.boundaries[b].vrules]
          = [b \in 0..NColumns |-> opts.preamble.boundaries[b].vrules]
        BY <1>1, <2>1
    <2>4. VRulesDisplayed(opts) = [b \in 0..NColumns |-> resolved.boundaries[b].vrules]
        BY <2>2 DEF VRulesDisplayed, resolved
    <2>5. QED
        BY <1>2, <2>3, <2>4
<1>3. CASE opts.include_index
    <2>1. resolved = [alignments |-> [i \in 0..NColumns |->
                              IF i = 0 THEN index.alignment ELSE data.alignments[i - 1]],
                      boundaries |-> [b \in 0..(NColumns + 1) |->
                              CASE b = 0 -> index.left
                                [] b = 1 -> Merged(index.right, data.boundaries[0])
                                [] OTHER -> data.boundaries[b - 1]]]
        BY <1>3 DEF ResolvedPreamble
    <2> DEFINE at == [b \in 0..(NColumns + 1) |->
                        CASE b = 0 -> index.left
                          [] b = 1 -> Merged(index.right, data.boundaries[0])
                          [] OTHER -> data.boundaries[b - 1]]
    <2>2. resolved.boundaries = at
        <3> HIDE DEF at, data, index
        <3>1. QED
            BY <2>1 DEF at
    <2>3. NColumns + IndexCells(opts) = NColumns + 1
        BY <1>3 DEF IndexCells
    <2>4. ASSUME NEW b \in 0..(NColumns + 1)
          PROVE  at[b].vrules = IF b = 0 THEN index.left.vrules
                                ELSE IF b = 1 THEN index.right.vrules + opts.preamble.boundaries[0].vrules
                                ELSE opts.preamble.boundaries[b - 1].vrules
        <3> HIDE DEF data, index
        <3>1. CASE b = 0
            <4>1. b # 1
                BY <3>1
            <4>2. at[b] = index.left
                BY <3>1, <4>1, Zenon
            <4>3. QED
                BY <3>1, <4>2
        <3>2. CASE b = 1
            <4>0. b # 0
                BY <3>2
            <4>1. at[b] = Merged(index.right, data.boundaries[0])
                BY <3>2, <4>0, Zenon
            <4>2. data.boundaries[0].vrules = opts.preamble.boundaries[0].vrules
                BY <1>0, <1>1
            <4> HIDE DEF at
            <4>3. QED
                BY <3>2, <4>1, <4>2 DEF Merged
        <3>3. CASE b # 0 /\ b # 1
            <4>1. at[b] = data.boundaries[b - 1]
                BY <3>3, Zenon
            <4>2. b - 1 \in 0..NColumns
                BY <1>0, <3>3
            <4> HIDE DEF at
            <4>3. QED
                BY <1>1, <3>3, <4>1, <4>2
        <3>4. QED
            BY <3>1, <3>2, <3>3
    <2> HIDE DEF resolved, at
    <2>5. VRulesDisplayed(opts) = [b \in 0..(NColumns + 1) |-> at[b].vrules]
        BY <2>2, <2>3 DEF VRulesDisplayed, resolved
    <2>6. QED
        BY <1>3, <2>4, <2>5
<1>4. QED
    BY <1>2, <1>3

LEMMA RulesLandStep ==
    ASSUME TableInv, RulesInv, NEW indices \in IndexLists, NEW side, AddVRules(indices, 1, side)
    PROVE  VRulesDisplayed(options') =
             [b \in 0..DisplayedColumns |-> VRulesDisplayed(options)[b] + VRulesAt(indices, 1, side)[b]]
<1> DEFINE added == VRulesAt(indices, 1, side)
           opts == WithVRules(options, added)
           before == options.preamble.boundaries
           after == opts.preamble.boundaries
<1>0. NColumns \in Nat /\ RulesCount(options) /\ options.include_index \in BOOLEAN
    BY ColumnsAreListed DEF RulesInv
<1>1. options' = opts
    BY DEF AddVRules, SetsOptions, Sets
<1>2. \A b \in 0..DisplayedColumns : added[b] \in Nat
    BY RulesAsked
<1> HIDE DEF added
<1>3. /\ RulesCount(opts) /\ opts.include_index = options.include_index
      /\ ~options.include_index => \A b \in 0..NColumns : after[b].vrules = before[b].vrules + added[b]
      /\ options.include_index =>
           /\ opts.index_column.left.vrules = options.index_column.left.vrules + added[0]
           /\ opts.index_column.right.vrules = options.index_column.right.vrules + added[1]
           /\ after[0] = before[0]
           /\ \A b \in 1..NColumns : after[b].vrules = before[b].vrules + added[b + 1]
    BY <1>0, <1>2, RulesAdded
<1> HIDE DEF opts
<1>4. CASE ~options.include_index
    <2>1. DisplayedColumns = NColumns
        BY <1>0, <1>4 DEF DisplayedColumns, IndexCells
    <2>2. VRulesDisplayed(options) = [b \in 0..NColumns |-> before[b].vrules]
        BY <1>0, <1>4, RulesAreDisplayed
    <2>3. VRulesDisplayed(opts) = [b \in 0..NColumns |-> after[b].vrules]
        BY <1>3, <1>4, RulesAreDisplayed
    <2> HIDE DEF before, after
    <2>4. VRulesDisplayed(opts) = [b \in 0..DisplayedColumns |-> VRulesDisplayed(options)[b] + added[b]]
        BY <1>3, <1>4, <2>1, <2>2, <2>3
    <2>5. QED
        BY <1>1, <2>4 DEF added
<1>5. CASE options.include_index
    <2>1. DisplayedColumns = NColumns + 1
        BY <1>0, <1>5 DEF DisplayedColumns, IndexCells
    <2> DEFINE left == options.index_column.left.vrules
               right == options.index_column.right.vrules
    <2>2. VRulesDisplayed(options) =
            [b \in 0..(NColumns + 1) |-> IF b = 0 THEN left
                                         ELSE IF b = 1 THEN right + before[0].vrules
                                         ELSE before[b - 1].vrules]
        BY <1>0, <1>5, RulesAreDisplayed
    <2>3. VRulesDisplayed(opts) =
            [b \in 0..(NColumns + 1) |-> IF b = 0 THEN opts.index_column.left.vrules
                                         ELSE IF b = 1 THEN opts.index_column.right.vrules + after[0].vrules
                                         ELSE after[b - 1].vrules]
        BY <1>3, <1>5, RulesAreDisplayed
    <2>4. left \in Nat /\ right \in Nat /\ before[0].vrules \in Nat
        BY <1>0 DEF RulesCount, IsBoundary
    <2>5. added[0] \in Nat /\ added[1] \in Nat
        BY <1>0, <1>2, <2>1
    <2> HIDE DEF before, after, left, right
    <2>6. opts.index_column.right.vrules + after[0].vrules = (right + before[0].vrules) + added[1]
        BY <1>3, <1>5, <2>4, <2>5 DEF right
    <2>7. \A b \in 0..(NColumns + 1) : VRulesDisplayed(opts)[b] = VRulesDisplayed(options)[b] + added[b]
        <3> SUFFICES ASSUME NEW b \in 0..(NColumns + 1)
                     PROVE  VRulesDisplayed(opts)[b] = VRulesDisplayed(options)[b] + added[b]
            OBVIOUS
        <3>1. CASE b = 0
            BY <1>3, <1>5, <2>2, <2>3, <3>1 DEF left
        <3>2. CASE b = 1
            BY <2>2, <2>3, <2>6, <3>2
        <3>3. CASE b # 0 /\ b # 1
            <4>1. b - 1 \in 1..NColumns /\ (b - 1) + 1 = b
                BY <1>0, <3>3
            <4>2. after[b - 1].vrules = before[b - 1].vrules + added[b]
                BY <1>3, <1>5, <4>1
            <4>3. QED
                BY <2>2, <2>3, <3>3, <4>2
        <3>4. QED
            BY <3>1, <3>2, <3>3
    <2>8. VRulesDisplayed(opts) = [b \in 0..DisplayedColumns |-> VRulesDisplayed(options)[b] + added[b]]
        BY <2>1, <2>3, <2>7
    <2>9. QED
        BY <1>1, <2>8 DEF added
<1>6. QED
    BY <1>0, <1>4, <1>5

LEMMA RulesInvInit == TableInit => RulesInv
<1>1. RulesCount(FreshOptions) /\ FreshOptions.include_index \in BOOLEAN
    BY FreshRulesCount
<1>2. /\ DefaultOptions.preamble = FreshOptions.preamble
      /\ DefaultOptions.index_column = FreshOptions.index_column
      /\ DefaultOptions.include_index = FreshOptions.include_index
    BY FreshNames DEF OptionNames, DefaultOptions
<1>3. QED
    BY <1>1, <1>2 DEF TableInit, RulesInv, RulesCount

\* A call for vertical rules adds them at the boundaries displayed that it names and at no others
\* (RulesLandWhereAsked), with the index shown or hidden, whatever formats were parsed, and
\* wherever header groups have moved the columns; the rules of a refused call are those before
\* the index it was refused for.
THEOREM RulesLand == TableSpec => RulesLandWhereAsked
<1>1. TableInit => TableInv /\ RulesInv
    BY TableInvInit, RulesInvInit
<1>2. TableInv /\ RulesInv /\ [TableNext]_tableVars => (TableInv /\ RulesInv)'
    BY TableInvNext, RulesInvNext, TableInvStutters
<1>3. TableInv /\ RulesInv /\ [TableNext]_tableVars =>
        [\A indices \in IndexLists, side \in {"left", "right"} :
           AddVRules(indices, 1, side) =>
             VRulesDisplayed(options') =
               [b \in 0..DisplayedColumns |->
                  VRulesDisplayed(options)[b] + VRulesAt(indices, 1, side)[b]]]_tableVars
    BY RulesLandStep
<1>4. QED
    BY <1>1, <1>2, <1>3, PTL DEF TableSpec, RulesLandWhereAsked

\* Nothing turns a table of one dialect into one of the other.
LEMMA DialectStays ==
    ASSUME [TableNext]_tableVars
    PROVE  dialect' = dialect
<1>1. CASE SetsRules
    BY <1>1 DEF SetsRules, AddHruleAbove, AddHruleAboveAll, SetAllHrule, ClearAllHrule, SetRuleCommand,
       AddVRulesOf, AddVRules, AddVRuleAll, ClearAllVRule, SetsOptions, Sets
<1>2. CASE SetsColumns
    BY <1>2 DEF SetsColumns, IncludeIndex, RemoveIndex, SetHeaders, SetTabularFormat,
       SetGroupTabularFormat, SetHeaderGroups, ClearHeaderGroups, SetsOptions, Sets
<1>3. CASE SetsCells
    BY <1>3 DEF SetsCells, HighlightRows, SetFormatter, SetDecimalCount, SetColumnFormatter,
       SetRowFormatter, ClearOptions, SetsFormatter, SetsOptions, Sets
<1>4. CASE SetsDraws
    BY <1>4 DEF SetsDraws, SetCellBorder, AddDraw, ClearDraws, SetsOptions, Sets
<1>5. CASE UsesTableDocument \/ UNCHANGED tableVars
    BY <1>5 DEF UsesTableDocument, tableVars
<1>6. QED
    BY <1>1, <1>2, <1>3, <1>4, <1>5 DEF TableNext

\* The options, the document and what is counted of its commands keep their types (TableTypeOK),
\* through every setter, refused calls and cleared options included.
THEOREM TableTypesHold == TableSpec => []TableTypeOK
<1> DEFINE Typed == TableInv /\ RulesInv /\ dialect \in Dialects
<1>1. TableInit => Typed
    BY TableInvInit, RulesInvInit DEF TableInit
<1>2. Typed /\ [TableNext]_tableVars => Typed'
    BY TableInvNext, RulesInvNext, DialectStays
<1>3. Typed => TableTypeOK
    BY DEF TableInv, RulesInv, PreamblesFit, DocumentCounts, TableTypeOK
<1> HIDE DEF Typed
<1>4. QED
    BY <1>1, <1>2, <1>3, PTL DEF TableSpec

=============================================================================
