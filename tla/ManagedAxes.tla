---------------------------- MODULE ManagedAxes ----------------------------
(***************************************************************************)
(* A plot on a Matplotlib axes it shares with its caller                   *)
(* (gerrytools/plotting: _axes_backed.py, _legend_mixin.py,                *)
(* data/gerryplot.py, data/_axis_api.py, geometry/geoplotbase.py).         *)
(*                                                                         *)
(* The plot keeps what it was asked for and applies it when it is next     *)
(* shown.  Between two rebuilds the caller changes the axes directly,      *)
(* binds the plot to other axes, and comes back to axes it has left.       *)
(* A plot made on no axes owns its figure and closes it.                   *)
(*                                                                         *)
(* Matplotlib is modelled as far as the rebuild relies on it: autoscaling, *)
(* ticks that follow the limits, limits that grow with fixed ticks, tick   *)
(* labels that stay hidden, and one legend to an axes.  ghost is the       *)
(* claim each side may make to each unit, which no code keeps.             *)
(***************************************************************************)
EXTENDS Integers, SequencesExt

-----------------------------------------------------------------------------
(* Who set each managed unit of a Matplotlib axes                          *)
(* (gerrytools/plotting/_axes_state.py).  A plot keeps, for every unit, an *)
(* owner and the value it recorded last; at the start of a rebuild a unit  *)
(* that no longer shows its recorded value is the caller's.                *)
(*                                                                         *)
(* An axes is a record with a field for every unit, its autoscaling switch *)
(* and what is drawn on it.  The units of the x and y axes and of the      *)
(* three titles behave alike, and one of each stands for them.  What a     *)
(* label, a style or a frame consists of is left out: a unit shows a       *)
(* value, and equal up to rounding is equal.                               *)

Units == {"limits", "ticks", "tick_style", "label", "scale", "frame", "legend",
          "axis_visibility", "aspect"}

Owners == {"external", "gerrytools_explicit", "gerrytools_default", "unclaimed"}

\* No value has been recorded: None is a value for some units.
NoLastApplied == <<>>

Unclaimed == [u \in Units |-> [ownership |-> "unclaimed", last_applied |-> NoLastApplied]]

-----------------------------------------------------------------------------
(* Axes *)

\* The locator of these ticks is Matplotlib's own and follows the limits.
IsDefaultLocator(ticks) == ticks.at = <<"auto">>

\* What an axes shows of every unit.
ReadSnapshot(a) ==
  [u \in Units |->
     CASE u = "ticks" /\ IsDefaultLocator(a.ticks) -> <<a.ticks, a.limits>>
       [] u = "ticks" /\ ~IsDefaultLocator(a.ticks) -> <<a.ticks, <<>>>>
       [] u = "limits" -> <<a.limits>>
       [] OTHER -> <<a[u]>>]

\* An axes as Figure.add_subplot makes it.
FreshAxes ==
  [limits |-> <<"fresh", 0, FALSE>>, auto |-> TRUE,
   ticks |-> [at |-> <<"auto">>, text |-> "auto", hidden |-> FALSE],
   tick_style |-> "fresh", label |-> "", scale |-> "fresh", frame |-> "fresh",
   legend |-> "none", axis_visibility |-> TRUE, aspect |-> "fresh", drawn |-> <<>>]

-----------------------------------------------------------------------------
(* Ownership *)

\* Limits are taken for the caller's when autoscaling is off, ticks when their
\* locator is not a default one, any other unit when it differs from a fresh axes.
LooksSet(a, u) ==
  CASE u = "limits" -> ~a.auto
    [] u = "ticks" -> ~IsDefaultLocator(a.ticks)
    [] OTHER -> ReadSnapshot(a)[u] # ReadSnapshot(FreshAxes)[u]

InitializeFromAx(units, a) ==
  [u \in Units |->
     IF units[u].ownership = "unclaimed" /\ LooksSet(a, u)
     THEN [ownership |-> "external", last_applied |-> ReadSnapshot(a)[u]]
     ELSE units[u]]

\* The history of an axes ends; what the plot's own settings claimed stays claimed.
ResetHistory(units) ==
  [u \in Units |->
     [ownership |-> IF units[u].ownership \in {"external", "gerrytools_default"}
                    THEN "unclaimed" ELSE units[u].ownership,
      last_applied |-> NoLastApplied]]

\* Mistake: an axes the plot returns to has the claims it had when it was left.
RestoreAxesWithoutClaims(units, remembered) ==
  IF remembered = <<>> THEN ResetHistory(units) ELSE remembered[1]

\* The history a plot keeps for an axes returns with it; explicit claims come along.
RestoreAxes(units, remembered) ==
  [u \in Units |->
     IF units[u].ownership = "gerrytools_explicit"
     THEN [ownership |-> "gerrytools_explicit", last_applied |-> NoLastApplied]
     ELSE IF remembered = <<>> THEN ResetHistory(units)[u] ELSE remembered[1][u]]

\* Mistake: an explicit claim never yields.
IsChangedDefault(state, shown) ==
  state.ownership = "gerrytools_default" /\ state.last_applied \notin {NoLastApplied, shown}

IsChanged(state, shown) ==
  /\ state.ownership \in {"gerrytools_explicit", "gerrytools_default"}
  /\ state.last_applied # NoLastApplied
  /\ state.last_applied # shown

\* Units that no longer show what was recorded yield to the caller.
DetectExternalChanges(units, snapshot) ==
  [u \in Units |->
     IF IsChanged(units[u], snapshot[u])
     THEN [ownership |-> "external", last_applied |-> snapshot[u]]
     ELSE units[u]]

External(units) == {u \in Units : units[u].ownership = "external"}

IsReclaimed(units, u) == units[u].ownership = "gerrytools_explicit"

ReclaimAndMark(units, u, value) ==
  [units EXCEPT ![u] = [ownership |-> "gerrytools_explicit", last_applied |-> value]]

ReclaimWithoutValue(units, u) == ReclaimAndMark(units, u, NoLastApplied)

\* A default never takes an explicit claim away.
RecordDefault(units, u, value) ==
  [units EXCEPT ![u] =
     [ownership |-> IF @.ownership = "gerrytools_explicit" THEN @.ownership
                    ELSE "gerrytools_default",
      last_applied |-> value]]

\* A claim, the plot's or the caller's, is dropped.
Release(units, u, value) ==
  [units EXCEPT ![u] = [ownership |-> "gerrytools_default", last_applied |-> value]]

Recorded(units, u, value) ==
  IF IsReclaimed(units, u) THEN ReclaimAndMark(units, u, value) ELSE RecordDefault(units, u, value)

-----------------------------------------------------------------------------

CONSTANTS
  Kinds,              \* of {"histogram", "categorical", "geometry"}
  CallerPanels,       \* the axes of the caller's figure
  OwnPanels,          \* the axes on a figure of the plot's: "main", "panel", "nested"
  AutoTicks,          \* the number of ticks of a default locator
  CategoryTicks,      \* the number of categories of a categorical plot
  TickCounts,         \* the numbers of tick locations and labels asked for; the last is wide
  Groups,             \* bound on the units that calls are about together: those of one group
  MaxSettings,        \* bound on the calls of setters
  MaxDirect,          \* bound on the direct changes
  MaxBinds            \* bound on the rebinds

CallersFigure == 0
Figures == 1..(MaxBinds + 1)
Axes == ({CallersFigure} \X CallerPanels) \cup (Figures \X OwnPanels)

ASSUME AxesAssumption ==
  /\ Kinds \subseteq {"histogram", "categorical", "geometry"}
  /\ "main" \in OwnPanels
  /\ {AutoTicks, CategoryTicks} \cup TickCounts \subseteq Nat
  /\ Groups \subseteq SUBSET Units
  /\ {MaxSettings, MaxDirect, MaxBinds} \subseteq Nat

VARIABLES
  axes,               \* what every axes shows, and the renderings of the plot on it
  plot,               \* what the plot was asked for
  managed,            \* _axes_state, and whether the last tick apply hid the labels
  registry,           \* _artists and _artist_histories: the renderings tracked
  figure,             \* the figure bound, who owns it, and the figures pyplot holds
  needs_update,       \* _axis_needs_update
  ghost,              \* the claims of the plot and of the caller
  calls               \* how often settings, direct changes and rebinds were made

vars == <<axes, plot, managed, registry, figure, needs_update, ghost, calls>>

None == -1
NoStyle == "none"
Unset == "UNSET"

NoPlot ==
  [kind |-> "none", limits |-> None, ticks |-> None, labels |-> None, style |-> NoStyle,
   text |-> Unset, text_style |-> FALSE, frame |-> "fresh", legend |-> FALSE,
   show_axis |-> FALSE, far_lines |-> FALSE, data |-> 0]

NothingManaged == [units |-> Unclaimed, histories |-> [x \in Axes |-> <<>>], hid |-> FALSE]
NothingTracked == [tracked |-> FALSE, histories |-> {}]
\* What a rebuild leaves of the units that the ghost compares with later.
Seen(a) == [limits |-> a.limits, axis_visibility |-> a.axis_visibility]

NoClaims ==
  [wants |-> {}, excused |-> {}, pending |-> [x \in Axes |-> {}], built |-> FALSE,
   callers |-> [x \in Axes |-> {}], seen |-> [x \in Axes |-> Seen(FreshAxes)]]

Init ==
  /\ axes = [x \in Axes |-> FreshAxes]
  /\ plot = NoPlot
  /\ managed = NothingManaged
  /\ registry = NothingTracked
  /\ figure = [bound |-> <<>>, shared |-> TRUE, finalizer |-> 0, open |-> {CallersFigure}, made |-> 0]
  /\ needs_update = FALSE
  /\ ghost = NoClaims
  /\ calls = [units |-> {}, settings |-> 0, direct |-> 0, binds |-> 0]

bound == figure.bound
IsAlive == plot.kind # "none" /\ bound # <<>>
IsData(p) == p.kind \in {"histogram", "categorical"}

-----------------------------------------------------------------------------
(* Matplotlib, as the rebuild uses it *)

Widened(limits) == <<limits[1], limits[2], TRUE>>
Widest == CHOOSE n \in TickCounts : \A m \in TickCounts : m <= n

WithLimits(a, limits) == [a EXCEPT !.limits = limits, !.auto = FALSE]

\* Fixed locations stretch the limits to the ones outside of them.
WithTicks(a, at) ==
  [a EXCEPT !.ticks.at = at,
            !.limits = IF at = <<"plot", Widest>> \/ at[1] = "shown" THEN Widened(@) ELSE @]

NumberOfTicks(at) ==
  CASE at[1] \in {"auto", "shown"} -> AutoTicks
    [] at[1] = "category" -> CategoryTicks
    [] at[1] = "plot" -> at[2]
    [] at[1] = "caller" -> AutoTicks

\* Drawing what the plot holds autoscales the limits.
WithArtists(a, p) ==
  [a EXCEPT !.drawn = Append(@, p.data),
            !.limits = IF a.auto THEN <<"data", p.data, FALSE>> ELSE @,
            !.aspect = IF p.kind = "geometry" THEN "equal" ELSE @]

\* Lines outside of the data stretch limits that autoscale.
WithAnnotations(a, p) ==
  [a EXCEPT !.limits = IF p.far_lines /\ a.auto THEN Widened(@) ELSE @]

-----------------------------------------------------------------------------
(* A rebuild: work is the axes, the ownership and the hidden flag so far *)

Reconcile(work, u, external, applied) ==
  IF u \in external THEN work
  ELSE [work EXCEPT !.a = applied, !.units = Recorded(@, u, ReadSnapshot(applied)[u])]

RestoreAutoscaleProtected(work, before, external) ==
  IF "limits" \in external THEN [work EXCEPT !.a = WithLimits(@, before["limits"][1])] ELSE work

LimitsAsked(p) == <<"plot", p.limits, FALSE>>

ApplyLimits(work, p, external) ==
  Reconcile(work, "limits", external,
            IF p.limits # None THEN WithLimits(work.a, LimitsAsked(p)) ELSE work.a)

TextAsked(p) ==
  CASE p.text = "" -> ""
    [] p.text # "" /\ p.text_style -> "styled"
    [] OTHER -> p.text

ApplyText(work, p, external) ==
  IF p.text = Unset THEN work
  ELSE Reconcile(work, "label", external, [work.a EXCEPT !.label = TextAsked(p)])

ApplyFrameVisibility(work, p, external) ==
  Reconcile(work, "frame", external, [work.a EXCEPT !.frame = p.frame])

\* Scale and aspect of a data plot are only recorded.
ApplyRecorded(work, u, external) == Reconcile(work, u, external, work.a)

\* A legend the plot never placed is replaced only under an explicit claim.
ApplyLegend(work, p, external) ==
  LET reclaimed == IsReclaimed(work.units, "legend")
      record(a) == [work EXCEPT !.a = a, !.units = Recorded(@, "legend", <<a.legend>>)]
      removed == [work.a EXCEPT !.legend = "none"]
  IN  IF "legend" \in external \/ (work.a.legend = "caller" /\ ~(reclaimed /\ p.legend /\ p.data > 0))
      THEN work
      ELSE IF p.legend /\ p.data > 0 THEN record([work.a EXCEPT !.legend = "plot"])
      ELSE IF reclaimed THEN record(removed) ELSE [work EXCEPT !.a = removed]

\* Asked-for locations, else the categories, else Matplotlib's own.
TickLocations(p) ==
  CASE p.ticks # None -> <<"plot", p.ticks>>
    [] p.ticks = None /\ p.kind = "categorical" -> <<"category">>
    [] OTHER -> <<"auto">>

\* Hiding is a switch of the axes that lasts; the flag tells whose hide it was.
ApplyTicksNow(work, p) ==
  LET at == TickLocations(p)
      placed == IF at = <<"auto">> THEN work.a ELSE WithTicks(work.a, at)
      visible == [placed EXCEPT !.ticks.hidden = IF work.hid THEN FALSE ELSE @]
      fixed == IF at # <<"auto">> THEN visible
               ELSE WithTicks(visible, IF IsDefaultLocator(visible.ticks)
                                       THEN <<"shown", visible.limits>> ELSE visible.ticks.at)
  IN  IF p.labels = 0 /\ at # <<"plot", 0>>
      THEN [work EXCEPT !.a = [placed EXCEPT !.ticks.hidden = TRUE], !.hid = TRUE]
      ELSE IF p.labels = None
      THEN [work EXCEPT !.hid = FALSE,
                        !.a = IF p.kind = "categorical"
                              THEN [visible EXCEPT !.ticks.text = "category"] ELSE visible]
      ELSE IF p.labels # NumberOfTicks(fixed.ticks.at)
      THEN [work EXCEPT !.hid = FALSE, !.a = fixed, !.failed = TRUE]
      ELSE [work EXCEPT !.hid = FALSE,
                        !.a = [fixed EXCEPT !.ticks.text = IF p.labels = 0 THEN "blank" ELSE "plot"]]

RecordTicks(work, external) ==
  IF work.failed THEN work ELSE Reconcile(work, "ticks", external, work.a)

ApplyTicks(work, p, external) ==
  IF "ticks" \in external THEN work ELSE RecordTicks(ApplyTicksNow(work, p), external)

ApplyTickStyle(work, p, external) ==
  IF p.style = NoStyle THEN work
  ELSE Reconcile(work, "tick_style", external, [work.a EXCEPT !.tick_style = p.style])

\* What the registry tracks is this plot's latest rendering on the axes.
RemoveAll(work) ==
  IF work.tracked THEN [work EXCEPT !.a.drawn = Front(@), !.tracked = FALSE] ELSE work

\* The snapshot is taken before this plot's artists are removed.
BeginRebuild(work) ==
  RemoveAll([work EXCEPT !.units = DetectExternalChanges(@, ReadSnapshot(work.a))])

\* Mistake: what is drawn is not handed to the registry.
DrawnUntracked(work, p) == [work EXCEPT !.a = WithArtists(@, p)]

Drawn(work, p) == [work EXCEPT !.a = WithArtists(@, p), !.tracked = TRUE]

\* The rebuild of a plot of data, up to its legend.
Laid(work, p, before, external) ==
  LET limited == ApplyLimits(RestoreAutoscaleProtected(Drawn(work, p), before, external), p, external)
      labelled == ApplyText(ApplyFrameVisibility(limited, p, external), p, external)
      scaled == ApplyRecorded(ApplyRecorded(labelled, "scale", external), "aspect", external)
  IN  ApplyLegend(scaled, p, external)

Annotated(work, p) == [work EXCEPT !.a = WithAnnotations(@, p)]

\* Ticks are applied after the legend, and again with the limits after the annotations,
\* so that what is recorded is what is left on the axes.
Finished(ticked, p, before, external) ==
  LET styled == ApplyTickStyle(ticked, p, external)
      again == ApplyTicks(Annotated(styled, p), p, external)
      protected == RestoreAutoscaleProtected(again, before, external)
  IN  IF ticked.failed THEN ticked
      ELSE ApplyTickStyle(ApplyLimits(protected, p, external), p, external)

RebuiltData(begun, p, before, external) ==
  IF p.data = 0 THEN [begun EXCEPT !.failed = TRUE]
  ELSE Finished(ApplyTicks(Laid(begun, p, before, external), p, external), p, before, external)

\* The rebuild of a map: drawing it changes the aspect, which the caller may have set.
RebuiltGeometry(begun, p, before, external) ==
  LET titled == ApplyText(RestoreAutoscaleProtected(Drawn(begun, p), before, external), p, external)
      Visible(work) == Reconcile(work, "axis_visibility", external,
                                 [work.a EXCEPT !.axis_visibility = p.show_axis])
      Shaped(work) == IF "aspect" \in external
                      THEN [work EXCEPT !.a.aspect = before["aspect"][1]]
                      ELSE [work EXCEPT !.units = RecordDefault(@, "aspect", <<work.a.aspect>>)]
  IN  ApplyLimits(Shaped(Visible(titled)), p, external)

Rebuilt(begun, p, before) ==
  IF IsData(p) THEN RebuiltData(begun, p, before, External(begun.units))
  ELSE RebuiltGeometry(begun, p, before, External(begun.units))

Rebuild(work, p) == Rebuilt(BeginRebuild(work), p, ReadSnapshot(work.a))

-----------------------------------------------------------------------------
(* Showing the plot, and binding it to axes *)

\* Ticks of a default locator move with the limits, whoever sets these, and are then taken
\* for the caller's.
Moved(x, g) ==
  IF IsDefaultLocator(axes[x].ticks) /\ axes[x].limits # g.seen[x].limits /\ "ticks" \notin g.pending[x]
  THEN {"ticks"} ELSE {}

\* A rebuild that fails leaves what it did, and the plot still to be updated.  The caller
\* keeps what it changed since the plot recorded it; a claim of the plot's yields to that.
\* A claim is pending until the rebuild records what it has applied.
AfterUpdate(rebound, x, g) ==
  \E done \in {Rebuild(rebound.work, plot)} :
      /\ axes' = [rebound.axes EXCEPT ![x] = done.a]
      /\ managed' = [units |-> done.units, hid |-> done.hid, histories |-> rebound.histories]
      /\ registry' = [tracked |-> done.tracked, histories |-> rebound.kept]
      /\ needs_update' = done.failed
      /\ ghost' = [g EXCEPT !.wants = @ \ (g.callers[x] \cup Moved(x, g)),
                            !.excused = IF done.failed /\ plot.data > 0 THEN {"limits"} ELSE @,
                            !.built = @ \/ ~done.failed,
                            !.seen[x] = IF done.failed THEN @ ELSE Seen(done.a),
                            !.pending[x] = {u \in @ : done.units[u].last_applied = NoLastApplied}]

Work(x, units, tracked) ==
  [a |-> axes[x], units |-> units, hid |-> managed.hid, tracked |-> tracked, failed |-> FALSE]

Current == [work |-> Work(bound, managed.units, registry.tracked),
            axes |-> axes, histories |-> managed.histories, kept |-> registry.histories]

\* ACTION ax, show, save: the plot is rebuilt if it has changed
UpdateAxis ==
  /\ IsAlive
  /\ needs_update
  /\ AfterUpdate(Current, bound, ghost)
  /\ UNCHANGED <<plot, figure, calls>>

FigureOf(x) == x[1]

\* ax.figure: the axes of a subfigure do not name the figure that holds it.
DirectFigure(x) == IF x[2] = "nested" THEN CallersFigure - 1 ELSE x[1]

IsOwned(f) == f.bound # <<>> /\ ~f.shared

Leaves(f, x) == IsOwned(f) /\ (x = <<>> \/ DirectFigure(x) # FigureOf(f.bound))

\* An owned figure is closed when it is left; a figure that is given is not owned.
AttachAxes(f, x) ==
  LET left == IF Leaves(f, x) THEN [f EXCEPT !.open = @ \ {FigureOf(f.bound)}, !.finalizer = 0] ELSE f
  IN  IF x = <<>>
      THEN [bound |-> <<f.made + 1, "main">>, shared |-> FALSE, finalizer |-> f.made + 1,
            open |-> left.open \cup {f.made + 1}, made |-> f.made + 1]
      ELSE IF IsOwned(f) /\ FigureOf(x) = FigureOf(f.bound) THEN [left EXCEPT !.bound = x]
      ELSE [left EXCEPT !.bound = x, !.shared = TRUE, !.finalizer = 0]

\* ACTION the constructor, on an axes or on a figure of its own
Construct ==
  \E kind \in Kinds, x \in {<<>>} \cup ({CallersFigure} \X CallerPanels) :
    /\ plot.kind = "none"
    /\ figure.made = 0
    /\ kind = "geometry" => x = <<>>
    /\ plot' = [plot EXCEPT !.kind = kind, !.data = IF kind = "geometry" THEN 1 ELSE 0]
    /\ figure' = AttachAxes(figure, x)
    /\ managed' = [managed EXCEPT !.units = InitializeFromAx(@, axes[figure'.bound])]
    /\ needs_update' = TRUE
    /\ UNCHANGED <<axes, registry, ghost, calls>>

\* ACTION the plot is collected, and its finalizer closes the figure it owns
Collect ==
  /\ IsAlive
  /\ figure' = [figure EXCEPT !.open = @ \ ({figure.finalizer} \ {CallersFigure}),
                             !.bound = <<>>, !.shared = TRUE, !.finalizer = 0, !.made = MaxBinds + 1]
  /\ plot' = NoPlot
  /\ managed' = NothingManaged
  /\ registry' = NothingTracked
  /\ needs_update' = FALSE
  /\ ghost' = NoClaims
  /\ UNCHANGED <<axes, calls>>

\* A closed figure is not bound again here, and what was known of its axes is dropped.
Forgotten(after, known, unknown) ==
  [x \in Axes |-> IF FigureOf(x) \in figure.open \ after.open THEN unknown ELSE known[x]]

\* Leaving an axes keeps its history; returning to it restores the history, and replaces
\* what the plot drew there.
Rebound(x) ==
  LET after == AttachAxes(figure, x)
      histories == [managed.histories EXCEPT ![bound] = <<managed.units>>]
      restored == RestoreAxes(managed.units, histories[x])
      keeps == figure.shared \/ DirectFigure(x) = FigureOf(bound)
      kept == IF keeps /\ registry.tracked THEN registry.histories \cup {bound} ELSE registry.histories
  IN  [work |-> RemoveAll(Work(x, InitializeFromAx(restored, axes[x]), x \in kept)),
       axes |-> Forgotten(after, axes, FreshAxes),
       histories |-> Forgotten(after, histories, <<>>),
       kept |-> kept \ {x}]

\* The plot's claims come along to an axes, where nothing of them is recorded yet.
Carried(x) ==
  LET after == AttachAxes(figure, x)
      wants == ghost.wants \cup ghost.pending[x]
      callers == Forgotten(after, ghost.callers, {})
  IN  [ghost EXCEPT !.wants = wants, !.built = FALSE,
                    !.pending = [Forgotten(after, @, {}) EXCEPT ![x] = wants],
                    !.callers = [callers EXCEPT ![x] = @ \ wants],
                    !.seen = Forgotten(after, @, Seen(FreshAxes))]

\* ACTION bind_to_ax(ax), for an axes of a figure that is open: the plot is rebuilt there
BindToAx ==
  \E x \in Axes :
    /\ IsAlive
    /\ calls.binds < MaxBinds
    /\ FigureOf(x) \in figure.open
    /\ figure' = AttachAxes(figure, x)
    /\ calls' = [calls EXCEPT !.binds = @ + 1]
    /\ IF x = bound
       THEN AfterUpdate([Current EXCEPT !.work = RemoveAll(@)], x, ghost)
       ELSE AfterUpdate(Rebound(x), x, Carried(x))
    /\ UNCHANGED plot

\* ACTION bind_to_ax(None): a fresh figure, drawn on when the plot is next shown
Unbind ==
  LET fresh == AttachAxes(figure, <<>>)
      rebound == Rebound(fresh.bound)
  IN  /\ IsAlive
      /\ calls.binds < MaxBinds
      /\ figure' = fresh
      /\ axes' = rebound.axes
      /\ managed' = [units |-> rebound.work.units, hid |-> managed.hid, histories |-> rebound.histories]
      /\ registry' = [tracked |-> FALSE, histories |-> rebound.kept]
      /\ needs_update' = TRUE
      /\ ghost' = Carried(fresh.bound)
      /\ calls' = [calls EXCEPT !.binds = @ + 1]
      /\ UNCHANGED plot

-----------------------------------------------------------------------------
(* What the plot is asked for *)

\* A change that the caller makes to a unit stands against the setting the plot was asked for
\* before.  One made while the plot's claim waits to be applied does not, nor one of a unit
\* the plot has never recorded.
IsTaken(x, u) == u \notin ghost.pending[x] /\ (x # bound \/ ghost.built \/ u \in ghost.wants)

\* The caller switches the axis back to how the last rebuild has left it.
IsTakenBack(x, u) ==
  u = "axis_visibility" /\ axes[x].axis_visibility # ghost.seen[x].axis_visibility

\* A setter puts the plot in want of an update, and claims a unit: now, with the value
\* the axes shows, or for the rebuild that is to come.
Claims(u, settings, a, now) ==
  /\ IsAlive
  /\ calls.settings < MaxSettings
  /\ \E group \in Groups : calls.units \cup {u} \subseteq group
  /\ plot' = settings
  /\ axes' = [axes EXCEPT ![bound] = a]
  /\ managed' = [managed EXCEPT !.units = IF now THEN ReclaimAndMark(@, u, ReadSnapshot(a)[u])
                                         ELSE ReclaimWithoutValue(@, u)]
  /\ needs_update' = TRUE
  /\ ghost' = [ghost EXCEPT !.wants = @ \cup {u},
                            !.pending[bound] = IF now THEN @ \ {u} ELSE @ \cup {u},
                            !.callers[bound] = @ \ {u},
                            !.seen[bound].axis_visibility = IF u = "axis_visibility"
                                                            THEN a.axis_visibility ELSE @]
  /\ calls' = [calls EXCEPT !.settings = @ + 1, !.units = @ \cup {u}]
  /\ UNCHANGED <<registry, figure>>

Here == axes[bound]

\* ACTION set_xlim, set_ylim
SetLim ==
  LET settings == [plot EXCEPT !.limits = 1]
  IN  Claims("limits", settings, WithLimits(Here, LimitsAsked(settings)), TRUE)

\* A side that is not given keeps its value; what is given must have as many entries.
ResolveTickLabelUpdate(p, locations, labels) ==
  LET kept == IF p.ticks = 0 /\ p.labels = 0 THEN None ELSE p.labels
  IN  CASE locations # None /\ labels # None -> [ticks |-> locations, labels |-> labels]
        [] locations = 0 /\ labels = None -> [ticks |-> 0, labels |-> 0]
        [] locations \notin {None, 0} /\ labels = None -> [ticks |-> locations, labels |-> kept]
        [] OTHER -> [ticks |-> p.ticks, labels |-> labels]

\* ACTION set_xticks, set_yticks; lengths that disagree are refused (Refuse)
SetTicks ==
  \E locations, labels \in TickCounts \cup {None} :
    LET resolved == ResolveTickLabelUpdate(plot, locations, labels)
    IN  /\ IsData(plot)
        /\ <<locations, labels>> # <<None, None>>
        /\ resolved.ticks # None /\ resolved.labels \notin {None, 0} => resolved.ticks = resolved.labels
        /\ Claims("ticks", [plot EXCEPT !.ticks = resolved.ticks, !.labels = resolved.labels],
                  Here, FALSE)

\* ACTION set_tick_style
SetTickStyle ==
  /\ IsData(plot)
  /\ Claims("tick_style", [plot EXCEPT !.style = "plot"], Here, FALSE)

\* ACTION title, xlabel and ylabel are assigned; None clears them
SetText ==
  \E text \in {"", "plot"} :
    LET settings == [plot EXCEPT !.text = text]
    IN  Claims("label", settings, [Here EXCEPT !.label = TextAsked(settings)], TRUE)

\* ACTION set_title_style, set_axis_label_style and their clear calls
SetTextStyle ==
  \E styled \in BOOLEAN :
    LET settings == [plot EXCEPT !.text_style = styled]
    IN  IF plot.text \notin {Unset, ""}
        THEN Claims("label", settings, [Here EXCEPT !.label = TextAsked(settings)], TRUE)
        ELSE styled /\ Claims("label", settings, Here, FALSE)

\* ACTION set_frame_visibility
SetFrameVisibility ==
  \E frame \in {"fresh", "plot"} :
    /\ IsData(plot)
    /\ Claims("frame", [plot EXCEPT !.frame = frame], [Here EXCEPT !.frame = frame], TRUE)

\* ACTION legend is assigned
SetLegend ==
  \E legend \in BOOLEAN :
    /\ IsData(plot)
    /\ Claims("legend", [plot EXCEPT !.legend = legend], Here, FALSE)

\* ACTION show_axis is assigned
SetShowAxis ==
  \E show_axis \in BOOLEAN :
    /\ plot.kind = "geometry"
    /\ Claims("axis_visibility", [plot EXCEPT !.show_axis = show_axis],
              [Here EXCEPT !.axis_visibility = show_axis], TRUE)

\* A call that claims no unit, or releases one.  The first data is not counted.
Adds(settings, a, units, released) ==
  /\ IsAlive
  /\ calls.settings < MaxSettings \/ plot.data = 0
  /\ plot' = settings
  /\ axes' = [axes EXCEPT ![bound] = a]
  /\ managed' = [managed EXCEPT !.units = units]
  /\ needs_update' = TRUE
  /\ ghost' = [ghost EXCEPT !.wants = @ \ released, !.callers[bound] = @ \ released,
                            !.pending[bound] = @ \ released]
  /\ calls' = [calls EXCEPT !.settings = IF plot.data = 0 THEN @ ELSE @ + 1]
  /\ UNCHANGED <<registry, figure>>

\* ACTION a dataset, a layer or a line is added without a name; with one it claims the legend
AddUnnamed ==
  \E settings \in {[plot EXCEPT !.data = @ + 1], [plot EXCEPT !.far_lines = TRUE]} \ {plot} :
    Adds(settings, Here, managed.units, {})

AddNamed ==
  /\ IsData(plot)
  /\ Claims("legend", [plot EXCEPT !.data = @ + 1], Here, FALSE)

Released(a) == Release(managed.units, "limits", ReadSnapshot(a)["limits"])

\* ACTION clear_limits: the limits autoscale again, whoever set them
ClearLimits ==
  LET shown == IF Here.drawn = <<>> THEN 0 ELSE Here.drawn[Len(Here.drawn)]
      a == [Here EXCEPT !.auto = TRUE, !.limits = <<"data", shown, FALSE>>]
  IN  /\ plot.kind = "geometry"
      /\ Adds([plot EXCEPT !.limits = None], a, Released(a), {"limits"})

\* ACTION target_crs is assigned: limits of the old projection are dropped
SetTargetCRS ==
  LET a == [Here EXCEPT !.auto = TRUE]
  IN  /\ plot.kind = "geometry"
      /\ plot.limits # None
      /\ Adds([plot EXCEPT !.limits = None], a, Released(a), {"limits"})

\* ACTION a call of a setter that is refused, or that has nothing to set: it has put the plot
\* in want of an update by then.
Refuse ==
  /\ IsAlive
  /\ ~needs_update
  /\ calls.settings < MaxSettings
  /\ needs_update' = TRUE
  /\ calls' = [calls EXCEPT !.settings = @ + 1]
  /\ UNCHANGED <<axes, plot, managed, registry, figure, ghost>>

-----------------------------------------------------------------------------
(* The caller's own hand on the axes *)

CallersAxes(a, u) ==
  CASE u = "limits" -> WithLimits(a, <<"caller", 0, FALSE>>)
    [] u = "ticks" -> [a EXCEPT !.ticks = [at |-> <<"caller">>, text |-> "caller", hidden |-> FALSE]]
    [] u = "axis_visibility" -> [a EXCEPT !.axis_visibility = ~@]
    [] OTHER -> [a EXCEPT ![u] = "caller"]

\* ACTION the caller sets a unit of an axes through Matplotlib
ChangeDirectly ==
  \E x \in Axes, u \in Units :
    LET a == CallersAxes(axes[x], u)
    IN  /\ plot.kind # "none" \/ figure.made = 0
        /\ calls.direct < MaxDirect
        /\ \E group \in Groups : calls.units \cup {u} \subseteq group
        /\ FigureOf(x) \in figure.open
        /\ a # axes[x]
        /\ axes' = [axes EXCEPT ![x] = a]
        /\ ghost' = [ghost EXCEPT !.callers[x] = IF IsTakenBack(x, u) THEN @ \ {u}
                                                 ELSE IF IsTaken(x, u) THEN @ \cup {u} ELSE @]
        /\ calls' = [calls EXCEPT !.direct = @ + 1, !.units = @ \cup {u}]
        /\ UNCHANGED <<plot, managed, registry, figure, needs_update>>

Setting ==
  \/ SetLim \/ SetTicks \/ SetTickStyle \/ SetText \/ SetTextStyle
  \/ SetFrameVisibility \/ SetLegend \/ SetShowAxis \/ Refuse
  \/ AddUnnamed \/ AddNamed \/ ClearLimits \/ SetTargetCRS

Next ==
  \/ Construct \/ Collect
  \/ UpdateAxis \/ BindToAx \/ Unbind
  \/ Setting
  \/ ChangeDirectly

Spec == Init /\ [][Next]_vars

-----------------------------------------------------------------------------
(* Properties *)

\* The unit of an axes holds what the plot was asked for.
HoldsAsked(a, u) ==
  CASE u = "limits" -> plot.limits # None => a.limits = LimitsAsked(plot)
    [] u = "ticks" -> /\ plot.ticks # None => a.ticks.at = <<"plot", plot.ticks>>
                      /\ plot.labels \notin {None, 0} => a.ticks.text = "plot"
                      /\ plot.labels = 0 => a.ticks.hidden \/ plot.ticks = 0
    [] u = "tick_style" -> plot.style # NoStyle => a.tick_style = plot.style
    [] u = "label" -> plot.text # Unset => a.label = TextAsked(plot)
    [] u = "frame" -> a.frame = plot.frame
    [] u = "legend" -> (a.legend = "plot") <=> (plot.legend /\ plot.data > 0)
    [] u = "axis_visibility" -> a.axis_visibility = plot.show_axis
    [] OTHER -> TRUE

\* Invariant.  A plot that needs no update shows every setting that was made explicitly,
\* on whichever axes it is bound to, unless the caller has changed the unit since; and
\* drawing, annotations, wide ticks and the legend leave none of them altered.  After a
\* rebuild that raised over its ticks nothing is said of the limits: these ticks have
\* stretched them, and limits so stretched pass for the caller's.
ExplicitSettingsHold ==
  IsAlive /\ ~needs_update =>
    \A u \in ghost.wants \ (ghost.callers[bound] \cup ghost.excused) : HoldsAsked(axes[bound], u)

\* What the plot keeps of the units of an axes, and what nothing is kept of.
KeptOf(x) ==
  IF x = bound THEN managed.units
  ELSE IF managed.histories[x] = <<>> THEN Unclaimed ELSE managed.histories[x][1]

\* A unit is the caller's if the plot has yielded it, if the axes shows anything but the
\* value the plot has recorded, or if it was set where the plot has claimed nothing yet.
IsCallers(x, u) ==
  LET kept == KeptOf(x)[u]
  IN  \/ kept.ownership = "external"
      \/ kept.last_applied \notin {NoLastApplied, ReadSnapshot(axes[x])[u]}
      \/ x # bound /\ kept.ownership = "unclaimed" /\ LooksSet(axes[x], u)

\* The plot's claims come along to the axes it is bound to.
ComesAlong(x, u) == x # bound /\ x = bound' /\ managed.units[u].ownership = "gerrytools_explicit"

\* Action property.  What is the caller's on any axes stays the caller's, and is not altered
\* there, when the plot is rebuilt, bound away or bound back, until the plot is asked for the
\* unit again.  This says nothing of a change made while a claim of the plot's waits to be
\* applied, which the code does not notice and overwrites, nor of limits once a rebuild has
\* raised over its ticks (README, Findings).
NoticedChangesSurvive ==
  [][IsAlive /\ UNCHANGED <<plot, calls.settings, calls.direct>> =>
       \A x \in Axes : FigureOf(x) \in figure'.open =>
         \A u \in Units \ ghost'.excused :
           IsCallers(x, u) /\ ~ComesAlong(x, u) =>
             IsCallers(x, u)' /\ axes'[x][u] = axes[x][u]]_vars

\* Invariant.  No axes holds two renderings of the plot, and a plot that needs no update
\* shows the data it holds now.
DrawnOnce ==
  /\ \A x \in Axes : Len(axes[x].drawn) <= 1
  /\ IsAlive /\ ~needs_update => axes[bound].drawn = <<plot.data>>

\* Invariant.  pyplot holds the caller's figure, and of the figures plots have made exactly
\* the one the plot is bound to and owns, which its finalizer will close.
OwnedFiguresAreClosed ==
  /\ figure.open \ {CallersFigure} = IF IsAlive /\ ~figure.shared THEN {FigureOf(bound)} ELSE {}
  /\ CallersFigure \in figure.open
  /\ IsAlive /\ ~figure.shared => figure.finalizer = FigureOf(bound)

\* Invariant.  Whatever axes the plot has left, neither a rendering nor a figure of it stays.
NothingIsLeftBehind == DrawnOnce /\ OwnedFiguresAreClosed

TypeOK ==
  /\ \A u \in Units : managed.units[u].ownership \in Owners
  /\ ghost.wants \subseteq Units /\ needs_update \in BOOLEAN
  /\ figure.open \subseteq {CallersFigure} \cup Figures

=============================================================================
