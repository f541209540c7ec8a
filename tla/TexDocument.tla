---------------------------- MODULE TexDocument ----------------------------
(***************************************************************************)
(* The LaTeX document of a table or a plot: its packages, commands, colors *)
(* and body, and the files it is compiled and saved to                     *)
(* (gerrytools/latex: document.py, _render.py, _colors.py, formatters.py,  *)
(* commands.py).                                                           *)
(*                                                                         *)
(* A document is a record.  A body or a command is known by the macros in  *)
(* it: those the document's scan finds, and the column types of a table;   *)
(* a body also by whether it draws at positions that a pass has left.      *)
(* The order among packages matters only around xcolor, and packages are   *)
(* sets; commands are counted, for a second definition of one is an error. *)
(*                                                                         *)
(* The builder that owns the document renders the body each time it is     *)
(* asked for the document; a handle on the document that is kept has the   *)
(* body of that time.  user counts the commands that were added to the     *)
(* document directly, which no code keeps.                                 *)
(***************************************************************************)
EXTENDS Integers, FiniteSets, Sequences

CONSTANTS
  Packages,           \* the package names
  Commands,           \* the LaTeX commands
  MacrosOf,           \* by command: the macros in it
  ColorNames,         \* the names of colors of the document
  Engines,            \* the TeX engines installed
  PassOutcomes,       \* what a pass of an engine that does not compile may come to
  Renderers,          \* the PDF renderers installed
  Colors,             \* the colors that calls give
  Topics,             \* bound on what the calls on one builder are about
  MaxCalls            \* bound on the calls

ASSUME DocumentAssumption ==
  /\ DOMAIN MacrosOf = Commands
  /\ Engines \subseteq {"tectonic", "pdflatex", "xelatex", "lualatex"}
  /\ Renderers \subseteq {"pdftocairo", "pdftoppm", "gs", "magick", "convert"}
  /\ PassOutcomes \subseteq {"failed", "hung"}
  /\ "none" \notin Colors
  /\ MaxCalls \in Nat

VARIABLES
  document,           \* the document of a builder
  disk,               \* its workspace
  saved,              \* what has been saved, by extension, and from what
  user,               \* how often each command was added to the document directly
  called              \* how many calls were made, and about what

NoBody == [macros |-> {}, positioned |-> FALSE, content |-> <<>>]

NewDocument ==
  [body |-> NoBody, package_list |-> {}, optioned |-> {}, command_list |-> [c \in Commands |-> 0],
   color_dict |-> [name \in ColorNames |-> "none"], compile_passes |-> 1]

-----------------------------------------------------------------------------
(* What is asked of a document *)

\* A package that is loaded with options is not listed again.
WithPackages(doc, packages) ==
  [doc EXCEPT !.package_list = @ \cup (packages \ doc.optioned)]

\* Options replace a plain listing, and earlier options.
WithPackageOptions(doc, package) ==
  [doc EXCEPT !.package_list = @ \ {package}, !.optioned = @ \cup {package}]

WithCommand(doc, c) == [doc EXCEPT !.command_list[c] = @ + 1]

HasCommand(doc, c) == doc.command_list[c] > 0

\* How a color is written: an expression of latexcolors names, of which xcolor defines the
\* basic ones, or by its components.  A color that LaTeX cannot represent is refused.
ColorSpec(color) ==
  CASE color \in {"yellow", "white"} -> "base"
    [] color \in {"denim", "alizarin"} -> "named"
    [] color \in {"#RRGGBB", "opaque"} -> "HTML"
    [] color = "fraction" -> "rgb"
    [] color = "bytes" -> "RGB"

Representable == {"yellow", "white", "denim", "alizarin", "#RRGGBB", "opaque", "fraction", "bytes"}

\* The color macro for a color, and whether its name needs latexcolors.
ColorMacros(color) == {"color"} \cup (IF ColorSpec(color) = "named" THEN {"named"} ELSE {})

WithColor(doc, name, color) == [doc EXCEPT !.color_dict[name] = ColorSpec(color)]

-----------------------------------------------------------------------------
(* The preamble *)

DefinedCommands(doc) == {c \in Commands : HasCommand(doc, c)}

CommandMacros(doc) == UNION {MacrosOf[c] : c \in DefinedCommands(doc)}

Haystack(doc) == doc.body.macros \cup CommandMacros(doc)

UsesLatexcolorsName(doc) ==
  "named" \in Haystack(doc) \/ \E name \in ColorNames : doc.color_dict[name] = "named"

HasColors(doc) ==
  \/ Haystack(doc) \cap {"color", "fill"} # {}
  \/ \E name \in ColorNames : doc.color_dict[name] # "none"

\* The macros that imply a package, and the package.
Hints ==
  {<<"booktabs", "booktabs">>, <<"fill", "colortbl">>, <<"fpeval", "xfp">>, <<"num", "siunitx">>,
   <<"includegraphics", "graphicx">>, <<"multirow", "multirow">>, <<">", "array">>}

\* The commands that the scan has no part in are those of formatters and of TikZ's drawings;
\* the macros in them are known to it, or are TikZ's own.
ASSUME CommandAssumption ==
  \A c \in Commands :
    MacrosOf[c] \subseteq {hint[1] : hint \in Hints} \cup {"color", "fill", "named", "tikz"}

ScannedPackages(doc) ==
  {hint[2] : hint \in {h \in Hints : h[1] \in Haystack(doc)}}
  \cup IF UsesLatexcolorsName(doc) THEN {"latexcolors"}
       ELSE IF HasColors(doc) THEN {"xcolor"} ELSE {}

\* Mistake: the options of a package are forgotten.
ResolvedWithOptioned(doc) ==
  LET wanted == doc.package_list \cup ScannedPackages(doc)
  IN  IF "latexcolors" \in wanted THEN wanted \ {"xcolor"} ELSE wanted

ResolvedPackages(doc) ==
  LET wanted == (doc.package_list \cup ScannedPackages(doc)) \ doc.optioned
  IN  IF "latexcolors" \in wanted THEN wanted \ {"xcolor"} ELSE wanted

\* The packages as they are loaded: xcolor with its options comes first, for latexcolors and
\* colortbl load it themselves; other packages with options come last.
Preamble(doc) ==
  <<doc.optioned \cap {"xcolor"}, ResolvedPackages(doc), doc.optioned \ {"xcolor"}>>

\* What a package makes available, itself included.
Provided(package) ==
  {package} \cup CASE package \in {"latexcolors", "tikz"} -> {"xcolor"}
                   [] package \in {"colortbl", "nicematrix"} -> {"array", "xcolor"}
                   [] OTHER -> {}

\* The packages that macros and column types are from.
Needs ==
  Hints \cup {<<"S", "siunitx">>, <<"D", "dcolumn">>, <<"m", "array">>, <<"b", "array">>,
              <<"<", "array">>, <<"!", "array">>, <<"color", "xcolor">>, <<"fill", "xcolor">>,
              <<"named", "latexcolors">>, <<"NiceTabular", "nicematrix">>, <<"tikz", "tikz">>}

Needed(doc) ==
  {need[2] : need \in {n \in Needs : n[1] \in Haystack(doc)}}
  \cup (IF \E name \in ColorNames : doc.color_dict[name] # "none" THEN {"xcolor"} ELSE {})
  \cup (IF \E name \in ColorNames : doc.color_dict[name] = "named" THEN {"latexcolors"} ELSE {})

Loaded(doc) == UNION {Preamble(doc)[i] : i \in 1..3}

\* A document that LaTeX can make sense of: what it uses is loaded, nothing is loaded a
\* second time, and xcolor gets its options before another package loads it.
IsLoadable(doc) ==
  LET stage == Preamble(doc)
  IN  /\ \A package \in Needed(doc) : \E p \in Loaded(doc) : package \in Provided(p)
      /\ \A i, j \in 1..3 : i # j => stage[i] \cap stage[j] = {}
      /\ "xcolor" \in doc.optioned =>
           \A i, j \in 1..3 : "xcolor" \in stage[j] /\ i < j =>
             \A p \in stage[i] : "xcolor" \notin Provided(p)

-----------------------------------------------------------------------------
(* The files of a document *)

NoFile == <<>>

\* The workspace is made when it is first needed.
NewWorkspace == [workdir |-> FALSE, aux |-> NoFile, pdf |-> NoFile, png |-> NoFile]

\* The first engine of the order that is installed.
EngineOrder == <<"tectonic", "pdflatex", "xelatex", "lualatex">>
ChosenEngine ==
  LET found == {i \in 1..4 : EngineOrder[i] \in Engines}
  IN  IF found = {} THEN "none" ELSE EngineOrder[CHOOSE i \in found : \A j \in found : i <= j]

\* Mistake: every document is compiled once.
OnePassOf(doc) == 1

\* tectonic reruns itself until it is stable.
PassesOf(doc) ==
  IF ChosenEngine = "tectonic" \/ doc.compile_passes < 1 THEN 1 ELSE doc.compile_passes

\* A file shows a source; what nicematrix draws at positions is right once the positions
\* come from a pass over the same source.
Typeset(doc, aux) ==
  [source |-> doc, settled |-> ChosenEngine = "tectonic" \/ ~doc.body.positioned
                                    \/ aux = <<doc>>]

\* A run of passes: how many have compiled, and how the next has ended unless that is all.
\* Each pass has the positions of the one before.
PassRuns(doc) ==
  {[compiled |-> n, ended |-> outcome] : n \in 0..(PassesOf(doc) - 1), outcome \in PassOutcomes}
  \cup {[compiled |-> PassesOf(doc), ended |-> "compiled"]}

HasCompiled(run, doc) == run.compiled = PassesOf(doc)

AfterCompiled(files, doc, n) ==
  IF n = 0 THEN files
  ELSE [files EXCEPT !.pdf = <<Typeset(doc, IF n = 1 THEN files.aux ELSE <<doc>>)>>, !.aux = <<doc>>]

\* A pass that fails may leave neither positions nor a PDF; one that hangs, or fails late, is
\* given up and leaves what was there.
AfterPasses(files, doc, run) ==
  LET compiled == AfterCompiled([files EXCEPT !.workdir = TRUE], doc, run.compiled)
  IN  IF run.ended = "failed" THEN [compiled EXCEPT !.pdf = NoFile, !.aux = NoFile] ELSE compiled

\* The first page of the PDF, if a renderer is installed and does not fail.
AfterRender(files) == [files EXCEPT !.png = files.pdf]

-----------------------------------------------------------------------------
(* Calls; rendered holds the body that the builder renders now, if it does not raise *)

Calls(topic) ==
  /\ called.made < MaxCalls
  /\ \E topics \in Topics : called.topics \cup {topic} \subseteq topics
  /\ called' = [made |-> called.made + 1, topics |-> called.topics \cup {topic}]

Handles(rendered) ==
  {[document EXCEPT !.body = body] : body \in rendered}
  \cup IF document.body = NoBody THEN {} ELSE {document}

Documents(doc, added) ==
  /\ Calls("document")
  /\ document' = doc
  /\ user' = added
  /\ UNCHANGED <<disk, saved>>

\* ACTION document, to_tex, preamble
AccessDocument(rendered) ==
  \E body \in rendered : Documents([document EXCEPT !.body = body], user)

\* ACTION add_packages
AddPackages(rendered) ==
  \E handle \in Handles(rendered), package \in Packages :
    Documents(WithPackages(handle, {package}), user)

\* ACTION add_package_with_options
AddPackageWithOptions(rendered) ==
  \E handle \in Handles(rendered), package \in Packages :
    Documents(WithPackageOptions(handle, package), user)

\* ACTION add_command, for a command of packages that the scan knows
AddCommand(rendered) ==
  \E handle \in Handles(rendered), c \in Commands \ {"calc"} :
    Documents(WithCommand(handle, c), [user EXCEPT ![c] = @ + 1])

\* ACTION add_color
AddColor(rendered) ==
  \E handle \in Handles(rendered), name \in ColorNames, color \in Colors :
    /\ color \in Representable
    /\ Documents(WithColor(handle, name, color), user)

\* A save compiles the document in its workspace, and copies the file only when that has
\* succeeded.
Saves(doc, now, extension, file) ==
  /\ Calls("files")
  /\ document' = doc
  /\ disk' = now
  /\ saved' = IF file = NoFile THEN saved
              ELSE [saved EXCEPT ![extension] = <<[file |-> file[1], of |-> doc]>>]
  /\ UNCHANGED user

\* ACTION save_pdf, to a path in a directory that exists
SavePdf(rendered) ==
  \E handle \in Handles(rendered) : \E run \in PassRuns(handle) :
    LET now == AfterPasses(disk, handle, run)
    IN  /\ ChosenEngine # "none"
        /\ Saves(handle, now, "pdf", IF HasCompiled(run, handle) THEN now.pdf ELSE NoFile)

\* ACTION save_png: the render may fail, or no renderer be installed
SavePng(rendered) ==
  \E handle \in Handles(rendered), renders \in BOOLEAN : \E run \in PassRuns(handle) :
    LET compiled == AfterPasses(disk, handle, run)
        now == IF HasCompiled(run, handle) /\ renders THEN AfterRender(compiled) ELSE compiled
    IN  /\ ChosenEngine # "none"
        /\ renders => Renderers # {} /\ HasCompiled(run, handle)
        /\ Saves(handle, now, "png", IF renders THEN now.png ELSE NoFile)

UsesDocument(rendered) ==
  \/ AccessDocument(rendered)
  \/ AddPackages(rendered) \/ AddPackageWithOptions(rendered)
  \/ AddCommand(rendered) \/ AddColor(rendered)
  \/ SavePdf(rendered) \/ SavePng(rendered)

DocumentInit(doc) ==
  /\ document = doc
  /\ disk = NewWorkspace
  /\ saved = [extension \in {"pdf", "png"} |-> NoFile]
  /\ user = [c \in Commands |-> doc.command_list[c]]
  /\ called = [made |-> 0, topics |-> {}]

-----------------------------------------------------------------------------

\* Invariant.  What is saved shows the document as it was at the call, with what is drawn at
\* the positions of that document, and never what an earlier compilation has left.
SavedFilesAreCurrent ==
  \A extension \in DOMAIN saved :
    saved[extension] # NoFile =>
      saved[extension][1].file = [source |-> saved[extension][1].of, settled |-> TRUE]

=============================================================================
