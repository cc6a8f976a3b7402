------------------------------- MODULE Plugins -------------------------------
(***************************************************************************)
(* The conversion plugins: what a file is taken for (mime.detect, by its   *)
(* bytes and its name), which plugin the registry gives it to, and what    *)
(* that plugin makes of it with programs that may be missing, fail, or     *)
(* write nothing.  A plugin is a list of jobs; a job has routes, tried in  *)
(* order until one works; a route is a chain of hops, one call each.       *)
(***************************************************************************)
EXTENDS Naturals, Sequences, FiniteSets

CONSTANTS
    Deployments,  \* sets of programs that a deployment may have on its PATH
    IfcOrders,    \* settings of threed_ifc_backend, as lists of backends
    MaxFiles,     \* files one process converts
    MaxFaults     \* times the disk refuses a temporary directory

(* A setting names one backend at least; "auto" stands for itself.         *)
ASSUME PluginAssumption ==
    \A order \in IfcOrders :
        order = <<"auto">> \/ (order # << >> /\ order \in Seq({"webifc", "ifcopenshell"}))

VARIABLES
    programs,     \* the programs on the PATH (fixed)
    ifcOrder,     \* the setting in force (fixed)
    file,         \* the file being converted
    jobs,         \* what its plugin does, in order
    pc,           \* <<job, route, hop>> of the call to be made
    out,          \* the renditions made so far
    read,         \* the steps of text extraction that yielded something
    holders,      \* directories that `detach` made and that are on the disk
    owned,        \* those of them a rendition will release
    encoders,     \* ffmpeg_encoders: "unknown", or the remembered answer
    well,         \* the calls that served their purpose (history)
    bad,          \* the calls that did not, or could not be made (history)
    clean,        \* none of the calls that were made went wrong (history)
    raised,       \* what an exception put an end to: the rendering, the text (history)
    faults,       \* refusals of the disk so far
    exceptions,   \* renderings that an exception has ended (history)
    taken         \* files taken so far

pluginVars == <<programs, ifcOrder, file, jobs, pc, out, read, holders, owned, encoders,
                well, bad, clean, raised, faults, exceptions, taken>>

-----------------------------------------------------------------------------
(* What a file is taken for.  `bytes` is the verdict of the content and who *)
(* reached it: this service's own sniffing, or libmagic.                   *)

Sniffable == {"pdf", "office", "image", "video", "html", "ifc", "gltf", "step", "zip"}
Guessable == {"text", "json", "code", "html"}
Nothing == [by |-> "nobody", mime |-> "octet"]

Contents == {Nothing} \cup [by : {"sniff"}, mime : Sniffable] \cup [by : {"magic"}, mime : Guessable]

Generic == {"text", "json", "octet"}
Textual == {"text", "json", "code", "html", "markdown"}
Refinable(mime) == mime \in Generic \cup Textual

Names == {"none", "md", "ifc", "mp4", "pdf", "py"}

(* The type the curated maps give a name, or else "none".                  *)
Curated(name) == CASE name = "md" -> "markdown" [] name = "ifc" -> "ifc" [] OTHER -> "none"

ByName(name) ==
    CASE Curated(name) # "none" -> Curated(name)
      [] name = "mp4" -> "video" [] name = "pdf" -> "pdf" [] name = "py" -> "code"
      [] OTHER -> "none"

Refine(mime, name) ==
    IF mime \in Generic
    THEN IF ByName(name) \in {"markdown", "ifc", "code"} THEN ByName(name) ELSE mime
    ELSE IF mime \in Textual /\ Curated(name) # "none" THEN Curated(name) ELSE mime

Detect(bytes, name) ==
    CASE bytes.by = "sniff" -> bytes.mime
      [] bytes.by = "magic" -> Refine(bytes.mime, name)
      [] OTHER -> IF ByName(name) = "none" THEN "octet" ELSE ByName(name)

(* claims of the plugins, in the order of default_registry.                *)
Models == {"ifc", "gltf", "step"}

Claims(plugin, mime, name) ==
    CASE plugin \in {"pdf", "office", "image", "video", "html"} -> mime = plugin
      [] plugin = "model3d" -> mime \in Models
      [] plugin = "markdown" -> mime = "markdown" \/ (name = "md" /\ Refinable(mime))
      [] plugin = "source" -> name # "md" /\ mime \in Textual
      [] plugin = "text" -> mime \in {"text", "json", "html", "markdown"}

Registered == <<"pdf", "office", "image", "video", "model3d", "html", "markdown", "source", "text">>

ForMime(mime, name) ==
    LET claimed == {i \in DOMAIN Registered : Claims(Registered[i], mime, name)}
    IN  IF claimed = {} THEN "nobody"
        ELSE Registered[CHOOSE i \in claimed : \A j \in claimed : i <= j]

BoundsOwnMemory(plugin) == plugin \in {"image", "video", "model3d"}

(* A text of white space is plain text to libmagic, or nothing at all.     *)
Inputs == {f \in [bytes : Contents, name : Names, size : {"some", "over", "huge"},
                   swept : BOOLEAN, blank : BOOLEAN] :
              f.blank => f.bytes \in {Nothing, [by |-> "magic", mime |-> "text"]}}
Taken(f) == Detect(f.bytes, f.name)
PluginOf(f) == ForMime(Taken(f), f.name)

TooLargeUnknown(f) ==   \* mutant: only a type that nobody claims is limited
    /\ f.swept /\ f.size \in {"over", "huge"}
    /\ ForMime(Detect(Nothing, f.name), f.name) = "nobody"

(* A sweep judges a file over its limit by the name alone, before reading. *)
TooLarge(f) ==
    /\ f.swept /\ f.size \in {"over", "huge"}
    /\ ~BoundsOwnMemory(ForMime(Detect(Nothing, f.name), f.name))

-----------------------------------------------------------------------------
(* What the plugins do.  A hop names its program ("here": this process) and *)
(* how the outcome is judged: by the exit status, by what was written, by  *)
(* both; "file": an output that exists is detached and kept as a file.     *)

Hop(program, judge) == [program |-> program, judge |-> judge]
Job(makes, routes) == [makes |-> makes, routes |-> routes]
One(makes, program, judge) == Job(makes, << <<Hop(program, judge)>> >>)

Thumbnail == One("thumbnail", "pdftoppm", "both")
Preview == One("preview", "pdftoppm", "both")
Backends == << <<Hop("here", "written")>>, <<Hop("pdftotext", "both")>> >>
PdfText == Job("text", Backends)
Decoded == One("text", "here", "sure")

IfcRoute(backend) ==
    CASE backend = "webifc" -> <<Hop("convert2xkt", "file")>>
      [] backend = "ifcopenshell" -> <<Hop("ifcConvert", "exit"), Hop("convert2xkt", "file")>>
IfcRoutes(order) == [i \in DOMAIN order |-> IfcRoute(order[i])]

(* The setting "auto" stands for the IFC tools that are installed, and the *)
(* bundled web-ifc last.                                                   *)
IfcOrder(setting, present) ==
    IF setting = <<"auto">>
    THEN IF "ifcConvert" \in present THEN <<"ifcopenshell", "webifc">> ELSE <<"webifc">>
    ELSE setting

ModelText(mime) ==
    IF mime = "ifc" THEN Job("text", << <<Hop("here", "written")>>, <<Hop("here", "written")>> >>)
    ELSE One("text", "here", "written")

Model(mime) ==
    CASE mime = "ifc" -> <<Job("model", IfcRoutes(IfcOrder(ifcOrder, programs))),
                           One("metamodel", "here", "written"), ModelText(mime)>>
      [] mime = "gltf" -> <<One("model", "convert2xkt", "file"), One("metamodel", "here", "raises"),
                            ModelText(mime)>>
      [] mime = "step" -> <<Job("model", << <<Hop("DRAWEXE", "written"), Hop("convert2xkt", "file")>> >>),
                            ModelText(mime)>>

HtmlRoutes == << <<Hop("chromium", "both")>>, <<Hop("soffice", "both")>> >>

JobsOf(plugin, mime) ==
    CASE plugin = "pdf" -> <<Thumbnail, Preview, PdfText>>
      [] plugin = "office" -> <<One("pdf", "soffice", "file"), Thumbnail, Preview,
                                One("textpdf", "soffice", "both"), PdfText>>
      [] plugin = "html" -> <<Job("pdf", HtmlRoutes), Thumbnail, Preview, One("text", "here", "written")>>
      [] plugin = "image" -> <<One("thumbnail", "magick", "both"), One("preview", "magick", "both")>>
      [] plugin = "video" -> <<One("poster", "ffmpeg", "both"), One("clip", "ffmpeg", "both")>>
      [] plugin = "model3d" -> Model(mime)
      [] plugin = "markdown" -> <<Job("pdf", << <<Hop("here", "written")>>, <<Hop("here", "written")>> >>),
                                  Thumbnail, Preview, Decoded>>
      [] plugin = "source" -> <<One("pdf", "here", "sure"), Thumbnail, Preview, Decoded>>
      [] plugin = "text" -> <<Decoded>>

IsText(makes) == makes \in {"textpdf", "text"}

(* Nothing is drawn of a text of white space, and its text is decoded.  Of  *)
(* a model over the plugin's own ceiling only the text is asked for.  A    *)
(* file without bytes has neither renditions nor text, and is left out.    *)
Undrawn(f) == f.blank /\ PluginOf(f) \in {"source", "markdown"}

Kept(f) ==
    IF Undrawn(f) THEN <<Decoded>>
    ELSE IF f.size = "huge" /\ PluginOf(f) = "model3d" THEN <<ModelText(Taken(f))>>
    ELSE JobsOf(PluginOf(f), Taken(f))

(* A job that hangs on another: the images on the PDF, the metamodel on    *)
(* the model.  Text of an office document is its PDF's, or else LibreOffice's own. *)
Needs(list, makes) ==
    {need \in {"pdf", "model"} : /\ \E i \in DOMAIN list : list[i].makes = need
                                 /\ makes # need /\ ~IsText(makes)}

HasPdfText(list) == \E i \in DOMAIN list : list[i].makes = "textpdf"

TextExport == <<Hop("soffice", "both")>>

RoutesOf(list, job, got) ==
    IF job.makes = "text" /\ HasPdfText(list)
    THEN IF "textpdf" \in got THEN Append(job.routes, TextExport) ELSE <<TextExport>>
    ELSE job.routes

Idle == [bytes |-> Nothing, name |-> "none", size |-> "some", swept |-> FALSE, blank |-> FALSE]

PluginInit ==
    /\ programs \in Deployments /\ ifcOrder \in IfcOrders
    /\ file = Idle /\ jobs = << >> /\ pc = <<0, 0, 0>>
    /\ out = {} /\ read = {} /\ holders = 0 /\ owned = 0 /\ encoders = "unknown"
    /\ well = {} /\ bad = {} /\ clean = TRUE /\ raised = {}
    /\ faults = 0 /\ exceptions = 0 /\ taken = 0

Running == pc[1] \in DOMAIN jobs
Done == pc[1] = Len(jobs) + 1 /\ jobs # << >>
Now == jobs[pc[1]]
Routes == RoutesOf(jobs, Now, out \cup read)
Call == Routes[pc[2]][pc[3]]

(* Where the process goes when a job ends: to the first job from number    *)
(* `from` on whose need is met.  Past the last one, the file is done.      *)
Follows(from, got) ==
    LET open == {i \in from..Len(jobs) : Needs(jobs, jobs[i].makes) \subseteq got}
    IN  IF open = {} THEN Len(jobs) + 1 ELSE CHOOSE i \in open : \A k \in open : i <= k

FirstText == LET texts == {i \in DOMAIN jobs : IsText(jobs[i].makes)}
             IN  IF texts = {} THEN Len(jobs) + 1 ELSE CHOOSE i \in texts : \A k \in texts : i <= k

(* The file is read, its plugin found and begun.  A file that no plugin    *)
(* claims is "unsupported" and leaves nothing behind.                      *)
Take(f) ==
    /\ jobs = << >> /\ taken < MaxFiles
    /\ ~TooLarge(f) /\ PluginOf(f) # "nobody"
    /\ file' = f /\ jobs' = Kept(f) /\ pc' = <<1, 1, 1>> /\ taken' = taken + 1
    /\ UNCHANGED <<programs, ifcOrder, out, read, holders, owned, encoders, well, bad, clean,
                   raised, faults, exceptions>>

JobEnds(made) ==
    /\ out' = IF made /\ ~IsText(Now.makes) THEN out \cup {Now.makes} ELSE out
    /\ read' = IF made /\ IsText(Now.makes) THEN read \cup {Now.makes} ELSE read
    /\ pc' = <<Follows(pc[1] + 1, out'), 1, 1>>

RouteFailsAtOnce == bad' = bad \cup {pc} /\ JobEnds(FALSE)   \* mutant: no second route

RouteFails ==
    /\ bad' = bad \cup {pc}
    /\ IF pc[2] < Len(Routes)
       THEN pc' = <<pc[1], pc[2] + 1, 1>> /\ UNCHANGED <<out, read>>
       ELSE JobEnds(FALSE)

(* tools.have: a program that is absent is not called.  A clip also needs  *)
(* an encoder that this process remembers.                                 *)
Encodes == Now.makes = "clip"
Callable == /\ Call.program \in programs \cup {"here"}
            /\ Encodes => encoders = "some"

Absent ==
    /\ Running /\ ~Callable
    /\ Encodes /\ "ffmpeg" \in programs => encoders # "unknown"
    /\ RouteFails
    /\ UNCHANGED <<programs, ifcOrder, file, jobs, holders, owned, encoders, well, clean,
                   raised, faults, exceptions, taken>>

(* The encoders of this build of FFmpeg are asked for once in the life of  *)
(* the process; a call that failed is remembered as a build without any.   *)
Probe ==
    /\ Running /\ Encodes /\ "ffmpeg" \in programs /\ encoders = "unknown"
    /\ \E ran \in BOOLEAN :
          /\ encoders' = IF ran /\ "encoder" \in programs THEN "some" ELSE "none"
          /\ clean' = (clean /\ ran)
    /\ UNCHANGED <<programs, ifcOrder, file, jobs, pc, out, read, holders, owned, well, bad,
                   raised, faults, exceptions, taken>>

(* What a call leaves: its exit status, and its output.                    *)
Outcomes == [exit : BOOLEAN, left : {"nothing", "empty", "output"}]

Serves(judge, o) ==
    CASE judge = "exit" -> o.exit
      [] judge \in {"written", "raises"} -> o.left = "output"
      [] judge = "both" -> o.exit /\ o.left = "output"
      [] judge = "file" -> o.exit /\ o.left # "nothing"
      [] judge = "sure" -> TRUE

Detaches == Call.judge = "file"

Serve ==
    /\ Running /\ Callable
    /\ \E o \in Outcomes :
          /\ Serves(Call.judge, o)
          /\ clean' = (clean /\ (Call.judge = "sure" \/ (o.exit /\ o.left = "output")))
    /\ well' = well \cup {pc}
    /\ holders' = (IF Detaches THEN holders + 1 ELSE holders)
    /\ owned' = (IF Detaches THEN owned + 1 ELSE owned)
    /\ IF pc[3] < Len(Routes[pc[2]])
       THEN pc' = <<pc[1], pc[2], pc[3] + 1>> /\ UNCHANGED <<out, read>>
       ELSE JobEnds(TRUE)
    /\ UNCHANGED <<programs, ifcOrder, file, jobs, encoders, bad, raised, faults, exceptions, taken>>

Fail ==
    /\ Running /\ Callable
    /\ \E o \in Outcomes : ~Serves(Call.judge, o)
    /\ clean' = FALSE
    /\ RouteFails
    /\ UNCHANGED <<programs, ifcOrder, file, jobs, holders, owned, encoders, well, raised,
                   faults, exceptions, taken>>

(* An exception out of the rendering: the registry has no renditions of    *)
(* this file, whatever was made before, and goes on to its text.           *)
Raise ==
    /\ out' = {} /\ owned' = 0 /\ raised' = raised \cup {"render"} /\ clean' = FALSE
    /\ exceptions' = exceptions + 1
    /\ pc' = <<FirstText, 1, 1>>
    /\ UNCHANGED <<programs, ifcOrder, file, jobs, read, holders, encoders, well, bad, taken>>

(* No temporary directory can be made for the call, or for its output.     *)
DiskRefuses ==
    /\ Running /\ Callable /\ Call.program # "here" /\ Now.makes \notin {"preview", "clip"}
    /\ faults < MaxFaults
    /\ faults' = faults + 1
    /\ IF ~IsText(Now.makes)
       THEN Raise
       ELSE /\ clean' = FALSE
            /\ IF Now.makes = "textpdf"
               THEN /\ pc' = <<Len(jobs) + 1, 1, 1>> /\ raised' = raised \cup {"text"}
                    /\ UNCHANGED <<out, read, bad>>
               ELSE RouteFails /\ UNCHANGED raised
            /\ UNCHANGED <<programs, ifcOrder, file, jobs, holders, owned, encoders, well,
                           exceptions, taken>>

(* A glTF whose nodes list their children otherwise than as a list.        *)
Malformed == Running /\ Call.judge = "raises" /\ Raise /\ UNCHANGED faults

(* ConversionResult.close, in the pipeline's `with`.                       *)
Close ==
    /\ Done
    /\ holders' = holders - owned /\ owned' = 0
    /\ file' = Idle /\ jobs' = << >> /\ pc' = <<0, 0, 0>> /\ out' = {} /\ read' = {}
    /\ well' = {} /\ bad' = {} /\ clean' = TRUE /\ raised' = {}
    /\ UNCHANGED <<programs, ifcOrder, encoders, faults, exceptions, taken>>

PluginNext ==
    \/ \E f \in Inputs : Take(f)
    \/ Absent \/ Probe \/ Serve \/ Fail \/ DiskRefuses \/ Malformed \/ Close

PluginSpec == PluginInit /\ [][PluginNext]_pluginVars

-----------------------------------------------------------------------------
(* A failing program costs what it would have made and no more: what was   *)
(* given up has been tried by every route and each of them met a failure,  *)
(* and what was made was made by the first route that worked.              *)
Tried(i) == RoutesOf(jobs, jobs[i], out \cup read)
Works(i, r) == \A h \in DOMAIN Tried(i)[r] : <<i, r, h>> \in well
Breaks(i, r) == \E h \in DOMAIN Tried(i)[r] : <<i, r, h>> \in bad

Made(i) == jobs[i].makes \in out \cup read

LossIsContained ==
    Done => \A i \in DOMAIN jobs :
        /\ (IF IsText(jobs[i].makes) THEN "text" ELSE "render") \notin raised
        /\ Needs(jobs, jobs[i].makes) \subseteq out
        =>
            IF Made(i)
            THEN \E r \in DOMAIN Tried(i) : Works(i, r) /\ \A s \in 1..(r - 1) : Breaks(i, s)
            ELSE \A r \in DOMAIN Tried(i) : Breaks(i, r)

(* The files that are detached come back from the disk when the result is  *)
(* closed, but for one for each rendering that an exception ended.             *)
LeaksAreExceptions == holders - owned <= exceptions

(* The two together: a program that fails costs its own product, and its   *)
(* files.                                                                  *)
FailureIsContained == LossIsContained /\ LeaksAreExceptions

(* None is left: what Rendition says of its owner, and what the exceptions *)
(* break.                                                                  *)
NothingIsLeft == jobs = << >> => holders = 0

(* ready: what the capabilities say of a format.  No rendition comes of a  *)
(* format that is reported without; one does come of a format that its     *)
(* plugin answered for, when nothing goes wrong and there is something to  *)
(* draw: a blank text is skipped without a word.                           *)
Ready(plugin, mime) ==
    CASE plugin = "office" -> "soffice" \in programs
      [] plugin = "html" -> programs \cap {"chromium", "soffice"} # {}
      [] plugin = "image" -> "magick" \in programs
      [] plugin = "video" -> "ffmpeg" \in programs
      [] plugin = "model3d" -> /\ "convert2xkt" \in programs
                               /\ mime = "step" => "DRAWEXE" \in programs
      [] OTHER -> plugin # "text"

IsReady == Ready(PluginOf(file), Taken(file))
Shows == file.size = "some" /\ ~Undrawn(file) /\ IsReady /\ clean => out # {}

Answered == PluginOf(file) # "pdf" /\ (ifcOrder # <<"auto">> => Taken(file) # "ifc")

ReadyIsHonest == Done => (~IsReady => out = {}) /\ (Answered => Shows)

(* The same of every format: `ready` answers TRUE for the plugins that do  *)
(* not override it, pdf among them.                                        *)
ReadyPromises == Done => Shows

(* A format that the bytes identified is converted as that, whatever the   *)
(* name says; and Markdown by name, if libmagic saw text, as a document.   *)
BytesDecide ==
    jobs # << >> =>
        /\ file.bytes.by = "sniff" => Taken(file) = file.bytes.mime
                                      /\ PluginOf(file) \in {file.bytes.mime, "model3d"}
        /\ file.bytes.by = "magic" /\ file.name = "md" => PluginOf(file) = "markdown"

(* A sweep judges the limit by the name and the plugin by the bytes.  What *)
(* passes for a video or a model and is then parsed in this process, the   *)
(* content has outvoted: content that nobody recognises does not, and of a *)
(* name that the curated maps know libmagic's guess does not either.       *)
Oversize == jobs # << >> /\ file.swept /\ file.size \in {"over", "huge"}

LimitYieldsToContent ==
    Oversize /\ ~BoundsOwnMemory(PluginOf(file)) =>
        \/ file.bytes.by = "sniff"
        \/ file.bytes.by = "magic" /\ Curated(file.name) = "none"

(* The three together: the plugin that gets a file is the one that its     *)
(* bytes, the report and the limit mean.                                   *)
DispatchIsRight == BytesDecide /\ ReadyIsHonest /\ LimitYieldsToContent

(* What the pipeline says of the limit (pipeline.py:88-92, 122-125): what  *)
(* is over it is refused before a byte is read, unless a child process or  *)
(* the plugin's own ceiling takes it.  The bytes may say otherwise then.   *)
SweepsStaySmall == Oversize => BoundsOwnMemory(PluginOf(file))
=============================================================================
