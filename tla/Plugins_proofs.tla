--------------------------- MODULE Plugins_proofs ---------------------------
(***************************************************************************)
(* Proofs about Plugins, for any deployments, settings, files and bounds:  *)
(* that a failing program costs no more than what it would have made, and  *)
(* that a file goes to the plugin that its bytes and the limit mean.  And  *)
(* about Indexing, which takes what they extract: for any document,        *)
(* provider and bounds, the chunks fit, have every letter, and reach the   *)
(* index in their order, however often a request is refused and cut.       *)
(***************************************************************************)
EXTENDS Plugins, Indexing, SequenceTheorems, WellFoundedInduction, TLAPS

-----------------------------------------------------------------------------
(* What every route has in common: there is a call, and only the first job *)
(* of a file detaches one, by the last call of its route.                  *)
RouteOK(route, i, makes) ==
    /\ Len(route) \in Nat \ {0} /\ DOMAIN route = 1..Len(route)
    /\ \A h \in 1..Len(route) :
        /\ route[h].judge = "file" => i = 1 /\ h = Len(route) /\ ~IsText(makes)
        /\ route[h].judge = "raises" => ~IsText(makes)

RoutesOK(routes, i, makes) ==
    /\ \E S : routes \in Seq(S)
    /\ Len(routes) \in Nat \ {0} /\ DOMAIN routes = 1..Len(routes)
    /\ \A r \in 1..Len(routes) : RouteOK(routes[r], i, makes)

LEMMA OneCall ==
    ASSUME NEW p, NEW j, NEW i, NEW m,
           j = "file" => i = 1 /\ ~IsText(m), j = "raises" => ~IsText(m)
    PROVE  RouteOK(<<Hop(p, j)>>, i, m)
<1> DEFINE c == Hop(p, j)
<1>1. c.judge = j
  BY DEF Hop
<1> HIDE DEF c
<1> DEFINE route == <<c>>
<1>2. Len(route) = 1 /\ DOMAIN route = 1..1 /\ route[1] = c
  OBVIOUS
<1> HIDE DEF route
<1>3. RouteOK(route, i, m)
  BY <1>1, <1>2 DEF RouteOK
<1> QED
  BY <1>3 DEF route, c

LEMMA TwoCalls ==
    ASSUME NEW p, NEW j, NEW q, NEW k, NEW i, NEW m,
           j \notin {"file", "raises"},
           k = "file" => i = 1 /\ ~IsText(m), k = "raises" => ~IsText(m)
    PROVE  RouteOK(<<Hop(p, j), Hop(q, k)>>, i, m)
<1> DEFINE c == Hop(p, j)
           d == Hop(q, k)
<1>1. c.judge = j /\ d.judge = k
  BY DEF Hop
<1> HIDE DEF c, d
<1> DEFINE route == <<c, d>>
<1>2. Len(route) = 2 /\ DOMAIN route = 1..2 /\ route[1] = c /\ route[2] = d
  OBVIOUS
<1> HIDE DEF route
<1>3. RouteOK(route, i, m)
  BY <1>1, <1>2 DEF RouteOK
<1> QED
  BY <1>3 DEF route, c, d

LEMMA OneRoute ==
    ASSUME NEW route, NEW i, NEW m, RouteOK(route, i, m)
    PROVE  RoutesOK(<<route>>, i, m)
<1> DEFINE routes == <<route>>
<1>2. Len(routes) = 1 /\ DOMAIN routes = 1..1 /\ routes[1] = route
  OBVIOUS
<1>1. routes \in Seq({route})
  OBVIOUS
<1> HIDE DEF routes
<1>3. RoutesOK(routes, i, m)
  BY <1>1, <1>2 DEF RoutesOK
<1> QED
  BY <1>3 DEF routes

LEMMA TwoRoutes ==
    ASSUME NEW a, NEW b, NEW i, NEW m, RouteOK(a, i, m), RouteOK(b, i, m)
    PROVE  RoutesOK(<<a, b>>, i, m)
<1> DEFINE routes == <<a, b>>
<1>2. Len(routes) = 2 /\ DOMAIN routes = 1..2 /\ routes[1] = a /\ routes[2] = b
  OBVIOUS
<1>1. routes \in Seq({a, b})
  OBVIOUS
<1> HIDE DEF routes
<1>3. RoutesOK(routes, i, m)
  BY <1>1, <1>2 DEF RoutesOK
<1> QED
  BY <1>3 DEF routes

-----------------------------------------------------------------------------
(* A job can be done if every program of one of its routes is there.       *)
RouteRuns(route) == \A h \in 1..Len(route) : route[h].program \in programs \cup {"here"}
JobRuns(job) == \E r \in 1..Len(job.routes) : RouteRuns(job.routes[r])

LEMMA OneCallRuns ==
    ASSUME NEW p, NEW j
    PROVE  RouteRuns(<<Hop(p, j)>>) <=> p \in programs \cup {"here"}
<1> DEFINE c == Hop(p, j)
<1>1. c.program = p
  BY DEF Hop
<1> HIDE DEF c
<1> DEFINE route == <<c>>
<1>2. Len(route) = 1 /\ route[1] = c
  OBVIOUS
<1> HIDE DEF route
<1>3. RouteRuns(route) <=> p \in programs \cup {"here"}
  BY <1>1, <1>2 DEF RouteRuns
<1> QED
  BY <1>3 DEF route, c

LEMMA TwoCallsRun ==
    ASSUME NEW p, NEW j, NEW q, NEW k
    PROVE  RouteRuns(<<Hop(p, j), Hop(q, k)>>)
               <=> p \in programs \cup {"here"} /\ q \in programs \cup {"here"}
<1> DEFINE c == Hop(p, j)
           d == Hop(q, k)
<1>1. c.program = p /\ d.program = q
  BY DEF Hop
<1> HIDE DEF c, d
<1> DEFINE route == <<c, d>>
<1>2. Len(route) = 2 /\ route[1] = c /\ route[2] = d
  OBVIOUS
<1> HIDE DEF route
<1>3. RouteRuns(route) <=> p \in programs \cup {"here"} /\ q \in programs \cup {"here"}
  BY <1>1, <1>2 DEF RouteRuns
<1> QED
  BY <1>3 DEF route, c, d

LEMMA JobParts ==
    ASSUME NEW m, NEW routes
    PROVE  Job(m, routes).makes = m /\ Job(m, routes).routes = routes
BY DEF Job

LEMMA OneRouteRuns ==
    ASSUME NEW m, NEW route
    PROVE  JobRuns(Job(m, <<route>>)) <=> RouteRuns(route)
<1> DEFINE routes == <<route>>
<1>1. Len(routes) = 1 /\ routes[1] = route
  OBVIOUS
<1> HIDE DEF routes
<1>2. JobRuns(Job(m, routes)) <=> RouteRuns(route)
  BY <1>1, JobParts DEF JobRuns
<1> QED
  BY <1>2 DEF routes

LEMMA TwoRoutesRun ==
    ASSUME NEW m, NEW a, NEW b
    PROVE  JobRuns(Job(m, <<a, b>>)) <=> RouteRuns(a) \/ RouteRuns(b)
<1> DEFINE routes == <<a, b>>
<1>1. Len(routes) = 2 /\ routes[1] = a /\ routes[2] = b
  OBVIOUS
<1> HIDE DEF routes
<1>2. JobRuns(Job(m, routes)) <=> RouteRuns(a) \/ RouteRuns(b)
  BY <1>1, JobParts DEF JobRuns
<1> QED
  BY <1>2 DEF routes

LEMMA OneJob ==
    ASSUME NEW m, NEW p, NEW j
    PROVE  /\ One(m, p, j).makes = m
           /\ \A i : (j = "file" => i = 1 /\ ~IsText(m)) /\ (j = "raises" => ~IsText(m))
                  => RoutesOK(One(m, p, j).routes, i, m)
           /\ JobRuns(One(m, p, j)) <=> p \in programs \cup {"here"}
<1> DEFINE route == <<Hop(p, j)>>
<1>1. \A i : (j = "file" => i = 1 /\ ~IsText(m)) /\ (j = "raises" => ~IsText(m))
           => RouteOK(route, i, m)
  BY OneCall
<1>2. RouteRuns(route) <=> p \in programs \cup {"here"}
  BY OneCallRuns
<1>3. One(m, p, j) = Job(m, <<route>>)
  BY DEF One
<1> HIDE DEF route
<1>4. /\ One(m, p, j).makes = m
      /\ One(m, p, j).routes = <<route>>
  BY <1>3, JobParts
<1>5. \A i : RouteOK(route, i, m) => RoutesOK(<<route>>, i, m)
  BY OneRoute
<1>6. JobRuns(One(m, p, j)) <=> RouteRuns(route)
  BY <1>3, OneRouteRuns
<1> QED
  BY <1>1, <1>2, <1>4, <1>5, <1>6

-----------------------------------------------------------------------------
(* What every list of jobs has in common: no product is made twice; what   *)
(* others need comes first, and text last.                                 *)
OrderOK(list) ==
    /\ Len(list) \in Nat \ {0} /\ DOMAIN list = 1..Len(list)
    /\ \A i, j \in 1..Len(list) : list[i].makes = list[j].makes => i = j
    /\ \A i \in 1..Len(list) : list[i].makes \in {"pdf", "model"} => i = 1
    /\ \A i, j \in 1..Len(list) : i < j /\ IsText(list[i].makes) => IsText(list[j].makes)
    /\ \A i, j \in 1..Len(list) : list[i].makes = "textpdf" /\ list[j].makes = "text" => i < j

JobsOK(list) ==
    /\ OrderOK(list)
    /\ \A i \in 1..Len(list) : RoutesOK(list[i].routes, i, list[i].makes)

(* What a list owes to the report `ready`: without it no rendition can be  *)
(* made; with it, where the plugin has answered, the first can.            *)
Tells(list, ready, answered) ==
    /\ ~ready => /\ ~IsText(list[1].makes) => ~JobRuns(list[1])
                 /\ \A i \in 2..Len(list) : ~IsText(list[i].makes) =>
                        ~JobRuns(list[i]) \/ list[1].makes \in {"pdf", "model"}
    /\ ready /\ answered => ~IsText(list[1].makes) /\ list[1].makes # "clip" /\ JobRuns(list[1])

LEMMA ListOfOne ==
    ASSUME NEW a, NEW ready, NEW answered,
           RoutesOK(a.routes, 1, a.makes),
           a.makes = "text", ~ready
    PROVE  JobsOK(<<a>>) /\ Tells(<<a>>, ready, answered)
<1> DEFINE list == <<a>>
<1>1. Len(list) = 1 /\ DOMAIN list = 1..1 /\ list[1] = a
  OBVIOUS
<1> HIDE DEF list
<1>2. JobsOK(list)
  BY <1>1 DEF JobsOK, OrderOK
<1>3. Tells(list, ready, answered)
  BY <1>1 DEF Tells, IsText
<1> QED
  BY <1>2, <1>3 DEF list

LEMMA ListOfTwo ==
    ASSUME NEW a, NEW b, NEW ready, NEW answered,
           RoutesOK(a.routes, 1, a.makes), RoutesOK(b.routes, 2, b.makes),
           ~IsText(a.makes), a.makes # b.makes, a.makes # "clip", b.makes \notin {"pdf", "model"},
           JobRuns(a) <=> ready, IsText(b.makes) \/ (JobRuns(b) <=> ready)
    PROVE  JobsOK(<<a, b>>) /\ Tells(<<a, b>>, ready, answered)
<1> DEFINE list == <<a, b>>
<1>1. Len(list) = 2 /\ DOMAIN list = 1..2 /\ list[1] = a /\ list[2] = b
  OBVIOUS
<1> HIDE DEF list
<1>2. JobsOK(list)
  BY <1>1 DEF JobsOK, OrderOK, IsText
<1>3. Tells(list, ready, answered)
  BY <1>1 DEF Tells
<1> QED
  BY <1>2, <1>3 DEF list

LEMMA ListOfThree ==
    ASSUME NEW a, NEW b, NEW c, NEW ready, NEW answered,
           RoutesOK(a.routes, 1, a.makes), RoutesOK(b.routes, 2, b.makes),
           RoutesOK(c.routes, 3, c.makes),
           ~IsText(a.makes), ~IsText(b.makes), c.makes = "text",
           a.makes # b.makes, a.makes # "clip", b.makes \notin {"pdf", "model"},
           ready /\ answered => JobRuns(a),
           ~ready => a.makes = "model" /\ ~JobRuns(a)
    PROVE  JobsOK(<<a, b, c>>) /\ Tells(<<a, b, c>>, ready, answered)
<1> DEFINE list == <<a, b, c>>
<1>1. Len(list) = 3 /\ DOMAIN list = 1..3 /\ list[1] = a /\ list[2] = b /\ list[3] = c
  OBVIOUS
<1> HIDE DEF list
<1>2. JobsOK(list)
  BY <1>1 DEF JobsOK, OrderOK, IsText
<1>3. Tells(list, ready, answered)
  BY <1>1 DEF Tells, IsText
<1> QED
  BY <1>2, <1>3 DEF list

LEMMA ListOfFour ==
    ASSUME NEW a, NEW b, NEW c, NEW d, NEW ready, NEW answered,
           RoutesOK(a.routes, 1, a.makes), RoutesOK(b.routes, 2, b.makes),
           RoutesOK(c.routes, 3, c.makes), RoutesOK(d.routes, 4, d.makes),
           a.makes = "pdf", b.makes = "thumbnail", c.makes = "preview", d.makes = "text",
           JobRuns(a) <=> ready
    PROVE  JobsOK(<<a, b, c, d>>) /\ Tells(<<a, b, c, d>>, ready, answered)
<1> DEFINE list == <<a, b, c, d>>
<1>1. /\ Len(list) = 4 /\ DOMAIN list = 1..4
      /\ list[1] = a /\ list[2] = b /\ list[3] = c /\ list[4] = d
  OBVIOUS
<1> HIDE DEF list
<1>2. JobsOK(list)
  <2>1. OrderOK(list)
    BY <1>1 DEF OrderOK, IsText
  <2>2. \A i \in 1..Len(list) : RoutesOK(list[i].routes, i, list[i].makes)
    BY <1>1
  <2> QED
    BY <2>1, <2>2 DEF JobsOK
<1>3. Tells(list, ready, answered)
  BY <1>1 DEF Tells, IsText
<1> QED
  BY <1>2, <1>3 DEF list

LEMMA ListOfFive ==
    ASSUME NEW a, NEW b, NEW c, NEW d, NEW e, NEW ready, NEW answered,
           RoutesOK(a.routes, 1, a.makes), RoutesOK(b.routes, 2, b.makes),
           RoutesOK(c.routes, 3, c.makes), RoutesOK(d.routes, 4, d.makes),
           RoutesOK(e.routes, 5, e.makes),
           a.makes = "pdf", b.makes = "thumbnail", c.makes = "preview",
           d.makes = "textpdf", e.makes = "text",
           JobRuns(a) <=> ready
    PROVE  JobsOK(<<a, b, c, d, e>>) /\ Tells(<<a, b, c, d, e>>, ready, answered)
<1> DEFINE list == <<a, b, c, d, e>>
<1>1. /\ Len(list) = 5 /\ DOMAIN list = 1..5
      /\ list[1] = a /\ list[2] = b /\ list[3] = c /\ list[4] = d /\ list[5] = e
  OBVIOUS
<1> HIDE DEF list
<1>2. JobsOK(list)
  <2>1. OrderOK(list)
    BY <1>1 DEF OrderOK, IsText
  <2>2. \A i \in 1..Len(list) : RoutesOK(list[i].routes, i, list[i].makes)
    BY <1>1
  <2> QED
    BY <2>1, <2>2 DEF JobsOK
<1>3. Tells(list, ready, answered)
  BY <1>1 DEF Tells, IsText
<1> QED
  BY <1>2, <1>3 DEF list

-----------------------------------------------------------------------------
(* The lists themselves, plugin by plugin.                                 *)
LEMMA PdfLists ==
    ASSUME NEW mime, NEW answered
    PROVE  /\ JobsOK(JobsOf("pdf", mime)) /\ Tells(JobsOf("pdf", mime), TRUE, FALSE)
           /\ JobsOK(JobsOf("source", mime)) /\ Tells(JobsOf("source", mime), TRUE, answered)
           /\ JobsOK(JobsOf("markdown", mime)) /\ Tells(JobsOf("markdown", mime), TRUE, answered)
           /\ JobsOK(JobsOf("text", mime)) /\ Tells(JobsOf("text", mime), FALSE, answered)
<1>1. /\ Thumbnail.makes = "thumbnail" /\ \A i : RoutesOK(Thumbnail.routes, i, "thumbnail")
      /\ Preview.makes = "preview" /\ \A i : RoutesOK(Preview.routes, i, "preview")
      /\ Decoded.makes = "text" /\ \A i : RoutesOK(Decoded.routes, i, "text")
  BY OneJob DEF Thumbnail, Preview, Decoded
<1>2. PdfText.makes = "text" /\ \A i : RoutesOK(PdfText.routes, i, "text")
  <2>1. \A i : RouteOK(<<Hop("here", "written")>>, i, "text")
    BY OneCall
  <2>2. \A i : RouteOK(<<Hop("pdftotext", "both")>>, i, "text")
    BY OneCall
  <2>3. \A i : RoutesOK(Backends, i, "text")
    BY <2>1, <2>2, TwoRoutes DEF Backends
  <2> QED
    BY <2>3, JobParts DEF PdfText
<1>3. JobsOK(JobsOf("pdf", mime)) /\ Tells(JobsOf("pdf", mime), TRUE, FALSE)
  <2>1. JobsOf("pdf", mime) = <<Thumbnail, Preview, PdfText>>
    BY DEF JobsOf
  <2> QED
    BY <1>1, <1>2, <2>1, ListOfThree DEF IsText
<1>4. JobsOK(JobsOf("source", mime)) /\ Tells(JobsOf("source", mime), TRUE, answered)
  <2> DEFINE p == One("pdf", "here", "sure")
  <2>1. p.makes = "pdf" /\ RoutesOK(p.routes, 1, "pdf") /\ JobRuns(p)
    BY OneJob
  <2>2. JobsOf("source", mime) = <<p, Thumbnail, Preview, Decoded>>
    BY DEF JobsOf
  <2> HIDE DEF p
  <2> QED
    BY <1>1, <2>1, <2>2, ListOfFour
<1>5. JobsOK(JobsOf("markdown", mime)) /\ Tells(JobsOf("markdown", mime), TRUE, answered)
  <2> DEFINE route == <<Hop("here", "written")>>
             p == Job("pdf", <<route, route>>)
  <2>1. RouteOK(route, 1, "pdf") /\ RouteRuns(route)
    BY OneCall, OneCallRuns
  <2>2. JobsOf("markdown", mime) = <<p, Thumbnail, Preview, Decoded>>
    BY DEF JobsOf
  <2> HIDE DEF route
  <2>3. p.makes = "pdf" /\ RoutesOK(p.routes, 1, "pdf") /\ JobRuns(p)
    BY <2>1, TwoRoutes, TwoRoutesRun, JobParts
  <2> HIDE DEF p
  <2> QED
    BY <1>1, <2>2, <2>3, ListOfFour
<1>6. JobsOK(JobsOf("text", mime)) /\ Tells(JobsOf("text", mime), FALSE, answered)
  <2>1. JobsOf("text", mime) = <<Decoded>>
    BY DEF JobsOf
  <2> QED
    BY <1>1, <2>1, ListOfOne
<1> QED
  BY <1>3, <1>4, <1>5, <1>6

(* The one job of a blank text, which may be any that is drawn.            *)
LEMMA DecodedList ==
    ASSUME NEW ready
    PROVE  JobsOK(<<Decoded>>) /\ Tells(<<Decoded>>, ready, FALSE)
<1>1. JobsOK(<<Decoded>>)
  BY PdfLists DEF JobsOf
<1>2. <<Decoded>>[1] = Decoded /\ Len(<<Decoded>>) = 1 /\ Decoded.makes = "text"
  BY JobParts DEF Decoded, One
<1> QED
  BY <1>1, <1>2 DEF Tells, IsText

LEMMA OfficeList ==
    ASSUME NEW mime, NEW answered
    PROVE  /\ JobsOK(JobsOf("office", mime))
           /\ Tells(JobsOf("office", mime), "soffice" \in programs, answered)
<1> DEFINE p == One("pdf", "soffice", "file")
           t == One("textpdf", "soffice", "both")
<1>1. p.makes = "pdf" /\ RoutesOK(p.routes, 1, "pdf") /\ (JobRuns(p) <=> "soffice" \in programs)
  BY OneJob DEF IsText
<1>2. t.makes = "textpdf" /\ RoutesOK(t.routes, 4, "textpdf")
  BY OneJob
<1>3. /\ Thumbnail.makes = "thumbnail" /\ RoutesOK(Thumbnail.routes, 2, "thumbnail")
      /\ Preview.makes = "preview" /\ RoutesOK(Preview.routes, 3, "preview")
  BY OneJob DEF Thumbnail, Preview
<1>4. PdfText.makes = "text" /\ RoutesOK(PdfText.routes, 5, "text")
  <2>1. RouteOK(<<Hop("here", "written")>>, 5, "text") /\ RouteOK(<<Hop("pdftotext", "both")>>, 5, "text")
    BY OneCall
  <2>2. RoutesOK(Backends, 5, "text")
    BY <2>1, TwoRoutes DEF Backends
  <2> QED
    BY <2>2, JobParts DEF PdfText
<1>5. JobsOf("office", mime) = <<p, Thumbnail, Preview, t, PdfText>>
  BY DEF JobsOf
<1> HIDE DEF p, t
<1> QED
  BY <1>1, <1>2, <1>3, <1>4, <1>5, ListOfFive

LEMMA HtmlList ==
    ASSUME NEW mime, NEW answered
    PROVE  /\ JobsOK(JobsOf("html", mime))
           /\ Tells(JobsOf("html", mime), programs \cap {"chromium", "soffice"} # {}, answered)
<1> DEFINE x == <<Hop("chromium", "both")>>
           y == <<Hop("soffice", "both")>>
           p == Job("pdf", <<x, y>>)
           t == One("text", "here", "written")
<1>1. RouteOK(x, 1, "pdf") /\ RouteOK(y, 1, "pdf")
  BY OneCall
<1>2. (RouteRuns(x) <=> "chromium" \in programs) /\ (RouteRuns(y) <=> "soffice" \in programs)
  BY OneCallRuns
<1>3. t.makes = "text" /\ RoutesOK(t.routes, 4, "text")
  BY OneJob
<1>4. /\ Thumbnail.makes = "thumbnail" /\ RoutesOK(Thumbnail.routes, 2, "thumbnail")
      /\ Preview.makes = "preview" /\ RoutesOK(Preview.routes, 3, "preview")
  BY OneJob DEF Thumbnail, Preview
<1>5. JobsOf("html", mime) = <<p, Thumbnail, Preview, t>>
  BY DEF JobsOf, HtmlRoutes
<1> HIDE DEF x, y
<1>6. p.makes = "pdf" /\ RoutesOK(p.routes, 1, "pdf")
  BY <1>1, TwoRoutes, JobParts
<1>7. JobRuns(p) <=> programs \cap {"chromium", "soffice"} # {}
  BY <1>2, TwoRoutesRun
<1> HIDE DEF p, t
<1> QED
  BY <1>3, <1>4, <1>5, <1>6, <1>7, ListOfFour

LEMMA PictureLists ==
    ASSUME NEW mime, NEW answered
    PROVE  /\ JobsOK(JobsOf("image", mime))
           /\ Tells(JobsOf("image", mime), "magick" \in programs, answered)
           /\ JobsOK(JobsOf("video", mime))
           /\ Tells(JobsOf("video", mime), "ffmpeg" \in programs, answered)
<1>1. JobsOK(JobsOf("image", mime)) /\ Tells(JobsOf("image", mime), "magick" \in programs, answered)
  <2> DEFINE a == One("thumbnail", "magick", "both")
             b == One("preview", "magick", "both")
  <2>1. a.makes = "thumbnail" /\ RoutesOK(a.routes, 1, "thumbnail") /\ (JobRuns(a) <=> "magick" \in programs)
    BY OneJob
  <2>2. b.makes = "preview" /\ RoutesOK(b.routes, 2, "preview") /\ (JobRuns(b) <=> "magick" \in programs)
    BY OneJob
  <2>3. JobsOf("image", mime) = <<a, b>>
    BY DEF JobsOf
  <2> HIDE DEF a, b
  <2> QED
    BY <2>1, <2>2, <2>3, ListOfTwo DEF IsText
<1>2. JobsOK(JobsOf("video", mime)) /\ Tells(JobsOf("video", mime), "ffmpeg" \in programs, answered)
  <2> DEFINE a == One("poster", "ffmpeg", "both")
             b == One("clip", "ffmpeg", "both")
  <2>1. a.makes = "poster" /\ RoutesOK(a.routes, 1, "poster") /\ (JobRuns(a) <=> "ffmpeg" \in programs)
    BY OneJob
  <2>2. b.makes = "clip" /\ RoutesOK(b.routes, 2, "clip") /\ (JobRuns(b) <=> "ffmpeg" \in programs)
    BY OneJob
  <2>3. JobsOf("video", mime) = <<a, b>>
    BY DEF JobsOf
  <2> HIDE DEF a, b
  <2> QED
    BY <2>1, <2>2, <2>3, ListOfTwo DEF IsText
<1> QED
  BY <1>1, <1>2

LEMMA ModelTextJob ==
    ASSUME NEW mime
    PROVE  ModelText(mime).makes = "text" /\ \A i : RoutesOK(ModelText(mime).routes, i, "text")
<1> DEFINE route == <<Hop("here", "written")>>
<1>1. \A i : RouteOK(route, i, "text")
  BY OneCall
<1>2. ModelText(mime) = IF mime = "ifc" THEN Job("text", <<route, route>>) ELSE One("text", "here", "written")
  BY DEF ModelText
<1> HIDE DEF route
<1>3. \A i : RoutesOK(<<route, route>>, i, "text")
  BY <1>1, TwoRoutes
<1> HIDE DEF route
<1> QED
  BY <1>2, <1>3, OneJob, JobParts

LEMMA ModelTextList ==
    ASSUME NEW mime, NEW ready
    PROVE  JobsOK(<<ModelText(mime)>>) /\ Tells(<<ModelText(mime)>>, ready, FALSE)
<1>1. JobsOK(<<ModelText(mime)>>)
  BY ModelTextJob, ListOfOne
<1>2. <<ModelText(mime)>>[1] = ModelText(mime) /\ Len(<<ModelText(mime)>>) = 1
  OBVIOUS
<1>3. Tells(<<ModelText(mime)>>, ready, FALSE)
  BY <1>2, ModelTextJob DEF Tells, IsText
<1> QED
  BY <1>1, <1>3

(* The model of an IFC file: every backend ends in convert2xkt, and "auto" *)
(* has the one that needs nothing else.                                    *)
LEMMA IfcJob ==
    ASSUME ifcOrder \in IfcOrders
    PROVE  LET model == Job("model", IfcRoutes(IfcOrder(ifcOrder, programs)))
           IN  /\ RoutesOK(model.routes, 1, "model")
               /\ JobRuns(model) => "convert2xkt" \in programs
               /\ "convert2xkt" \in programs /\ ifcOrder = <<"auto">> => JobRuns(model)
<1> DEFINE order == IfcOrder(ifcOrder, programs)
           Backend == {"webifc", "ifcopenshell"}
           short == <<"webifc">>
           long == <<"ifcopenshell", "webifc">>
<1>1. /\ short \in Seq(Backend) /\ Len(short) = 1 /\ short[1] = "webifc"
      /\ long \in Seq(Backend) /\ Len(long) = 2 /\ long[2] = "webifc"
  OBVIOUS
<1>2. \/ ifcOrder = <<"auto">> /\ order \in {short, long}
      \/ ifcOrder # <<"auto">> /\ order = ifcOrder
  BY DEF IfcOrder
<1>3. ifcOrder # <<"auto">> => ifcOrder \in Seq(Backend) /\ ifcOrder # << >>
  BY PluginAssumption
<1> HIDE DEF order, short, long, Backend
<1>4. order \in Seq(Backend) /\ Len(order) \in Nat \ {0}
  BY <1>1, <1>2, <1>3
<1>5. ifcOrder = <<"auto">> => order[Len(order)] = "webifc"
  BY <1>1, <1>2
<1>6. \A i \in 1..Len(order) : order[i] \in {"webifc", "ifcopenshell"}
  BY <1>4 DEF Backend
<1> DEFINE routes == IfcRoutes(order)
<1>7. (\E S : routes \in Seq(S)) /\ Len(routes) = Len(order) /\ DOMAIN routes = 1..Len(order)
  <2>1. routes = [i \in 1..Len(order) |-> IfcRoute(order[i])]
    BY <1>4 DEF IfcRoutes
  <2>2. routes \in Seq({IfcRoute(order[i]) : i \in 1..Len(order)})
    BY <2>1, <1>4
  <2>3. Len(routes) = Len(order) /\ DOMAIN routes = 1..Len(order)
    BY <2>1, <2>2, <1>4
  <2> HIDE DEF routes
  <2>4. \E S : routes \in Seq(S)
    BY <2>2
  <2> QED
    BY <2>3, <2>4
<1>8. \A i \in 1..Len(order) : routes[i] = IfcRoute(order[i])
  BY <1>4 DEF IfcRoutes
<1>9. /\ RouteOK(IfcRoute("webifc"), 1, "model")
      /\ RouteRuns(IfcRoute("webifc")) <=> "convert2xkt" \in programs
  <2>1. IfcRoute("webifc") = <<Hop("convert2xkt", "file")>>
    BY DEF IfcRoute
  <2> QED
    BY <2>1, OneCall, OneCallRuns DEF IsText
<1>10. /\ RouteOK(IfcRoute("ifcopenshell"), 1, "model")
       /\ RouteRuns(IfcRoute("ifcopenshell")) => "convert2xkt" \in programs
  <2>1. IfcRoute("ifcopenshell") = <<Hop("ifcConvert", "exit"), Hop("convert2xkt", "file")>>
    BY DEF IfcRoute
  <2> QED
    BY <2>1, TwoCalls, TwoCallsRun DEF IsText
<1> HIDE DEF routes
<1> DEFINE model == Job("model", routes)
<1>11. model.routes = routes
  BY JobParts
<1> HIDE DEF model
<1>12. RoutesOK(model.routes, 1, "model")
  BY <1>4, <1>6, <1>7, <1>8, <1>9, <1>10, <1>11 DEF RoutesOK
<1>13. JobRuns(model) => "convert2xkt" \in programs
  BY <1>6, <1>7, <1>8, <1>9, <1>10, <1>11 DEF JobRuns
<1>14. "convert2xkt" \in programs /\ ifcOrder = <<"auto">> => JobRuns(model)
  BY <1>4, <1>5, <1>7, <1>8, <1>9, <1>11 DEF JobRuns
<1> QED
  BY <1>12, <1>13, <1>14 DEF model, routes, order

LEMMA ModelLists ==
    ASSUME NEW mime \in Models, ifcOrder \in IfcOrders
    PROVE  /\ JobsOK(JobsOf("model3d", mime))
           /\ Tells(JobsOf("model3d", mime), Ready("model3d", mime), ifcOrder # <<"auto">> => mime # "ifc")
<1> DEFINE ready == Ready("model3d", mime)
           answered == ifcOrder # <<"auto">> => mime # "ifc"
           t == ModelText(mime)
           list == JobsOf("model3d", mime)
<1>1. t.makes = "text" /\ \A i : RoutesOK(t.routes, i, "text")
  BY ModelTextJob
<1>2. list = Model(mime)
  BY DEF JobsOf
<1>3. ready <=> "convert2xkt" \in programs /\ (mime = "step" => "DRAWEXE" \in programs)
  BY DEF Ready
<1> HIDE DEF t, list, ready
<1>4. CASE mime = "ifc"
  <2> DEFINE a == Job("model", IfcRoutes(IfcOrder(ifcOrder, programs)))
             b == One("metamodel", "here", "written")
  <2>1. list = <<a, b, t>>
    BY <1>2, <1>4 DEF Model, t
  <2>2. /\ a.makes = "model" /\ RoutesOK(a.routes, 1, "model")
        /\ JobRuns(a) => "convert2xkt" \in programs
        /\ "convert2xkt" \in programs /\ ifcOrder = <<"auto">> => JobRuns(a)
    BY IfcJob, JobParts
  <2>3. b.makes = "metamodel" /\ RoutesOK(b.routes, 2, "metamodel")
    BY OneJob
  <2> HIDE DEF a, b
  <2>4. (ready /\ answered => JobRuns(a)) /\ (~ready => ~JobRuns(a))
    BY <1>3, <1>4, <2>2
  <2> HIDE DEF answered
  <2> QED
    BY <1>1, <2>1, <2>2, <2>3, <2>4, ListOfThree DEF IsText, ready, answered, list
<1>5. CASE mime = "gltf"
  <2> DEFINE a == One("model", "convert2xkt", "file")
             b == One("metamodel", "here", "raises")
  <2>1. list = <<a, b, t>>
    BY <1>2, <1>5 DEF Model, t
  <2>2. /\ a.makes = "model" /\ RoutesOK(a.routes, 1, "model")
        /\ JobRuns(a) <=> "convert2xkt" \in programs
    BY OneJob DEF IsText
  <2>3. b.makes = "metamodel" /\ RoutesOK(b.routes, 2, "metamodel")
    BY OneJob DEF IsText
  <2> HIDE DEF a, b
  <2>4. (ready /\ answered => JobRuns(a)) /\ (~ready => ~JobRuns(a))
    BY <1>3, <1>5, <2>2
  <2> HIDE DEF answered
  <2> QED
    BY <1>1, <2>1, <2>2, <2>3, <2>4, ListOfThree DEF IsText, ready, answered, list
<1>6. CASE mime = "step"
  <2> DEFINE x == <<Hop("DRAWEXE", "written"), Hop("convert2xkt", "file")>>
             a == Job("model", <<x>>)
  <2>1. list = <<a, t>>
    BY <1>2, <1>6 DEF Model, t
  <2>2. /\ RouteOK(x, 1, "model")
        /\ RouteRuns(x) <=> "DRAWEXE" \in programs /\ "convert2xkt" \in programs
    BY TwoCalls, TwoCallsRun DEF IsText
  <2> HIDE DEF x
  <2>3. /\ a.makes = "model" /\ RoutesOK(a.routes, 1, "model")
        /\ JobRuns(a) <=> "DRAWEXE" \in programs /\ "convert2xkt" \in programs
    BY <2>2, OneRoute, OneRouteRuns, JobParts
  <2> HIDE DEF a
  <2>4. JobRuns(a) <=> ready
    BY <1>3, <1>6, <2>3
  <2> HIDE DEF answered
  <2> QED
    BY <1>1, <2>1, <2>3, <2>4, ListOfTwo DEF IsText, ready, answered, list
<1> QED
  BY <1>4, <1>5, <1>6 DEF Models, ready, list

-----------------------------------------------------------------------------
(* Dispatch.  The first claim decides: CHOOSE in ForMime, Follows and      *)
(* FirstText takes the least of a set of numbers, and there is one.        *)
LEMMA Least ==
    ASSUME NEW S, S \subseteq Nat, S # {}
    PROVE  \E m \in S : \A n \in S : m <= n
<1> DEFINE R == OpToRel(<, Nat)
<1>1. R = {p \in Nat \X Nat : p[1] < p[2]}
  BY DEF OpToRel
<1>2. IsWellFoundedOn(R, Nat)
  BY NatLessThanWellFounded
<1> HIDE DEF R
<1>3. PICK m \in S : \A n \in S : ~(<<n, m>> \in R)
  BY <1>2, WFMin
<1>4. ASSUME NEW n \in S PROVE m <= n
  <2>1. n \in Nat /\ m \in Nat /\ <<n, m>> \notin R
    BY <1>3, <1>4
  <2>2. ASSUME NEW p, p = <<n, m>>, n < m PROVE p \in R
    BY <1>1, <2>1, <2>2
  <2> QED
    BY <2>1, <2>2
<1> QED
  BY <1>4

LEMMA Registers ==
    /\ DOMAIN Registered = 1..9
    /\ Registered[1] = "pdf" /\ Registered[2] = "office" /\ Registered[3] = "image"
    /\ Registered[4] = "video" /\ Registered[5] = "model3d" /\ Registered[6] = "html"
    /\ Registered[7] = "markdown" /\ Registered[8] = "source" /\ Registered[9] = "text"
BY DEF Registered

LEMMA ClaimTable ==
    ASSUME NEW mime, NEW name
    PROVE  /\ Claims(Registered[1], mime, name) <=> mime = "pdf"
           /\ Claims(Registered[2], mime, name) <=> mime = "office"
           /\ Claims(Registered[3], mime, name) <=> mime = "image"
           /\ Claims(Registered[4], mime, name) <=> mime = "video"
           /\ Claims(Registered[5], mime, name) <=> mime \in Models
           /\ Claims(Registered[6], mime, name) <=> mime = "html"
           /\ Claims(Registered[7], mime, name) <=> mime = "markdown" \/ (name = "md" /\ Refinable(mime))
           /\ Claims(Registered[8], mime, name) <=> name # "md" /\ mime \in Textual
           /\ Claims(Registered[9], mime, name) <=> mime \in {"text", "json", "html", "markdown"}
<1>1. /\ Claims("pdf", mime, name) <=> mime = "pdf"
      /\ Claims("office", mime, name) <=> mime = "office"
      /\ Claims("image", mime, name) <=> mime = "image"
      /\ Claims("video", mime, name) <=> mime = "video"
      /\ Claims("model3d", mime, name) <=> mime \in Models
      /\ Claims("html", mime, name) <=> mime = "html"
  BY DEF Claims
<1>2. /\ Claims("markdown", mime, name) <=> mime = "markdown" \/ (name = "md" /\ Refinable(mime))
      /\ Claims("source", mime, name) <=> name # "md" /\ mime \in Textual
      /\ Claims("text", mime, name) <=> mime \in {"text", "json", "html", "markdown"}
  BY DEF Claims
<1> QED
  BY <1>1, <1>2, Registers

LEMMA FirstClaim ==
    ASSUME NEW mime, NEW name
    PROVE  \/ ForMime(mime, name) = "nobody" /\ \A k \in 1..9 : ~Claims(Registered[k], mime, name)
           \/ \E k \in 1..9 : /\ ForMime(mime, name) = Registered[k]
                              /\ Claims(Registered[k], mime, name)
                              /\ \A j \in 1..9 : j < k => ~Claims(Registered[j], mime, name)
<1> DEFINE claimed == {i \in DOMAIN Registered : Claims(Registered[i], mime, name)}
           first == CHOOSE i \in claimed : \A j \in claimed : i <= j
<1>1. ForMime(mime, name) = IF claimed = {} THEN "nobody" ELSE Registered[first]
  BY DEF ForMime
<1>2. claimed = {i \in 1..9 : Claims(Registered[i], mime, name)}
  BY Registers
<1> HIDE DEF claimed
<1>3. CASE claimed = {}
  BY <1>1, <1>2, <1>3
<1>4. CASE claimed # {}
  <2>1. claimed \subseteq Nat
    BY <1>2
  <2>2. \E m \in claimed : \A n \in claimed : m <= n
    BY <1>4, <2>1, Least
  <2>3. first \in claimed /\ \A j \in claimed : first <= j
    BY <2>2
  <2> HIDE DEF first
  <2>4. first \in 1..9 /\ Claims(Registered[first], mime, name)
    BY <1>2, <2>3
  <2>5. ASSUME NEW j \in 1..9, j < first PROVE ~Claims(Registered[j], mime, name)
    BY <1>2, <2>3, <2>4, <2>5
  <2> QED
    BY <1>1, <1>4, <2>4, <2>5
<1> QED
  BY <1>3, <1>4

(* A type is claimed by the plugin that has its name, a model by model3d;  *)
(* HTML by its own plugin before those of text.                            *)
LEMMA SniffedDispatch ==
    ASSUME NEW mime \in Sniffable, NEW name, ForMime(mime, name) # "nobody"
    PROVE  ForMime(mime, name) \in {mime, "model3d"}
<1>1. PICK k \in 1..9 : /\ ForMime(mime, name) = Registered[k]
                        /\ Claims(Registered[k], mime, name)
                        /\ \A j \in 1..9 : j < k => ~Claims(Registered[j], mime, name)
  BY FirstClaim
<1>2. CASE k \in {1, 2, 3, 4, 6}
  BY <1>1, <1>2, Registers, ClaimTable
<1>3. CASE k = 5
  BY <1>1, <1>3, Registers
<1>4. CASE k \in {7, 8, 9}
  <2>1. \/ mime = "markdown" \/ Refinable(mime) \/ mime \in Textual
        \/ mime \in {"text", "json", "html", "markdown"}
    BY <1>1, <1>4, ClaimTable
  <2>2. mime = "html"
    BY <2>1 DEF Refinable, Generic, Textual, Sniffable
  <2>3. Claims(Registered[6], mime, name)
    BY <2>2, ClaimTable
  <2> QED
    BY <1>1, <1>4, <2>3
<1>5. k \in {1, 2, 3, 4, 6} \/ k = 5 \/ k \in {7, 8, 9}
  OBVIOUS
<1> QED
  BY <1>2, <1>3, <1>4, <1>5

LEMMA MarkdownDispatch ==
    ASSUME NEW name
    PROVE  ForMime("markdown", name) = "markdown"
<1>1. Claims(Registered[7], "markdown", name)
  BY ClaimTable
<1>2. \A j \in 1..6 : ~Claims(Registered[j], "markdown", name)
  <2>1. \A j \in {1, 2, 3, 4, 5, 6} : ~Claims(Registered[j], "markdown", name)
    BY ClaimTable DEF Models
  <2> QED
    BY <2>1
<1>3. PICK k \in 1..9 : /\ ForMime("markdown", name) = Registered[k]
                        /\ Claims(Registered[k], "markdown", name)
                        /\ \A j \in 1..9 : j < k => ~Claims(Registered[j], "markdown", name)
  BY <1>1, FirstClaim
<1>4. k = 7
  <2>1. k \in 1..6 \/ k = 7 \/ 7 < k
    OBVIOUS
  <2> QED
    BY <1>1, <1>2, <1>3, <2>1
<1> QED
  BY <1>3, <1>4, Registers

LEMMA ModelDispatch ==
    ASSUME NEW mime, NEW name, ForMime(mime, name) = "model3d"
    PROVE  mime \in Models
<1>1. PICK k \in 1..9 : ForMime(mime, name) = Registered[k] /\ Claims(Registered[k], mime, name)
  BY FirstClaim
<1>2. Registered[k] = "model3d"
  BY <1>1
<1> QED
  BY <1>1, <1>2 DEF Claims

(* BytesDecide, of a file that some plugin claims.                         *)
LEMMA BytesAreDecisive ==
    ASSUME NEW f \in Inputs, PluginOf(f) # "nobody"
    PROVE  /\ f.bytes.by = "sniff" => Taken(f) = f.bytes.mime /\ PluginOf(f) \in {f.bytes.mime, "model3d"}
           /\ f.bytes.by = "magic" /\ f.name = "md" => PluginOf(f) = "markdown"
<1>1. f.bytes \in Contents
  BY DEF Inputs
<1>2. ASSUME f.bytes.by = "sniff"
      PROVE  Taken(f) = f.bytes.mime /\ PluginOf(f) \in {f.bytes.mime, "model3d"}
  <2>1. f.bytes.mime \in Sniffable
    BY <1>1, <1>2 DEF Contents, Nothing
  <2>2. Taken(f) = f.bytes.mime
    BY <1>2 DEF Taken, Detect
  <2> QED
    BY <2>1, <2>2, SniffedDispatch DEF PluginOf
<1>3. ASSUME f.bytes.by = "magic", f.name = "md"
      PROVE  PluginOf(f) = "markdown"
  <2>1. f.bytes.mime \in Guessable
    BY <1>1, <1>3 DEF Contents, Nothing
  <2>2. Taken(f) = Refine(f.bytes.mime, "md")
    BY <1>3 DEF Taken, Detect
  <2>3. Curated("md") = "markdown" /\ ByName("md") = "markdown"
    BY DEF Curated, ByName
  <2>4. Refine(f.bytes.mime, "md") = "markdown"
    BY <2>1, <2>3 DEF Refine, Guessable, Generic, Textual
  <2> QED
    BY <2>2, <2>4, MarkdownDispatch DEF PluginOf
<1> QED
  BY <1>2, <1>3

(* LimitYieldsToContent, of a file whose name passes for one of a plugin    *)
(* that bounds its memory.                                                 *)
LEMMA OutvotedByContent ==
    ASSUME NEW f \in Inputs,
           BoundsOwnMemory(ForMime(Detect(Nothing, f.name), f.name)),
           ~BoundsOwnMemory(PluginOf(f))
    PROVE  f.bytes.by = "sniff" \/ (f.bytes.by = "magic" /\ Curated(f.name) = "none")
<1>1. f.bytes \in Contents /\ f.name \in Names
  BY DEF Inputs
<1>2. ASSUME f.bytes = Nothing PROVE FALSE
  BY <1>2 DEF PluginOf, Taken
<1>3. ASSUME f.bytes.by = "magic", Curated(f.name) # "none"
      PROVE  FALSE
  <2>1. f.bytes.mime \in Guessable
    BY <1>1, <1>3 DEF Contents, Nothing
  <2>2. f.name \in {"md", "ifc"}
    BY <1>1, <1>3 DEF Names, Curated
  <2>3. ByName(f.name) = Curated(f.name) /\ Curated(f.name) \in {"markdown", "ifc"}
    BY <1>3, <2>2 DEF ByName, Curated
  <2>4. Refine(f.bytes.mime, f.name) = Curated(f.name)
    BY <1>3, <2>1, <2>3 DEF Refine, Guessable, Generic, Textual
  <2>5. Taken(f) = Curated(f.name)
    BY <1>3, <2>4 DEF Taken, Detect
  <2>6. Detect(Nothing, f.name) = Curated(f.name)
    BY <1>3, <2>3 DEF Detect, Nothing
  <2> QED
    BY <2>5, <2>6 DEF PluginOf
<1> QED
  BY <1>1, <1>2, <1>3 DEF Contents, Nothing

-----------------------------------------------------------------------------
(* What is known of the jobs of a file, whichever it is.                   *)
Answers(f) == /\ f.size = "some" /\ ~Undrawn(f)
              /\ PluginOf(f) # "pdf" /\ (ifcOrder # <<"auto">> => Taken(f) # "ifc")

LEMMA KeptJobs ==
    ASSUME NEW f \in Inputs, PluginOf(f) # "nobody", ifcOrder \in IfcOrders
    PROVE  /\ JobsOK(Kept(f))
           /\ Tells(Kept(f), Ready(PluginOf(f), Taken(f)), Answers(f))
<1> DEFINE mime == Taken(f)
           plugin == PluginOf(f)
           answered == Answers(f)
<1>1. PICK k \in 1..9 : plugin = Registered[k]
  BY FirstClaim DEF PluginOf
<1>2. CASE plugin = "model3d"
  <2>1. mime \in Models
    BY <1>2, ModelDispatch DEF PluginOf
  <2>2. CASE f.size = "huge"
    <3>1. Kept(f) = <<ModelText(mime)>>
      BY <1>2, <2>2 DEF Kept, Undrawn
    <3>2. Answers(f) <=> FALSE
      BY <2>2 DEF Answers
    <3> QED
      BY <3>1, <3>2, ModelTextList DEF Tells
  <2>3. CASE f.size # "huge"
    <3>1. Kept(f) = JobsOf("model3d", mime)
      BY <1>2, <2>3 DEF Kept, Undrawn
    <3>2. Tells(Kept(f), Ready("model3d", mime), ifcOrder # <<"auto">> => mime # "ifc")
      BY <2>1, <3>1, ModelLists
    <3>3. Tells(Kept(f), Ready("model3d", mime), answered)
      BY <3>2 DEF Tells, Answers
    <3> QED
      BY <1>2, <2>1, <3>1, <3>3, ModelLists
  <2> QED
    BY <2>2, <2>3
<1>3. CASE Undrawn(f)
  <2>1. Kept(f) = <<Decoded>> /\ (Answers(f) <=> FALSE)
    BY <1>3 DEF Kept, Answers
  <2>2. Tells(Kept(f), Ready(plugin, mime), FALSE)
    BY <2>1, DecodedList
  <2> QED
    BY <2>1, <2>2, DecodedList DEF Tells
<1>4. CASE plugin # "model3d" /\ ~Undrawn(f)
  <2>1. Kept(f) = JobsOf(plugin, mime)
    BY <1>4 DEF Kept
  <2>2. CASE plugin = "pdf"
    <3>1. Answers(f) <=> FALSE
      BY <2>2 DEF Answers
    <3>2. Ready("pdf", mime) <=> TRUE
      BY DEF Ready
    <3> QED
      BY <2>1, <2>2, <3>1, <3>2, PdfLists DEF Tells
  <2>3. CASE plugin \in {"source", "markdown"}
    <3>1. (Ready("source", mime) <=> TRUE) /\ (Ready("markdown", mime) <=> TRUE)
      BY DEF Ready
    <3> QED
      BY <2>1, <2>3, <3>1, PdfLists
  <2>4. CASE plugin = "text"
    <3>1. Ready("text", mime) <=> FALSE
      BY DEF Ready
    <3> QED
      BY <2>1, <2>4, <3>1, PdfLists DEF Tells
  <2>5. CASE plugin = "office"
    <3>1. Ready("office", mime) <=> "soffice" \in programs
      BY DEF Ready
    <3> QED
      BY <2>1, <2>5, <3>1, OfficeList DEF Tells
  <2>6. CASE plugin = "html"
    <3>1. Ready("html", mime) <=> programs \cap {"chromium", "soffice"} # {}
      BY DEF Ready
    <3> QED
      BY <2>1, <2>6, <3>1, HtmlList DEF Tells
  <2>7. CASE plugin = "image"
    <3>1. Ready("image", mime) <=> "magick" \in programs
      BY DEF Ready
    <3> QED
      BY <2>1, <2>7, <3>1, PictureLists DEF Tells
  <2>8. CASE plugin = "video"
    <3>1. Ready("video", mime) <=> "ffmpeg" \in programs
      BY DEF Ready
    <3> QED
      BY <2>1, <2>8, <3>1, PictureLists DEF Tells
  <2>9. plugin \in {"pdf", "office", "image", "video", "html", "markdown", "source", "text"}
    BY <1>1, <1>4, Registers
  <2> QED
    BY <2>2, <2>3, <2>4, <2>5, <2>6, <2>7, <2>8, <2>9
<1> QED
  BY <1>2, <1>3, <1>4

-----------------------------------------------------------------------------
(* The inductive invariant.  What the file at hand is, and that nothing is *)
(* left of the last one when there is none.                                *)
FileInv ==
    /\ ifcOrder \in IfcOrders
    /\ jobs # << >> => /\ file \in Inputs /\ ~TooLarge(file) /\ PluginOf(file) # "nobody"
                       /\ jobs = Kept(file)
    /\ jobs = << >> => /\ pc = <<0, 0, 0>> /\ out = {} /\ read = {} /\ owned = 0
                       /\ well = {} /\ bad = {} /\ raised = {}

(* Where the process is: at a call of a route of a job whose need is met;  *)
(* the routes before this one broke, and the hops before this one worked.  *)
PlaceInv ==
    jobs # << >> =>
        /\ pc = <<pc[1], pc[2], pc[3]>>
        /\ pc[1] \in 1..(Len(jobs) + 1)
        /\ pc[1] <= Len(jobs) =>
            /\ Needs(jobs, jobs[pc[1]].makes) \subseteq out
            /\ pc[2] \in 1..Len(Tried(pc[1]))
            /\ pc[3] \in 1..Len(Tried(pc[1])[pc[2]])
            /\ \A s \in 1..(pc[2] - 1) : Breaks(pc[1], s)
            /\ \A h \in 1..(pc[3] - 1) : <<pc[1], pc[2], h>> \in well

(* What LossIsContained says at the end holds of each job that is over;    *)
(* and nothing of a later job has been made.                               *)
Kind(i) == IF IsText(jobs[i].makes) THEN "text" ELSE "render"

Settled(i) ==
    Kind(i) \notin raised /\ Needs(jobs, jobs[i].makes) \subseteq out =>
        IF Made(i)
        THEN \E r \in DOMAIN Tried(i) : Works(i, r) /\ \A s \in 1..(r - 1) : Breaks(i, s)
        ELSE \A r \in DOMAIN Tried(i) : Breaks(i, r)

PastInv ==
    \A i \in 1..Len(jobs) :
        /\ i < pc[1] => Settled(i)
        /\ i >= pc[1] => ~Made(i)
        /\ Made(i) => Needs(jobs, jobs[i].makes) \subseteq out

ProductInv ==
    /\ \A m \in out : ~IsText(m) /\ \E i \in 1..Len(jobs) : jobs[i].makes = m
    /\ \A m \in read : IsText(m)

(* An exception takes the renditions, and only the text goes on; or it     *)
(* takes the text, and nothing goes on.                                    *)
RaisedInv ==
    /\ "render" \in raised => /\ out = {}
                              /\ \A i \in 1..Len(jobs) : i >= pc[1] => IsText(jobs[i].makes)
    /\ "text" \in raised => pc[1] = Len(jobs) + 1
    /\ raised # {} => ~clean

(* What was called is there; and while nothing goes wrong only what is     *)
(* absent fails, but for the clip, which also needs an encoder.            *)
Present(i, r, h) == jobs[i].routes[r][h].program \in programs \cup {"here"}

CallInv ==
    \A i \in 1..Len(jobs), r \in Nat, h \in Nat :
        ~IsText(jobs[i].makes) =>
            /\ <<i, r, h>> \in well => Present(i, r, h)
            /\ clean /\ jobs[i].makes # "clip" /\ <<i, r, h>> \in bad => ~Present(i, r, h)

(* Only the first job detaches a file, at its end.                         *)
LeakInv ==
    /\ holders \in Nat /\ exceptions \in Nat /\ owned \in {0, 1}
    /\ owned = 1 => pc[1] > 1
    /\ owned <= holders /\ holders <= owned + exceptions

PluginsInv == FileInv /\ PlaceInv /\ PastInv /\ ProductInv /\ RaisedInv /\ CallInv /\ LeakInv

-----------------------------------------------------------------------------
(* The operators that the steps use.                                       *)
LEMMA RoutesHold ==
    ASSUME NEW list, JobsOK(list), NEW i \in 1..Len(list), NEW got
    PROVE  RoutesOK(RoutesOf(list, list[i], got), i, list[i].makes)
<1> DEFINE routes == list[i].routes
           m == list[i].makes
<1>1. RoutesOK(routes, i, m)
  BY DEF JobsOK
<1>2. RouteOK(TextExport, i, m)
  BY OneCall DEF TextExport
<1>3. RoutesOK(<<TextExport>>, i, m)
  BY <1>2, OneRoute
<1>4. RoutesOK(Append(routes, TextExport), i, m)
  <2> HIDE DEF routes, m
  <2>1. PICK S : routes \in Seq(S)
    BY <1>1 DEF RoutesOK
  <2> DEFINE more == Append(routes, TextExport)
  <2>2. /\ more \in Seq(S \cup {TextExport}) /\ Len(more) = Len(routes) + 1
        /\ more[Len(routes) + 1] = TextExport
        /\ \A r \in 1..Len(routes) : more[r] = routes[r]
    BY <2>1
  <2>3. DOMAIN more = 1..Len(more) /\ Len(routes) \in Nat
    BY <2>1, <2>2
  <2> HIDE DEF more
  <2>4. ASSUME NEW r \in 1..Len(more) PROVE RouteOK(more[r], i, m)
    <3>1. r \in 1..Len(routes) \/ r = Len(routes) + 1
      BY <2>2, <2>3
    <3> QED
      BY <1>1, <1>2, <2>2, <3>1 DEF RoutesOK
  <2>5. \E T : more \in Seq(T)
    BY <2>2
  <2>6. Len(more) \in Nat \ {0}
    BY <2>2, <2>3
  <2>7. RoutesOK(more, i, m)
    BY <2>3, <2>4, <2>5, <2>6 DEF RoutesOK
  <2> QED
    BY <2>7 DEF more
<1>5. RoutesOf(list, list[i], got) \in {routes, <<TextExport>>, Append(routes, TextExport)}
  BY DEF RoutesOf
<1> HIDE DEF routes, m
<1> QED
  BY <1>1, <1>3, <1>4, <1>5 DEF m

(* Only the first job is needed by others, and by renditions only.         *)
LEMMA NeedsOnlyFirst ==
    ASSUME NEW list, JobsOK(list), NEW i \in 1..Len(list)
    PROVE  /\ Needs(list, list[i].makes) \subseteq {list[1].makes}
           /\ i = 1 \/ IsText(list[i].makes) => Needs(list, list[i].makes) = {}
           /\ i # 1 /\ ~IsText(list[i].makes) /\ list[1].makes \in {"pdf", "model"}
                  => list[1].makes \in Needs(list, list[i].makes)
<1>1. Len(list) \in Nat \ {0} /\ DOMAIN list = 1..Len(list) /\ 1 \in 1..Len(list)
  BY DEF JobsOK, OrderOK
<1>2. \A k \in 1..Len(list) : list[k].makes \in {"pdf", "model"} => k = 1
  BY DEF JobsOK, OrderOK
<1>3. list[i].makes = list[1].makes => i = 1
  BY <1>1 DEF JobsOK, OrderOK
<1>4. \A need \in Needs(list, list[i].makes) :
          /\ need = list[1].makes /\ need # list[i].makes /\ ~IsText(list[i].makes)
  BY <1>1, <1>2 DEF Needs
<1>5. ASSUME i # 1, ~IsText(list[i].makes), list[1].makes \in {"pdf", "model"}
      PROVE  list[1].makes \in Needs(list, list[i].makes)
  BY <1>1, <1>3, <1>5 DEF Needs
<1> QED
  BY <1>4, <1>5

LEMMA FollowsIsNext ==
    ASSUME JobsOK(jobs), NEW from \in 1..(Len(jobs) + 1), NEW got
    PROVE  /\ Follows(from, got) \in from..(Len(jobs) + 1)
           /\ Follows(from, got) <= Len(jobs) => Needs(jobs, jobs[Follows(from, got)].makes) \subseteq got
           /\ \A i \in from..Len(jobs) : i < Follows(from, got) => ~(Needs(jobs, jobs[i].makes) \subseteq got)
<1> DEFINE open == {i \in from..Len(jobs) : Needs(jobs, jobs[i].makes) \subseteq got}
           first == CHOOSE i \in open : \A k \in open : i <= k
<1>1. Follows(from, got) = IF open = {} THEN Len(jobs) + 1 ELSE first
  BY DEF Follows
<1>2. Len(jobs) \in Nat
  BY DEF JobsOK, OrderOK
<1>3. \A i : i \in open <=> i \in from..Len(jobs) /\ Needs(jobs, jobs[i].makes) \subseteq got
  OBVIOUS
<1> HIDE DEF open
<1>4. CASE open = {}
  BY <1>1, <1>2, <1>3, <1>4
<1>5. CASE open # {}
  <2>1. open \subseteq Nat
    BY <1>2, <1>3
  <2>2. \E m \in open : \A n \in open : m <= n
    BY <1>5, <2>1, Least
  <2>3. first \in open /\ \A k \in open : first <= k
    BY <2>2
  <2> HIDE DEF first
  <2>4. Follows(from, got) = first
    BY <1>1, <1>5
  <2> QED
    BY <1>2, <1>3, <2>3, <2>4
<1> QED
  BY <1>4, <1>5

LEMMA TextIsLast ==
    ASSUME JobsOK(jobs)
    PROVE  /\ FirstText \in 1..(Len(jobs) + 1)
           /\ \A i \in 1..Len(jobs) : i >= FirstText <=> IsText(jobs[i].makes)
<1> DEFINE textual == {i \in DOMAIN jobs : IsText(jobs[i].makes)}
           first == CHOOSE i \in textual : \A k \in textual : i <= k
<1>1. FirstText = IF textual = {} THEN Len(jobs) + 1 ELSE first
  BY DEF FirstText
<1>2. Len(jobs) \in Nat /\ DOMAIN jobs = 1..Len(jobs)
  BY DEF JobsOK, OrderOK
<1>3. \A i : i \in textual <=> i \in 1..Len(jobs) /\ IsText(jobs[i].makes)
  BY <1>2
<1> HIDE DEF textual
<1>4. CASE textual = {}
  BY <1>1, <1>2, <1>3, <1>4
<1>5. CASE textual # {}
  <2>1. textual \subseteq Nat
    BY <1>2, <1>3
  <2>2. \E m \in textual : \A n \in textual : m <= n
    BY <1>5, <2>1, Least
  <2>3. first \in textual /\ \A k \in textual : first <= k
    BY <2>2
  <2> HIDE DEF first
  <2>4. FirstText = first
    BY <1>1, <1>5
  <2>5. \A i \in 1..Len(jobs) : i > FirstText => IsText(jobs[i].makes)
    BY <1>2, <1>3, <2>3, <2>4 DEF JobsOK, OrderOK
  <2> QED
    BY <1>2, <1>3, <2>3, <2>4, <2>5
<1> QED
  BY <1>4, <1>5

LEMMA JobsHold ==
    ASSUME FileInv, jobs # << >>
    PROVE  JobsOK(jobs) /\ Tells(jobs, IsReady, Answers(file))
BY KeptJobs DEF FileInv, IsReady

LEMMA TriedHolds ==
    ASSUME JobsOK(jobs), NEW i \in 1..Len(jobs)
    PROVE  /\ RoutesOK(Tried(i), i, jobs[i].makes)
           /\ jobs[i].makes # "text" => Tried(i) = jobs[i].routes
<1>1. RoutesOK(Tried(i), i, jobs[i].makes)
  BY RoutesHold DEF Tried
<1>2. jobs[i].makes # "text" => Tried(i) = jobs[i].routes
  BY DEF Tried, RoutesOf
<1> QED
  BY <1>1, <1>2

-----------------------------------------------------------------------------
(* While a call can be made, the process stands at a job of the file.      *)
LEMMA AtWork ==
    ASSUME PluginsInv, Running
    PROVE  /\ jobs # << >> /\ JobsOK(jobs) /\ Len(jobs) \in Nat /\ DOMAIN jobs = 1..Len(jobs)
           /\ pc[1] \in 1..Len(jobs) /\ pc = <<pc[1], pc[2], pc[3]>>
           /\ Now = jobs[pc[1]] /\ Routes = Tried(pc[1]) /\ Call = Tried(pc[1])[pc[2]][pc[3]]
           /\ RoutesOK(Tried(pc[1]), pc[1], jobs[pc[1]].makes)
           /\ pc[2] \in 1..Len(Tried(pc[1])) /\ DOMAIN Tried(pc[1]) = 1..Len(Tried(pc[1]))
           /\ pc[3] \in 1..Len(Tried(pc[1])[pc[2]])
           /\ ~Made(pc[1]) /\ Needs(jobs, jobs[pc[1]].makes) \subseteq out
           /\ "text" \notin raised
<1>1. jobs # << >>
  <2>1. jobs = << >> => DOMAIN jobs = {}
    OBVIOUS
  <2> QED
    BY <2>1 DEF Running
<1>2. JobsOK(jobs)
  BY <1>1, JobsHold DEF PluginsInv
<1>3. Len(jobs) \in Nat /\ DOMAIN jobs = 1..Len(jobs)
  BY <1>2 DEF JobsOK, OrderOK
<1>4. pc[1] \in 1..Len(jobs)
  BY <1>3 DEF Running
<1>5. Now = jobs[pc[1]] /\ Routes = Tried(pc[1])
  BY DEF Now, Routes, Tried
<1>6. Call = Tried(pc[1])[pc[2]][pc[3]]
  BY <1>5 DEF Call
<1>7. RoutesOK(Tried(pc[1]), pc[1], jobs[pc[1]].makes)
  BY <1>2, <1>4, TriedHolds
<1>8. DOMAIN Tried(pc[1]) = 1..Len(Tried(pc[1]))
  BY <1>7 DEF RoutesOK
<1>9. /\ pc = <<pc[1], pc[2], pc[3]>> /\ Needs(jobs, jobs[pc[1]].makes) \subseteq out
      /\ pc[2] \in 1..Len(Tried(pc[1])) /\ pc[3] \in 1..Len(Tried(pc[1])[pc[2]])
  BY <1>1, <1>3, <1>4 DEF PluginsInv, PlaceInv
<1>10. ~Made(pc[1])
  BY <1>4 DEF PluginsInv, PastInv
<1>11. "text" \notin raised
  BY <1>3, <1>4 DEF PluginsInv, RaisedInv
<1> QED
  BY <1>1, <1>2, <1>3, <1>4, <1>5, <1>6, <1>7, <1>8, <1>9, <1>10, <1>11

(* A job ends as its last call or its last route has it: the job is settled *)
(* by what was called, and the process goes to a job whose need is met.    *)
LEMMA JobIsSettled ==
    ASSUME PluginsInv, Running, jobs' = jobs, raised' = raised,
           well \subseteq well', bad \subseteq bad', NEW made \in BOOLEAN, JobEnds(made),
           IF made THEN \A h \in DOMAIN Tried(pc[1])[pc[2]] : <<pc[1], pc[2], h>> \in well'
           ELSE \A r \in DOMAIN Tried(pc[1]) : \E h \in DOMAIN Tried(pc[1])[r] : <<pc[1], r, h>> \in bad'
    PROVE  /\ PlaceInv' /\ PastInv' /\ ProductInv'
           /\ pc'[1] \in Nat /\ pc'[1] > pc[1]
           /\ "render" \in raised => /\ out' = {}
                                     /\ \A i \in 1..Len(jobs) : i >= pc'[1] => IsText(jobs[i].makes)
<1>1. PICK n, q, m, newOut, newRead :
          n = pc[1] /\ q = pc[2] /\ m = jobs[pc[1]].makes /\ newOut = out' /\ newRead = read'
  OBVIOUS
<1>2. /\ jobs # << >> /\ JobsOK(jobs) /\ Len(jobs) \in Nat /\ n \in 1..Len(jobs)
      /\ q \in 1..Len(Tried(n)) /\ DOMAIN Tried(n) = 1..Len(Tried(n))
      /\ ~Made(n) /\ Needs(jobs, m) \subseteq out /\ m = jobs[n].makes
  BY <1>1, AtWork
<1>3. /\ newOut = IF made /\ ~IsText(m) THEN out \cup {m} ELSE out
      /\ newRead = IF made /\ IsText(m) THEN read \cup {m} ELSE read
      /\ pc' = <<Follows(n + 1, newOut), 1, 1>>
  BY <1>1, AtWork DEF JobEnds
<1>4. /\ \A i \in 1..Len(jobs) : i # n => jobs[i].makes # m
      /\ \A i \in 1..Len(jobs) : i <= n /\ jobs[i].makes = "text" => m # "textpdf"
  BY <1>2 DEF JobsOK, OrderOK
<1>5. \A i \in 1..Len(jobs) : Made(i)' <=> jobs[i].makes \in newOut \cup newRead
  BY <1>1 DEF Made
<1>6. (\A i \in 1..Len(jobs) : i # n => (Made(i)' <=> Made(i))) /\ (Made(n)' <=> made)
  BY <1>2, <1>3, <1>4, <1>5 DEF Made
<1>7. \A i \in 1..n : Tried(i)' = Tried(i)
  <2>1. \A i \in 1..n : Tried(i)' = RoutesOf(jobs, jobs[i], newOut \cup newRead)
    BY <1>1 DEF Tried
  <2>2. \A i \in 1..n : jobs[i].makes = "text" =>
            ("textpdf" \in newOut \cup newRead <=> "textpdf" \in out \cup read)
    BY <1>2, <1>3, <1>4
  <2> QED
    BY <2>1, <2>2 DEF Tried, RoutesOf
<1>8. \A i \in 1..n : Needs(jobs, jobs[i].makes) \subseteq newOut <=> Needs(jobs, jobs[i].makes) \subseteq out
  <2> SUFFICES ASSUME NEW i \in 1..n
               PROVE  Needs(jobs, jobs[i].makes) \subseteq newOut <=> Needs(jobs, jobs[i].makes) \subseteq out
    OBVIOUS
  <2>1. i \in 1..Len(jobs)
    BY <1>2
  <2>2. CASE i = 1
    BY <1>2, <2>1, <2>2, NeedsOnlyFirst
  <2>3. CASE i # 1
    <3>1. jobs[1].makes # m
      BY <1>2, <1>4, <2>1, <2>3
    <3>2. Needs(jobs, jobs[i].makes) \subseteq {jobs[1].makes}
      BY <1>2, <2>1, NeedsOnlyFirst
    <3> QED
      BY <1>3, <3>1, <3>2
  <2> QED
    BY <2>2, <2>3
<1>9. PICK next : next = Follows(n + 1, newOut)
  OBVIOUS
<1>10. /\ next \in (n + 1)..(Len(jobs) + 1)
       /\ next <= Len(jobs) => Needs(jobs, jobs[next].makes) \subseteq newOut
       /\ \A i \in (n + 1)..Len(jobs) : i < next => ~(Needs(jobs, jobs[i].makes) \subseteq newOut)
  <2>1. n + 1 \in 1..(Len(jobs) + 1)
    BY <1>2
  <2> QED
    BY <1>2, <1>9, <2>1, FollowsIsNext
<1>11. pc' = <<next, 1, 1>> /\ next \in Nat /\ next > n
  BY <1>2, <1>3, <1>9, <1>10
<1>12. \A i \in 1..n : \A r : (Breaks(i, r) => Breaks(i, r)') /\ (Works(i, r) => Works(i, r)')
  BY <1>7 DEF Breaks, Works
<1>13. PlaceInv'
  <2>1. jobs' # << >> /\ pc' = <<pc'[1], pc'[2], pc'[3]>> /\ pc'[1] \in 1..(Len(jobs') + 1)
    BY <1>2, <1>10, <1>11
  <2>2. ASSUME next <= Len(jobs)
        PROVE  /\ Needs(jobs', jobs'[next].makes) \subseteq out'
               /\ Len(Tried(next)') >= 1 /\ Len(Tried(next)') \in Nat
               /\ Len(Tried(next)'[1]) >= 1 /\ Len(Tried(next)'[1]) \in Nat
    <3>1. next \in 1..Len(jobs)
      BY <1>2, <1>10, <2>2
    <3>2. Tried(next)' = RoutesOf(jobs, jobs[next], newOut \cup newRead)
      BY <1>1 DEF Tried
    <3>3. RoutesOK(Tried(next)', next, jobs[next].makes)
      BY <1>2, <3>1, <3>2, RoutesHold
    <3> QED
      BY <1>1, <1>10, <2>2, <3>3 DEF RoutesOK, RouteOK
  <2>3. next <= Len(jobs) =>
            /\ Needs(jobs', jobs'[pc'[1]].makes) \subseteq out'
            /\ pc'[2] \in 1..Len(Tried(next)')
            /\ pc'[3] \in 1..Len(Tried(next)'[pc'[2]])
            /\ 1..(pc'[2] - 1) = {} /\ 1..(pc'[3] - 1) = {}
    BY <1>11, <2>2
  <2> QED
    BY <1>11, <2>1, <2>3 DEF PlaceInv
<1>14. ProductInv'
  BY <1>1, <1>2, <1>3 DEF PluginsInv, ProductInv
<1>15. PastInv'
  <2>1. ASSUME NEW i \in 1..Len(jobs), i < n PROVE Settled(i)'
    <3>1. i \in 1..n
      BY <1>2, <2>1
    <3>2. Settled(i)
      BY <1>1, <2>1 DEF PluginsInv, PastInv
    <3>3. /\ Made(i)' <=> Made(i)
          /\ Tried(i)' = Tried(i)
          /\ Kind(i)' = Kind(i)
          /\ Needs(jobs, jobs[i].makes)' \subseteq out' <=> Needs(jobs, jobs[i].makes) \subseteq out
      BY <1>1, <1>2, <1>6, <1>7, <1>8, <2>1, <3>1 DEF Kind
    <3> QED
      BY <1>12, <3>1, <3>2, <3>3 DEF Settled
  <2>2. Settled(n)'
    <3>1. n \in 1..n
      BY <1>2
    <3>2. CASE made
      <4>1. Works(n, q)'
        BY <1>1, <1>7, <3>1, <3>2 DEF Works
      <4>2. \A s \in 1..(q - 1) : Breaks(n, s)
        BY <1>1, <1>2 DEF PluginsInv, PlaceInv
      <4>3. q \in DOMAIN Tried(n)'
        BY <1>2, <1>7, <3>1
      <4> QED
        BY <1>6, <1>12, <3>1, <3>2, <4>1, <4>2, <4>3 DEF Settled
    <3>3. CASE ~made
      <4>1. \A r \in DOMAIN Tried(n)' : Breaks(n, r)'
        BY <1>1, <1>7, <3>1, <3>3 DEF Breaks
      <4> QED
        BY <1>6, <3>3, <4>1 DEF Settled
    <3> QED
      BY <3>2, <3>3
  <2>3. ASSUME NEW i \in 1..Len(jobs), n < i, i < next PROVE Settled(i)'
    <3>1. ~(Needs(jobs, jobs[i].makes)' \subseteq out')
      BY <1>1, <1>2, <1>10, <2>3
    <3> QED
      BY <3>1 DEF Settled
  <2>4. ASSUME NEW i \in 1..Len(jobs), i >= next PROVE ~Made(i)'
    <3>1. i # n /\ i >= pc[1]
      BY <1>1, <1>2, <1>10, <2>4
    <3> QED
      BY <1>6, <3>1 DEF PluginsInv, PastInv
  <2>5. ASSUME NEW i \in 1..Len(jobs), Made(i)' PROVE Needs(jobs, jobs[i].makes)' \subseteq out'
    <3>1. CASE i = n
      BY <1>1, <1>2, <1>3, <3>1
    <3>2. CASE i # n
      <4>1. Needs(jobs, jobs[i].makes) \subseteq out
        BY <1>6, <2>5, <3>2 DEF PluginsInv, PastInv
      <4> QED
        BY <1>1, <1>3, <4>1
    <3> QED
      BY <3>1, <3>2
  <2>6. \A i \in 1..Len(jobs) : i < next => Settled(i)'
    BY <1>2, <1>10, <2>1, <2>2, <2>3
  <2> QED
    BY <1>11, <2>4, <2>5, <2>6 DEF PastInv
<1>16. ASSUME "render" \in raised
       PROVE  out' = {} /\ \A i \in 1..Len(jobs) : i >= pc'[1] => IsText(jobs[i].makes)
  <2>1. out = {} /\ \A i \in 1..Len(jobs) : i >= pc[1] => IsText(jobs[i].makes)
    BY <1>16 DEF PluginsInv, RaisedInv
  <2>2. IsText(m)
    BY <1>1, <1>2, <2>1
  <2> QED
    BY <1>1, <1>2, <1>3, <1>11, <2>1, <2>2
<1> QED
  BY <1>1, <1>11, <1>13, <1>14, <1>15, <1>16

(* A job that goes on: to the next hop, or to the next route.              *)
LEMMA JobGoesOn ==
    ASSUME PluginsInv, Running, jobs' = jobs, raised' = raised, out' = out, read' = read,
           well \subseteq well', bad \subseteq bad', NEW q, NEW h, pc' = <<pc[1], q, h>>,
           q \in 1..Len(Tried(pc[1])), h \in 1..Len(Tried(pc[1])[q]),
           \A s \in 1..(q - 1) : Breaks(pc[1], s) \/ (s = pc[2] /\ pc \in bad'),
           \A k \in 1..(h - 1) : <<pc[1], q, k>> \in well'
    PROVE  PlaceInv' /\ PastInv' /\ ProductInv'
<1>1. PICK n : n = pc[1]
  OBVIOUS
<1>2. /\ jobs # << >> /\ Len(jobs) \in Nat /\ n \in 1..Len(jobs) /\ pc = <<n, pc[2], pc[3]>>
      /\ Needs(jobs, jobs[n].makes) \subseteq out
      /\ RoutesOK(Tried(n), n, jobs[n].makes) /\ pc[2] \in 1..Len(Tried(n))
      /\ pc[3] \in 1..Len(Tried(n)[pc[2]])
  BY <1>1, AtWork
<1>3. \A i : Tried(i)' = Tried(i) /\ (Made(i)' <=> Made(i)) /\ Kind(i)' = Kind(i)
  BY DEF Tried, Made, Kind
<1>4. \A i, r : (Breaks(i, r) => Breaks(i, r)') /\ (Works(i, r) => Works(i, r)')
  BY <1>3 DEF Breaks, Works
<1>5. pc'[1] = n /\ pc'[2] = q /\ pc'[3] = h
  BY <1>1
<1>6. \A s \in 1..(q - 1) : Breaks(n, s)'
  <2>1. PICK was : was = pc[2]
    OBVIOUS
  <2>2. pc \in bad' => Breaks(n, was)'
    <3>1. DOMAIN Tried(n)[pc[2]] = 1..Len(Tried(n)[pc[2]])
      BY <1>2 DEF RoutesOK, RouteOK
    <3>2. pc[3] \in DOMAIN Tried(n)[pc[2]]
      BY <1>2, <3>1
    <3> QED
      BY <1>2, <1>3, <2>1, <3>2 DEF Breaks
  <2> QED
    BY <1>1, <1>4, <2>1, <2>2
<1>7. PlaceInv'
  <2>1. /\ pc' = <<pc'[1], pc'[2], pc'[3]>> /\ pc'[1] \in 1..(Len(jobs') + 1)
        /\ Needs(jobs', jobs'[n].makes) \subseteq out'
        /\ q \in 1..Len(Tried(n)') /\ h \in 1..Len(Tried(n)'[q])
    BY <1>1, <1>2, <1>3, <1>5
  <2>2. \A k \in 1..(h - 1) : <<n, q, k>> \in well'
    BY <1>1
  <2> QED
    BY <1>5, <1>6, <2>1, <2>2 DEF PlaceInv
<1>8. ProductInv'
  BY DEF PluginsInv, ProductInv
<1>9. PastInv'
  <2>1. ASSUME NEW i \in 1..Len(jobs), i < n PROVE Settled(i)'
    <3>1. Settled(i)
      BY <1>1, <2>1 DEF PluginsInv, PastInv
    <3> QED
      BY <1>3, <1>4, <3>1 DEF Settled
  <2>2. ASSUME NEW i \in 1..Len(jobs), i >= n PROVE ~Made(i)'
    BY <1>1, <1>3, <2>2 DEF PluginsInv, PastInv
  <2>3. ASSUME NEW i \in 1..Len(jobs), Made(i)' PROVE Needs(jobs, jobs[i].makes)' \subseteq out'
    BY <1>3, <2>3 DEF PluginsInv, PastInv
  <2> QED
    BY <1>5, <2>1, <2>2, <2>3 DEF PastInv
<1> QED
  BY <1>7, <1>8, <1>9

(* What each step of a job gives, whether the job goes on or ends.         *)
LEMMA RouteBreaks ==
    ASSUME PluginsInv, Running, jobs' = jobs, raised' = raised, well \subseteq well', RouteFails
    PROVE  /\ PlaceInv' /\ PastInv' /\ ProductInv' /\ pc'[1] \in Nat /\ pc'[1] >= pc[1]
           /\ "render" \in raised => /\ out' = {}
                                     /\ \A i \in 1..Len(jobs) : i >= pc'[1] => IsText(jobs[i].makes)
<1>1. PICK n, q : n = pc[1] /\ q = pc[2]
  OBVIOUS
<1>2. /\ n \in 1..Len(jobs) /\ Len(jobs) \in Nat /\ jobs # << >>
      /\ pc = <<n, q, pc[3]>> /\ Routes = Tried(n)
      /\ RoutesOK(Tried(n), n, jobs[n].makes) /\ q \in 1..Len(Tried(n))
      /\ DOMAIN Tried(n) = 1..Len(Tried(n)) /\ pc[3] \in 1..Len(Tried(n)[q])
  BY <1>1, AtWork
<1>3. bad' = bad \cup {pc}
  BY DEF RouteFails
<1>4. \A s \in 1..(q - 1) : Breaks(n, s)
  BY <1>1, <1>2 DEF PluginsInv, PlaceInv
<1>5. CASE q < Len(Routes)
  <2>1. pc' = <<n, q + 1, 1>> /\ out' = out /\ read' = read
    BY <1>1, <1>5 DEF RouteFails
  <2>2. q + 1 \in 1..Len(Tried(n)) /\ 1 \in 1..Len(Tried(n)[q + 1])
    BY <1>2, <1>5 DEF RoutesOK, RouteOK
  <2>3. \A s \in 1..((q + 1) - 1) : Breaks(n, s) \/ (s = q /\ pc \in bad')
    BY <1>2, <1>3, <1>4
  <2>4. 1..(1 - 1) = {}
    OBVIOUS
  <2>5. PlaceInv' /\ PastInv' /\ ProductInv'
    BY <1>1, <1>3, <2>1, <2>2, <2>3, <2>4, JobGoesOn
  <2>6. "render" \in raised => out = {} /\ \A i \in 1..Len(jobs) : i >= pc[1] => IsText(jobs[i].makes)
    BY <1>2 DEF PluginsInv, RaisedInv
  <2> QED
    BY <1>1, <1>2, <2>1, <2>5, <2>6
<1>6. CASE ~(q < Len(Routes))
  <2>1. JobEnds(FALSE)
    BY <1>1, <1>6 DEF RouteFails
  <2>2. ASSUME NEW r \in DOMAIN Tried(n)
        PROVE  \E h \in DOMAIN Tried(n)[r] : <<n, r, h>> \in bad'
    <3>1. CASE r < q
      <4>1. r \in 1..(q - 1)
        BY <1>2, <2>2, <3>1
      <4> QED
        BY <1>3, <1>4, <4>1 DEF Breaks
    <3>2. CASE ~(r < q)
      <4>1. r = q
        BY <1>2, <1>6, <2>2, <3>2 DEF RoutesOK
      <4>2. pc[3] \in DOMAIN Tried(n)[q]
        BY <1>2 DEF RoutesOK, RouteOK
      <4> QED
        BY <1>2, <1>3, <4>1, <4>2
    <3> QED
      BY <3>1, <3>2
  <2>3. bad \subseteq bad'
    BY <1>3
  <2>4. IF FALSE THEN \A h \in DOMAIN Tried(pc[1])[pc[2]] : <<pc[1], pc[2], h>> \in well'
        ELSE \A r \in DOMAIN Tried(pc[1]) : \E h \in DOMAIN Tried(pc[1])[r] : <<pc[1], r, h>> \in bad'
    BY <1>1, <2>2
  <2>5. /\ PlaceInv' /\ PastInv' /\ ProductInv' /\ pc'[1] \in Nat /\ pc'[1] > pc[1]
        /\ "render" \in raised => /\ out' = {}
                                  /\ \A i \in 1..Len(jobs) : i >= pc'[1] => IsText(jobs[i].makes)
    BY <2>1, <2>3, <2>4, JobIsSettled
  <2> QED
    BY <1>1, <1>2, <2>5
<1> QED
  BY <1>5, <1>6

-----------------------------------------------------------------------------
(* The steps.                                                              *)
LEMMA FileStays ==
    ASSUME FileInv, jobs # << >>, UNCHANGED <<programs, ifcOrder, file, jobs>>
    PROVE  FileInv'
<1>1. Kept(file)' = Kept(file)
  BY DEF Kept, Undrawn, PluginOf, Taken, JobsOf, Model
<1>2. (PluginOf(file)' = PluginOf(file)) /\ (TooLarge(file)' <=> TooLarge(file))
  BY DEF PluginOf, Taken, TooLarge
<1> QED
  BY <1>1, <1>2 DEF FileInv

(* The program of the call at hand, of a rendition.                        *)
LEMMA CallAtHand ==
    ASSUME PluginsInv, Running, NEW n, NEW q, NEW h, pc = <<n, q, h>>, ~IsText(jobs[n].makes)
    PROVE  Present(n, q, h) <=> Call.program \in programs \cup {"here"}
<1>1. n = pc[1] /\ q = pc[2] /\ h = pc[3]
  OBVIOUS
<1>2. JobsOK(jobs) /\ n \in 1..Len(jobs) /\ Call = Tried(n)[q][h]
  BY <1>1, AtWork
<1>3. Tried(n) = jobs[n].routes
  BY <1>2, TriedHolds DEF IsText
<1> QED
  BY <1>2, <1>3 DEF Present

(* A call that does not serve its purpose, or cannot be made.              *)
LEMMA FailingStep ==
    ASSUME PluginsInv, Running, RouteFails,
           UNCHANGED <<programs, ifcOrder, file, jobs, holders, owned, well, raised, exceptions>>,
           clean' => clean,
           clean' => Call.program \notin programs \cup {"here"} \/ Now.makes = "clip"
    PROVE  PluginsInv'
<1>1. PICK n, q, h : pc = <<n, q, h>>
  BY AtWork
<1>2. jobs # << >> /\ n \in 1..Len(jobs) /\ Now = jobs[n] /\ n = pc[1] /\ "text" \notin raised
  BY <1>1, AtWork
<1>3. /\ PlaceInv' /\ PastInv' /\ ProductInv' /\ pc'[1] \in Nat /\ pc'[1] >= pc[1]
      /\ "render" \in raised => /\ out' = {}
                                /\ \A i \in 1..Len(jobs) : i >= pc'[1] => IsText(jobs[i].makes)
  BY RouteBreaks
<1>4. FileInv'
  BY <1>2, FileStays DEF PluginsInv
<1>5. RaisedInv'
  BY <1>2, <1>3 DEF PluginsInv, RaisedInv
<1>6. CallInv'
  <2> SUFFICES ASSUME NEW i \in 1..Len(jobs), NEW r \in Nat, NEW k \in Nat, ~IsText(jobs[i].makes)
               PROVE  /\ <<i, r, k>> \in well => Present(i, r, k)
                      /\ clean' /\ jobs[i].makes # "clip" /\ <<i, r, k>> \in bad' => ~Present(i, r, k)
    BY DEF CallInv, Present
  <2>1. /\ <<i, r, k>> \in well => Present(i, r, k)
        /\ clean /\ jobs[i].makes # "clip" /\ <<i, r, k>> \in bad => ~Present(i, r, k)
    BY DEF PluginsInv, CallInv
  <2>2. <<i, r, k>> = pc => i = n /\ r = q /\ k = h
    BY <1>1
  <2>3. clean' /\ jobs[i].makes # "clip" /\ <<i, r, k>> = pc => ~Present(i, r, k)
    BY <1>1, <1>2, <2>2, CallAtHand
  <2>4. bad' = bad \cup {pc}
    BY DEF RouteFails
  <2> QED
    BY <2>1, <2>3, <2>4
<1>7. LeakInv'
  <2>1. pc[1] \in Nat
    BY <1>2
  <2> QED
    BY <1>3, <2>1 DEF PluginsInv, LeakInv
<1> QED
  BY <1>3, <1>4, <1>5, <1>6, <1>7 DEF PluginsInv

LEMMA AbsentStep == PluginsInv /\ Absent => PluginsInv'
<1> SUFFICES ASSUME PluginsInv, Absent PROVE PluginsInv'
  OBVIOUS
<1>1. /\ Running /\ RouteFails
      /\ UNCHANGED <<programs, ifcOrder, file, jobs, holders, owned, well, raised, exceptions, clean>>
      /\ Call.program \notin programs \cup {"here"} \/ Now.makes = "clip"
  BY DEF Absent, Callable, Encodes
<1> QED
  BY <1>1, FailingStep

LEMMA FailStep == PluginsInv /\ Fail => PluginsInv'
<1> SUFFICES ASSUME PluginsInv, Fail PROVE PluginsInv'
  OBVIOUS
<1>1. /\ Running /\ RouteFails /\ ~clean'
      /\ UNCHANGED <<programs, ifcOrder, file, jobs, holders, owned, well, raised, exceptions>>
  BY DEF Fail
<1> QED
  BY <1>1, FailingStep

(* Where a file is and what it has come to, when nothing of it moves.      *)
LEMMA SameProgress ==
    ASSUME PluginsInv, UNCHANGED <<jobs, pc, out, read, well, bad, raised>>
    PROVE  PlaceInv' /\ PastInv' /\ ProductInv'
<1>1. PlaceInv'
  BY DEF PluginsInv, PlaceInv, Breaks, Tried
<1>2. \A i : (Settled(i)' <=> Settled(i)) /\ (Made(i)' <=> Made(i))
  BY DEF Settled, Kind, Made, Works, Breaks, Tried
<1>3. PastInv'
  BY <1>2 DEF PluginsInv, PastInv
<1>4. ProductInv'
  BY DEF PluginsInv, ProductInv
<1> QED
  BY <1>1, <1>3, <1>4

LEMMA ProbeStep == PluginsInv /\ Probe => PluginsInv'
<1> SUFFICES ASSUME PluginsInv, Probe PROVE PluginsInv'
  OBVIOUS
<1>1. /\ UNCHANGED <<programs, ifcOrder, file, jobs, pc, out, read, holders, owned, well, bad, raised, exceptions>>
      /\ clean' => clean
  BY DEF Probe
<1>2. jobs # << >>
  BY AtWork DEF Probe
<1>3. FileInv'
  BY <1>1, <1>2, FileStays DEF PluginsInv
<1>4. PlaceInv' /\ PastInv' /\ ProductInv'
  BY <1>1, SameProgress
<1>5. RaisedInv' /\ LeakInv'
  BY <1>1 DEF PluginsInv, RaisedInv, LeakInv
<1>6. CallInv'
  BY <1>1 DEF PluginsInv, CallInv, Present
<1> QED
  BY <1>3, <1>4, <1>5, <1>6 DEF PluginsInv

LEMMA CloseStep == PluginsInv /\ Close => PluginsInv'
<1> SUFFICES ASSUME PluginsInv, Close PROVE PluginsInv'
  OBVIOUS
<1>1. /\ holders' = holders - owned /\ owned' = 0 /\ jobs' = << >> /\ pc' = <<0, 0, 0>>
      /\ out' = {} /\ read' = {} /\ well' = {} /\ bad' = {} /\ raised' = {}
      /\ ifcOrder' = ifcOrder /\ exceptions' = exceptions
  BY DEF Close
<1>2. FileInv'
  BY <1>1 DEF PluginsInv, FileInv
<1>3. PlaceInv'
  BY <1>1 DEF PlaceInv
<1>4. 1..Len(jobs') = {}
  BY <1>1
<1>5. PastInv' /\ CallInv'
  BY <1>4 DEF PastInv, CallInv
<1>6. ProductInv' /\ RaisedInv'
  BY <1>1 DEF ProductInv, RaisedInv
<1>7. LeakInv'
  BY <1>1 DEF PluginsInv, LeakInv
<1> QED
  BY <1>2, <1>3, <1>5, <1>6, <1>7 DEF PluginsInv

LEMMA ServeStep == PluginsInv /\ Serve => PluginsInv'
<1> SUFFICES ASSUME PluginsInv, Serve PROVE PluginsInv'
  OBVIOUS
<1>1. /\ Running /\ Callable /\ well' = well \cup {pc} /\ (clean' => clean)
      /\ holders' = (IF Detaches THEN holders + 1 ELSE holders)
      /\ owned' = (IF Detaches THEN owned + 1 ELSE owned)
      /\ UNCHANGED <<programs, ifcOrder, file, jobs, bad, raised, exceptions>>
  BY DEF Serve
<1>2. PICK n, q, h : pc = <<n, q, h>>
  BY <1>1, AtWork
<1>3. n = pc[1] /\ q = pc[2] /\ h = pc[3]
  BY <1>2
<1>4. /\ jobs # << >> /\ Len(jobs) \in Nat /\ n \in 1..Len(jobs) /\ Now = jobs[n] /\ "text" \notin raised
      /\ Routes = Tried(n) /\ Call = Tried(n)[q][h] /\ RoutesOK(Tried(n), n, jobs[n].makes)
      /\ q \in 1..Len(Tried(n)) /\ h \in 1..Len(Tried(n)[q])
  BY <1>1, <1>3, AtWork
<1>5. /\ Len(Tried(n)[q]) \in Nat /\ DOMAIN Tried(n)[q] = 1..Len(Tried(n)[q])
      /\ Detaches => n = 1 /\ h = Len(Tried(n)[q])
  <2>1. RouteOK(Tried(n)[q], n, jobs[n].makes)
    BY <1>4 DEF RoutesOK
  <2> QED
    BY <1>4, <2>1 DEF RouteOK, Detaches
<1>6. \A k \in 1..(h - 1) : <<n, q, k>> \in well
  BY <1>3, <1>4 DEF PluginsInv, PlaceInv
<1>7. /\ PlaceInv' /\ PastInv' /\ ProductInv' /\ pc'[1] \in Nat /\ pc'[1] >= n
      /\ Detaches => pc'[1] > n
      /\ "render" \in raised => /\ out' = {}
                                /\ \A i \in 1..Len(jobs) : i >= pc'[1] => IsText(jobs[i].makes)
  <2>1. CASE h < Len(Tried(n)[q])
    <3>1. pc' = <<n, q, h + 1>> /\ out' = out /\ read' = read
      BY <1>3, <1>4, <2>1 DEF Serve
    <3>2. h + 1 \in 1..Len(Tried(n)[q]) /\ ~Detaches
      BY <1>4, <1>5, <2>1
    <3>3. \A k \in 1..((h + 1) - 1) : <<n, q, k>> \in well'
      BY <1>1, <1>2, <1>4, <1>6
    <3>4. \A s \in 1..(q - 1) : Breaks(n, s)
      BY <1>3, <1>4 DEF PluginsInv, PlaceInv
    <3>5. PlaceInv' /\ PastInv' /\ ProductInv'
      BY <1>1, <1>3, <1>4, <3>1, <3>2, <3>3, <3>4, JobGoesOn
    <3>6. "render" \in raised => out = {} /\ \A i \in 1..Len(jobs) : i >= pc[1] => IsText(jobs[i].makes)
      BY <1>4 DEF PluginsInv, RaisedInv
    <3> QED
      BY <1>3, <1>4, <3>1, <3>2, <3>5, <3>6
  <2>2. CASE ~(h < Len(Tried(n)[q]))
    <3>1. JobEnds(TRUE)
      BY <1>3, <1>4, <2>2 DEF Serve
    <3>2. \A k \in DOMAIN Tried(n)[q] : <<n, q, k>> \in well'
      <4> SUFFICES ASSUME NEW k \in 1..Len(Tried(n)[q]) PROVE <<n, q, k>> \in well'
        BY <1>5
      <4>1. k = h \/ k \in 1..(h - 1)
        BY <1>4, <1>5, <2>2
      <4> QED
        BY <1>1, <1>2, <1>6, <4>1
    <3>3. IF TRUE THEN \A k \in DOMAIN Tried(pc[1])[pc[2]] : <<pc[1], pc[2], k>> \in well'
          ELSE \A r \in DOMAIN Tried(pc[1]) : \E k \in DOMAIN Tried(pc[1])[r] : <<pc[1], r, k>> \in bad'
      BY <1>3, <3>2
    <3>4. /\ PlaceInv' /\ PastInv' /\ ProductInv' /\ pc'[1] \in Nat /\ pc'[1] > pc[1]
          /\ "render" \in raised => /\ out' = {}
                                    /\ \A i \in 1..Len(jobs) : i >= pc'[1] => IsText(jobs[i].makes)
      BY <1>1, <3>1, <3>3, JobIsSettled
    <3> QED
      BY <1>3, <1>4, <3>4
  <2> QED
    BY <2>1, <2>2
<1>8. FileInv'
  BY <1>1, <1>4, FileStays DEF PluginsInv
<1>9. RaisedInv'
  BY <1>1, <1>4, <1>7 DEF PluginsInv, RaisedInv
<1>10. CallInv'
  <2> SUFFICES ASSUME NEW i \in 1..Len(jobs), NEW r \in Nat, NEW k \in Nat, ~IsText(jobs[i].makes)
               PROVE  /\ <<i, r, k>> \in well' => Present(i, r, k)
                      /\ clean' /\ jobs[i].makes # "clip" /\ <<i, r, k>> \in bad => ~Present(i, r, k)
    BY <1>1 DEF CallInv, Present
  <2>1. /\ <<i, r, k>> \in well => Present(i, r, k)
        /\ clean /\ jobs[i].makes # "clip" /\ <<i, r, k>> \in bad => ~Present(i, r, k)
    BY DEF PluginsInv, CallInv
  <2>2. <<i, r, k>> = pc => i = n /\ r = q /\ k = h
    BY <1>2
  <2>3. <<i, r, k>> = pc => Present(i, r, k)
    BY <1>1, <1>2, <2>2, CallAtHand DEF Callable
  <2> QED
    BY <1>1, <2>1, <2>3
<1>11. LeakInv'
  BY <1>1, <1>3, <1>4, <1>5, <1>7 DEF PluginsInv, LeakInv
<1> QED
  BY <1>7, <1>8, <1>9, <1>10, <1>11 DEF PluginsInv

LEMMA RaiseStep ==
    ASSUME PluginsInv, Running, ~IsText(Now.makes), Raise
    PROVE  PluginsInv'
<1>1. /\ out' = {} /\ owned' = 0 /\ raised' = raised \cup {"render"} /\ ~clean'
      /\ exceptions' = exceptions + 1 /\ pc' = <<FirstText, 1, 1>>
      /\ UNCHANGED <<programs, ifcOrder, file, jobs, read, holders, well, bad>>
  BY DEF Raise
<1>2. PICK n, first : n = pc[1] /\ first = FirstText
  OBVIOUS
<1>3. /\ jobs # << >> /\ JobsOK(jobs) /\ Len(jobs) \in Nat /\ n \in 1..Len(jobs)
      /\ Now = jobs[n] /\ "text" \notin raised
  BY <1>2, AtWork
<1>4. /\ first \in 1..(Len(jobs) + 1) /\ n < first
      /\ \A i \in 1..Len(jobs) : i >= first <=> IsText(jobs[i].makes)
  BY <1>2, <1>3, TextIsLast
<1>5. pc'[1] = first /\ pc'[2] = 1 /\ pc'[3] = 1 /\ pc' = <<pc'[1], pc'[2], pc'[3]>>
  BY <1>1, <1>2
<1>6. FileInv'
  BY <1>1, <1>3, FileStays DEF PluginsInv
<1>7. PlaceInv'
  <2>1. ASSUME first <= Len(jobs)
        PROVE  /\ Needs(jobs', jobs'[first].makes) \subseteq out'
               /\ 1 \in 1..Len(Tried(first)') /\ 1 \in 1..Len(Tried(first)'[1])
    <3>1. first \in 1..Len(jobs)
      BY <1>3, <1>4, <2>1
    <3>2. Needs(jobs, jobs[first].makes) = {}
      <4>1. JobsOK(jobs)
        BY <1>3
      <4>2. IsText(jobs[first].makes)
        BY <1>4, <3>1
      <4> QED
        BY <3>1, <4>1, <4>2, NeedsOnlyFirst
    <3>3. PICK got : got = out' \cup read'
      OBVIOUS
    <3>4. Tried(first)' = RoutesOf(jobs, jobs[first], got)
      BY <1>1, <3>3 DEF Tried
    <3>5. RoutesOK(Tried(first)', first, jobs[first].makes)
      BY <1>3, <3>1, <3>4, RoutesHold
    <3> QED
      BY <1>1, <3>2, <3>5 DEF RoutesOK, RouteOK
  <2>2. 1..(1 - 1) = {}
    OBVIOUS
  <2> QED
    BY <1>1, <1>4, <1>5, <2>1, <2>2 DEF PlaceInv
<1>8. PastInv'
  <2>1. ASSUME NEW i \in 1..Len(jobs), i < first PROVE Settled(i)'
    <3>1. ~IsText(jobs[i].makes)
      BY <1>3, <1>4, <2>1
    <3>2. Kind(i)' = "render"
      BY <1>1, <3>1 DEF Kind
    <3> QED
      BY <1>1, <3>2 DEF Settled
  <2>2. ASSUME NEW i \in 1..Len(jobs), i >= first PROVE ~Made(i)'
    <3>1. i >= pc[1]
      BY <1>2, <1>3, <1>4, <2>2
    <3>2. ~Made(i)
      BY <3>1 DEF PluginsInv, PastInv
    <3> QED
      BY <1>1, <3>2 DEF Made
  <2>3. ASSUME NEW i \in 1..Len(jobs), Made(i)' PROVE Needs(jobs', jobs'[i].makes) \subseteq out'
    <3>1. jobs[i].makes \in read
      BY <1>1, <2>3 DEF Made
    <3>2. IsText(jobs[i].makes)
      BY <3>1 DEF PluginsInv, ProductInv
    <3> QED
      BY <1>1, <1>3, <3>2, NeedsOnlyFirst
  <2> QED
    BY <1>1, <1>5, <2>1, <2>2, <2>3 DEF PastInv
<1>9. ProductInv'
  BY <1>1 DEF PluginsInv, ProductInv
<1>10. RaisedInv'
  BY <1>1, <1>3, <1>4, <1>5 DEF RaisedInv
<1>11. CallInv'
  BY <1>1 DEF PluginsInv, CallInv, Present
<1>12. LeakInv'
  BY <1>1 DEF PluginsInv, LeakInv
<1> QED
  BY <1>6, <1>7, <1>8, <1>9, <1>10, <1>11, <1>12 DEF PluginsInv

LEMMA MalformedStep == PluginsInv /\ Malformed => PluginsInv'
<1> SUFFICES ASSUME PluginsInv, Malformed PROVE PluginsInv'
  OBVIOUS
<1>1. Running /\ Call.judge = "raises" /\ Raise
  BY DEF Malformed
<1>2. /\ Call = Tried(pc[1])[pc[2]][pc[3]] /\ Now = jobs[pc[1]]
      /\ RoutesOK(Tried(pc[1]), pc[1], jobs[pc[1]].makes)
      /\ pc[2] \in 1..Len(Tried(pc[1])) /\ pc[3] \in 1..Len(Tried(pc[1])[pc[2]])
  BY <1>1, AtWork
<1>3. ~IsText(Now.makes)
  BY <1>1, <1>2 DEF RoutesOK, RouteOK
<1> QED
  BY <1>1, <1>3, RaiseStep

LEMMA DiskStep == PluginsInv /\ DiskRefuses => PluginsInv'
<1> SUFFICES ASSUME PluginsInv, DiskRefuses PROVE PluginsInv'
  OBVIOUS
<1>1. Running
  BY DEF DiskRefuses
<1>2. CASE ~IsText(Now.makes)
  <2>1. Raise
    BY <1>2 DEF DiskRefuses
  <2> QED
    BY <1>1, <1>2, <2>1, RaiseStep
<1>3. CASE IsText(Now.makes) /\ Now.makes # "textpdf"
  <2>1. /\ RouteFails /\ ~clean'
        /\ UNCHANGED <<programs, ifcOrder, file, jobs, holders, owned, well, raised, exceptions>>
    BY <1>3 DEF DiskRefuses
  <2> QED
    BY <1>1, <2>1, FailingStep
<1>4. CASE IsText(Now.makes) /\ Now.makes = "textpdf"
  <2>1. /\ pc' = <<Len(jobs) + 1, 1, 1>> /\ raised' = raised \cup {"text"} /\ ~clean'
        /\ UNCHANGED <<programs, ifcOrder, file, jobs, out, read, holders, owned, well, bad, exceptions>>
    BY <1>4 DEF DiskRefuses
  <2>2. PICK n : n = pc[1]
    OBVIOUS
  <2>3. /\ jobs # << >> /\ JobsOK(jobs) /\ Len(jobs) \in Nat /\ n \in 1..Len(jobs) /\ Now = jobs[n]
    BY <1>1, <2>2, AtWork
  <2>4. pc'[1] = Len(jobs) + 1 /\ pc' = <<pc'[1], pc'[2], pc'[3]>>
    BY <2>1
  <2>5. FileInv'
    BY <2>1, <2>3, FileStays DEF PluginsInv
  <2>6. PlaceInv'
    BY <2>1, <2>3, <2>4 DEF PlaceInv
  <2>7. PastInv'
    <3>1. \A i : Tried(i)' = Tried(i) /\ (Made(i)' <=> Made(i)) /\ Kind(i)' = Kind(i)
      BY <2>1 DEF Tried, Made, Kind
    <3>2. \A i, r : (Breaks(i, r)' <=> Breaks(i, r)) /\ (Works(i, r)' <=> Works(i, r))
      BY <2>1, <3>1 DEF Breaks, Works
    <3>3. ASSUME NEW i \in 1..Len(jobs) PROVE Settled(i)'
      <4>1. CASE Kind(i) = "text"
        BY <2>1, <3>1, <4>1 DEF Settled
      <4>2. CASE Kind(i) # "text"
        <5>1. ~IsText(jobs[i].makes)
          BY <4>2 DEF Kind
        <5>2. i < n
          <6>1. n < i => IsText(jobs[i].makes)
            BY <1>4, <2>3 DEF JobsOK, OrderOK
          <6> QED
            BY <1>4, <2>3, <5>1, <6>1
        <5>3. Settled(i)
          BY <2>2, <5>2 DEF PluginsInv, PastInv
        <5>4. Kind(i) \in raised => Kind(i)' \in raised'
          BY <2>1, <3>1
        <5>5. Needs(jobs, jobs[i].makes)' \subseteq out' <=> Needs(jobs, jobs[i].makes) \subseteq out
          BY <2>1
        <5> QED
          BY <3>1, <3>2, <5>3, <5>4, <5>5 DEF Settled
      <4> QED
        BY <4>1, <4>2
    <3>4. ASSUME NEW i \in 1..Len(jobs) PROVE ~(i >= pc'[1])
      BY <2>3, <2>4
    <3>5. ASSUME NEW i \in 1..Len(jobs), Made(i)' PROVE Needs(jobs, jobs[i].makes)' \subseteq out'
      BY <2>1, <3>1, <3>5 DEF PluginsInv, PastInv
    <3> QED
      BY <2>1, <3>3, <3>4, <3>5 DEF PastInv
  <2>8. ProductInv'
    BY <2>1 DEF PluginsInv, ProductInv
  <2>9. RaisedInv'
    <3>1. \A i \in 1..Len(jobs) : ~(i >= pc'[1])
      BY <2>3, <2>4
    <3> QED
      BY <2>1, <2>4, <3>1 DEF PluginsInv, RaisedInv
  <2>10. CallInv'
    BY <2>1 DEF PluginsInv, CallInv, Present
  <2>11. LeakInv'
    BY <2>1, <2>2, <2>3, <2>4 DEF PluginsInv, LeakInv
  <2> QED
    BY <2>5, <2>6, <2>7, <2>8, <2>9, <2>10, <2>11 DEF PluginsInv
<1> QED
  BY <1>2, <1>3, <1>4

LEMMA TakeStep ==
    ASSUME PluginsInv, NEW f \in Inputs, Take(f)
    PROVE  PluginsInv'
<1>1. /\ jobs = << >> /\ ~TooLarge(f) /\ PluginOf(f) # "nobody"
      /\ file' = f /\ jobs' = Kept(f) /\ pc' = <<1, 1, 1>>
      /\ UNCHANGED <<programs, ifcOrder, out, read, holders, owned, well, bad, clean, raised, exceptions>>
  BY DEF Take
<1>2. /\ out = {} /\ read = {} /\ owned = 0 /\ well = {} /\ bad = {} /\ raised = {} /\ ifcOrder \in IfcOrders
  BY <1>1 DEF PluginsInv, FileInv
<1>3. JobsOK(Kept(f))
  BY <1>1, <1>2, KeptJobs
<1>4. PICK list : list = Kept(f)
  OBVIOUS
<1>5. JobsOK(list) /\ Len(list) \in Nat \ {0} /\ jobs' = list /\ 1 \in 1..Len(list)
  BY <1>1, <1>3, <1>4 DEF JobsOK, OrderOK
<1>6. list # << >>
  BY <1>5
<1>7. FileInv'
  <2>1. Kept(file)' = Kept(f)
    BY <1>1 DEF Kept, Undrawn, PluginOf, Taken, JobsOf, Model
  <2>2. (PluginOf(file)' = PluginOf(f)) /\ (TooLarge(file)' <=> TooLarge(f))
    BY <1>1 DEF PluginOf, Taken, TooLarge
  <2> QED
    BY <1>1, <1>2, <1>4, <1>5, <1>6, <2>1, <2>2 DEF FileInv
<1>8. PlaceInv'
  <2>1. Needs(list, list[1].makes) = {}
    BY <1>5, NeedsOnlyFirst
  <2>2. Tried(1)' = RoutesOf(list, list[1], {})
    BY <1>1, <1>2, <1>5 DEF Tried
  <2>3. RoutesOK(Tried(1)', 1, list[1].makes)
    BY <1>5, <2>2, RoutesHold
  <2>4. 1 \in 1..Len(Tried(1)') /\ 1 \in 1..Len(Tried(1)'[1]) /\ 1..(1 - 1) = {}
    BY <2>3 DEF RoutesOK, RouteOK
  <2>5. pc'[1] = 1 /\ pc'[2] = 1 /\ pc'[3] = 1 /\ pc' = <<pc'[1], pc'[2], pc'[3]>>
    BY <1>1
  <2>6. Needs(jobs', jobs'[1].makes) \subseteq out'
    BY <1>5, <2>1
  <2> QED
    BY <1>5, <2>4, <2>5, <2>6 DEF PlaceInv
<1>9. PastInv'
  <2>1. \A i : ~Made(i)'
    BY <1>1, <1>2 DEF Made
  <2>2. pc'[1] = 1
    BY <1>1
  <2>3. \A i \in 1..Len(jobs') : ~(i < pc'[1])
    BY <1>5, <2>2
  <2> QED
    BY <2>1, <2>3 DEF PastInv
<1>10. ProductInv' /\ RaisedInv'
  BY <1>1, <1>2 DEF ProductInv, RaisedInv
<1>11. CallInv'
  BY <1>1, <1>2 DEF CallInv
<1>12. LeakInv'
  BY <1>1, <1>2 DEF PluginsInv, LeakInv
<1> QED
  BY <1>7, <1>8, <1>9, <1>10, <1>11, <1>12 DEF PluginsInv

-----------------------------------------------------------------------------
(* PluginsInv holds throughout: what a file's jobs are, what the calls of  *)
(* each job that is over came to, and what was detached.                   *)
THEOREM PluginsInvariant == PluginSpec => []PluginsInv
<1>1. PluginInit => PluginsInv
  <2> SUFFICES ASSUME PluginInit PROVE PluginsInv
    OBVIOUS
  <2>1. /\ ifcOrder \in IfcOrders /\ jobs = << >> /\ pc = <<0, 0, 0>> /\ out = {} /\ read = {}
        /\ holders = 0 /\ owned = 0 /\ well = {} /\ bad = {} /\ raised = {} /\ exceptions = 0
    BY DEF PluginInit
  <2>2. 1..Len(jobs) = {}
    BY <2>1
  <2>3. FileInv /\ PlaceInv
    BY <2>1 DEF FileInv, PlaceInv
  <2>4. PastInv /\ CallInv
    BY <2>2 DEF PastInv, CallInv
  <2>5. ProductInv /\ RaisedInv /\ LeakInv
    BY <2>1 DEF ProductInv, RaisedInv, LeakInv
  <2> QED
    BY <2>3, <2>4, <2>5 DEF PluginsInv
<1>2. PluginsInv /\ [PluginNext]_pluginVars => PluginsInv'
  <2> SUFFICES ASSUME PluginsInv, [PluginNext]_pluginVars PROVE PluginsInv'
    OBVIOUS
  <2>1. ASSUME NEW f \in Inputs, Take(f) PROVE PluginsInv'
    BY <2>1, TakeStep
  <2>2. CASE UNCHANGED pluginVars
    <3>1. UNCHANGED <<programs, ifcOrder, file, jobs, pc, out, read, holders, owned, well, bad, clean,
                      raised, exceptions>>
      BY <2>2 DEF pluginVars
    <3>2. FileInv'
      BY <3>1 DEF PluginsInv, FileInv, Kept, Undrawn, JobsOf, Model, PluginOf, Taken, TooLarge
    <3>3. PlaceInv' /\ PastInv' /\ ProductInv'
      BY <3>1, SameProgress
    <3>4. RaisedInv' /\ LeakInv' /\ CallInv'
      BY <3>1 DEF PluginsInv, RaisedInv, LeakInv, CallInv, Present
    <3> QED
      BY <3>2, <3>3, <3>4 DEF PluginsInv
  <2> QED
    BY <2>1, <2>2, AbsentStep, ProbeStep, ServeStep, FailStep, DiskStep, MalformedStep, CloseStep
    DEF PluginNext
<1> QED
  BY <1>1, <1>2, PTL DEF PluginSpec

(* What a job does not make has been tried by every route, each of which    *)
(* met a failure; what it makes is of the first route that worked; and a   *)
(* file that was detached stays on the disk only for an exception.         *)
THEOREM FailuresAreContained == PluginSpec => []FailureIsContained
<1>1. PluginsInv => FailureIsContained
  <2> SUFFICES ASSUME PluginsInv PROVE FailureIsContained
    OBVIOUS
  <2>1. LossIsContained
    <3> SUFFICES ASSUME Done, NEW i \in DOMAIN jobs PROVE Settled(i)
      BY DEF LossIsContained, Settled, Kind
    <3>1. jobs # << >> /\ pc[1] = Len(jobs) + 1
      BY DEF Done
    <3>2. Len(jobs) \in Nat /\ DOMAIN jobs = 1..Len(jobs)
      BY <3>1, JobsHold DEF PluginsInv, JobsOK, OrderOK
    <3> QED
      BY <3>1, <3>2 DEF PluginsInv, PastInv
  <2>2. LeaksAreExceptions
    BY DEF PluginsInv, LeakInv, LeaksAreExceptions
  <2> QED
    BY <2>1, <2>2 DEF FailureIsContained
<1> QED
  BY <1>1, PluginsInvariant, PTL

-----------------------------------------------------------------------------
(* What the report `ready` says: what was made, its routes could make.     *)
LEMMA MadeRuns ==
    ASSUME PluginsInv, Done, NEW i \in 1..Len(jobs), ~IsText(jobs[i].makes), Made(i)
    PROVE  JobRuns(jobs[i]) /\ Needs(jobs, jobs[i].makes) \subseteq out
<1>1. jobs # << >> /\ pc[1] = Len(jobs) + 1
  BY DEF Done
<1>2. JobsOK(jobs) /\ Len(jobs) \in Nat
  BY <1>1, JobsHold DEF PluginsInv, JobsOK, OrderOK
<1>3. /\ Tried(i) = jobs[i].routes
      /\ RoutesOK(Tried(i), i, jobs[i].makes)
  BY <1>2, TriedHolds DEF IsText
<1>4. jobs[i].makes \in out
  BY DEF Made, PluginsInv, ProductInv
<1>5. "render" \notin raised
  BY <1>4 DEF PluginsInv, RaisedInv
<1>6. Needs(jobs, jobs[i].makes) \subseteq out /\ Settled(i)
  BY <1>1, <1>2 DEF PluginsInv, PastInv
<1>7. PICK r \in DOMAIN Tried(i) : Works(i, r)
  BY <1>5, <1>6 DEF Settled, Kind
<1>8. r \in 1..Len(Tried(i)) /\ RouteOK(Tried(i)[r], i, jobs[i].makes)
  BY <1>3, <1>7 DEF RoutesOK
<1>9. RouteRuns(Tried(i)[r])
  <2> SUFFICES ASSUME NEW h \in 1..Len(Tried(i)[r])
               PROVE  Tried(i)[r][h].program \in programs \cup {"here"}
    BY DEF RouteRuns
  <2>1. <<i, r, h>> \in well
    BY <1>7, <1>8 DEF Works, RouteOK
  <2>2. r \in Nat /\ h \in Nat
    BY <1>3, <1>8 DEF RoutesOK, RouteOK
  <2> QED
    BY <1>3, <2>1, <2>2 DEF PluginsInv, CallInv, Present
<1> QED
  BY <1>3, <1>6, <1>8, <1>9 DEF JobRuns

LEMMA NothingUnready ==
    ASSUME PluginsInv, Done, ~IsReady
    PROVE  out = {}
<1>1. jobs # << >>
  BY DEF Done
<1>2. JobsOK(jobs) /\ Tells(jobs, IsReady, Answers(file))
  BY <1>1, JobsHold DEF PluginsInv
<1>3. Len(jobs) \in Nat \ {0} /\ 1 \in 1..Len(jobs)
  BY <1>2 DEF JobsOK, OrderOK
<1>4. SUFFICES ASSUME NEW m \in out PROVE FALSE
  OBVIOUS
<1>5. PICK i \in 1..Len(jobs) : jobs[i].makes = m /\ ~IsText(m)
  BY DEF PluginsInv, ProductInv
<1>6. JobRuns(jobs[i]) /\ Needs(jobs, jobs[i].makes) \subseteq out
  BY <1>5, MadeRuns DEF Made
<1>7. i # 1 /\ jobs[1].makes \in {"pdf", "model"}
  BY <1>2, <1>3, <1>5, <1>6 DEF Tells
<1>8. jobs[1].makes \in out /\ ~IsText(jobs[1].makes)
  BY <1>2, <1>5, <1>6, <1>7, NeedsOnlyFirst DEF IsText
<1>9. JobRuns(jobs[1])
  BY <1>3, <1>8, MadeRuns DEF Made
<1> QED
  BY <1>2, <1>8, <1>9 DEF Tells

LEMMA ReadyShows ==
    ASSUME PluginsInv, Done, IsReady, Answers(file), clean
    PROVE  out # {}
<1>1. jobs # << >> /\ pc[1] = Len(jobs) + 1
  BY DEF Done
<1>2. JobsOK(jobs) /\ Tells(jobs, IsReady, Answers(file))
  BY <1>1, JobsHold DEF PluginsInv
<1>3. Len(jobs) \in Nat \ {0} /\ 1 \in 1..Len(jobs) /\ 1 < pc[1]
  BY <1>1, <1>2 DEF JobsOK, OrderOK
<1>4. ~IsText(jobs[1].makes) /\ jobs[1].makes # "clip" /\ JobRuns(jobs[1])
  BY <1>2 DEF Tells
<1>5. Tried(1) = jobs[1].routes /\ RoutesOK(Tried(1), 1, jobs[1].makes)
  BY <1>2, <1>3, <1>4, TriedHolds DEF IsText
<1>6. Needs(jobs, jobs[1].makes) = {}
  BY <1>2, <1>3, NeedsOnlyFirst
<1>7. raised = {}
  BY DEF PluginsInv, RaisedInv
<1>8. Settled(1)
  BY <1>3 DEF PluginsInv, PastInv
<1>9. PICK r \in 1..Len(Tried(1)) : RouteRuns(Tried(1)[r])
  BY <1>4, <1>5 DEF JobRuns
<1>10. ASSUME ~Made(1) PROVE FALSE
  <2>1. r \in DOMAIN Tried(1) /\ RouteOK(Tried(1)[r], 1, jobs[1].makes)
    BY <1>5 DEF RoutesOK
  <2>2. Breaks(1, r)
    BY <1>6, <1>7, <1>8, <1>10, <2>1 DEF Settled
  <2>3. PICK h \in DOMAIN Tried(1)[r] : <<1, r, h>> \in bad
    BY <2>2 DEF Breaks
  <2>4. h \in 1..Len(Tried(1)[r]) /\ h \in Nat /\ r \in Nat
    BY <1>5, <2>1, <2>3 DEF RouteOK, RoutesOK
  <2>5. ~Present(1, r, h)
    BY <1>3, <1>4, <2>3, <2>4 DEF PluginsInv, CallInv
  <2> QED
    BY <1>5, <1>9, <2>4, <2>5 DEF Present, RouteRuns
<1>11. Made(1)
  BY <1>10
<1> QED
  BY <1>4, <1>11 DEF Made, PluginsInv, ProductInv

(* A file goes to the plugin that its bytes mean, gives what the report    *)
(* said of its format, and is read within the limit, whatever programs the *)
(* deployment has and whichever of them fail.                              *)
THEOREM DispatchIsJust == PluginSpec => []DispatchIsRight
<1>1. PluginsInv => DispatchIsRight
  <2> SUFFICES ASSUME PluginsInv PROVE DispatchIsRight
    OBVIOUS
  <2>1. BytesDecide
    <3> SUFFICES ASSUME jobs # << >>
                 PROVE  /\ file.bytes.by = "sniff" => Taken(file) = file.bytes.mime
                                                      /\ PluginOf(file) \in {file.bytes.mime, "model3d"}
                        /\ file.bytes.by = "magic" /\ file.name = "md" => PluginOf(file) = "markdown"
      BY DEF BytesDecide
    <3>1. file \in Inputs /\ PluginOf(file) # "nobody"
      BY DEF PluginsInv, FileInv
    <3> QED
      BY <3>1, BytesAreDecisive
  <2>2. ReadyIsHonest
    <3>1. Done /\ ~IsReady => out = {}
      BY NothingUnready
    <3>2. Done /\ Answered => Shows
      BY ReadyShows DEF Answered, Answers, Shows
    <3> QED
      BY <3>1, <3>2 DEF ReadyIsHonest
  <2>3. LimitYieldsToContent
    <3> SUFFICES ASSUME Oversize, ~BoundsOwnMemory(PluginOf(file))
                 PROVE  \/ file.bytes.by = "sniff"
                        \/ file.bytes.by = "magic" /\ Curated(file.name) = "none"
      BY DEF LimitYieldsToContent
    <3>1. file \in Inputs /\ ~TooLarge(file)
      BY DEF PluginsInv, FileInv, Oversize
    <3>2. BoundsOwnMemory(ForMime(Detect(Nothing, file.name), file.name))
      BY <3>1 DEF Oversize, TooLarge
    <3> QED
      BY <3>1, <3>2, OutvotedByContent
  <2> QED
    BY <2>1, <2>2, <2>3 DEF DispatchIsRight
<1> QED
  BY <1>1, PluginsInvariant, PTL

-----------------------------------------------------------------------------
(* Induction.  A set of numbers that has 0 and is closed under successor is *)
(* the numbers, for there is a least number outside it otherwise: so facts *)
(* about data by recursion, in sets, are within reach of first-order provers. *)

(* Induction, as a fact about sets of numbers. *)
LEMMA Induction ==
    ASSUME NEW T, T \subseteq Nat, 0 \in T, \A n \in T : n + 1 \in T
    PROVE  T = Nat
<1> SUFFICES ASSUME Nat \ T # {} PROVE FALSE
  OBVIOUS
<1>1. PICK m \in Nat \ T : \A n \in Nat \ T : m <= n
  <2>1. Nat \ T \subseteq Nat
    OBVIOUS
  <2> QED
    BY <2>1, Least
<1>2. m - 1 \in Nat
  BY <1>1
<1>3. m - 1 \in T
  BY <1>1, <1>2
<1> QED
  BY <1>1, <1>2, <1>3

(* What holds at 0, and at each next number up to n, holds at n.           *)
LEMMA UpTo ==
    ASSUME NEW n \in Nat, NEW T, 0 \in T, \A k \in Nat : k \in T /\ k < n => k + 1 \in T
    PROVE  n \in T
<1> DEFINE U == {k \in Nat : k <= n => k \in T}
<1>1. 0 \in U
  OBVIOUS
<1>2. ASSUME NEW k \in U PROVE k + 1 \in U
  <2>1. k \in Nat /\ (k <= n => k \in T)
    OBVIOUS
  <2> QED
    BY <2>1
<1>3. U = Nat
  <2>1. U \subseteq Nat
    OBVIOUS
  <2> HIDE DEF U
  <2> QED
    BY <1>1, <1>2, <2>1, Induction
<1> QED
  BY <1>3

(* The largest of some of the places of a sequence, which a fold takes next. *)
LEMMA LargestIn ==
    ASSUME NEW n \in Nat, NEW s, s \subseteq 1..n, s # {}
    PROVE  Max(s) \in s /\ \A i \in s : i <= Max(s)
<1> DEFINE S == {d \in Nat : n - d \in s}
<1>1. PICK j \in s : j \in 1..n
  OBVIOUS
<1>2. n - j \in Nat /\ n - (n - j) = j
  BY <1>1
<1>3. n - j \in S
  BY <1>1, <1>2
<1>4. PICK m \in S : \A k \in S : m <= k
  <2>1. S \subseteq Nat /\ S # {}
    BY <1>3
  <2> HIDE DEF S
  <2> QED
    BY <2>1, Least
<1>5. ASSUME NEW i \in s PROVE i <= n - m
  <2>1. i \in 1..n /\ n - i \in Nat /\ n - (n - i) = i
    OBVIOUS
  <2>2. m <= n - i
    BY <1>4, <2>1
  <2> QED
    BY <1>4, <2>1, <2>2
<1>6. n - m \in s /\ \A i \in s : n - m >= i
  <2>1. n - m \in s
    BY <1>4
  <2> QED
    BY <1>5, <2>1
<1>7. Max(s) \in s /\ \A i \in s : Max(s) >= i
  BY <1>6 DEF Max
<1> QED
  BY <1>7

(* A fold of a sequence is a function of sets of places, by recursion: with *)
(* base, and the table G of what each step makes of what is there.         *)
FoldTable(n, S, base, G, it) ==
    /\ it \in [SUBSET (1..n) -> S]
    /\ \A s \in SUBSET (1..n) :
           it[s] = IF s = {} THEN base ELSE G[<<Max(s), it[s \ {Max(s)}]>>]

(* There is such a function, whatever the base and the steps.              *)
LEMMA FoldExists ==
    ASSUME NEW n \in Nat, NEW S, NEW base \in S, NEW G \in [(1..n) \X S -> S]
    PROVE  \E it : FoldTable(n, S, base, G, it)
<1> DEFINE Solves(m, it) == FoldTable(m, S, base, G, it)
           T == {m \in Nat : m <= n => \E it : Solves(m, it)}
<1> USE DEF FoldTable
<1>1. 0 \in T
  <2> DEFINE it == [s \in SUBSET (1..0) |-> base]
  <2>1. \A s \in SUBSET (1..0) : s = {}
    OBVIOUS
  <2>2. Solves(0, it)
    BY <2>1
  <2> QED
    BY <2>2
<1>2. ASSUME NEW m \in T PROVE m + 1 \in T
  <2> SUFFICES ASSUME m + 1 <= n PROVE \E it : Solves(m + 1, it)
    <3> HIDE DEF Solves
    <3> QED
      OBVIOUS
  <2>1. PICK it : Solves(m, it)
    <3>1. m \in Nat /\ m <= n
      BY <1>2
    <3> QED
      BY <1>2, <3>1
  <2> DEFINE up == [s \in SUBSET (1..(m + 1)) |->
                      IF m + 1 \in s THEN G[<<m + 1, it[s \ {m + 1}]>>] ELSE it[s]]
  <2>2. m \in Nat /\ m + 1 \in 1..n
    BY <1>2
  <2>3. ASSUME NEW s \in SUBSET (1..(m + 1)) PROVE s \ {m + 1} \in SUBSET (1..m)
    BY <2>2
  <2>4. up \in [SUBSET (1..(m + 1)) -> S]
    <3> SUFFICES ASSUME NEW s \in SUBSET (1..(m + 1))
                 PROVE  (IF m + 1 \in s THEN G[<<m + 1, it[s \ {m + 1}]>>] ELSE it[s]) \in S
      OBVIOUS
    <3>1. CASE m + 1 \in s
      BY <2>1, <2>2, <2>3, <3>1
    <3>2. CASE m + 1 \notin s
      <4>1. s \in SUBSET (1..m)
        BY <2>3, <3>2
      <4> QED
        BY <2>1, <3>2, <4>1
    <3> QED
      BY <3>1, <3>2
  <2>5. ASSUME NEW s \in SUBSET (1..(m + 1))
        PROVE  up[s] = IF s = {} THEN base ELSE G[<<Max(s), up[s \ {Max(s)}]>>]
    <3>1. CASE m + 1 \in s
      <4>1. Max(s) = m + 1
        <5>1. m + 1 \in Nat /\ s \subseteq 1..(m + 1) /\ s # {}
          BY <2>2, <3>1
        <5>2. Max(s) \in s /\ m + 1 <= Max(s)
          BY <3>1, <5>1, LargestIn
        <5>3. Max(s) \in 1..(m + 1)
          BY <5>1, <5>2
        <5> QED
          BY <5>1, <5>2, <5>3
      <4>2. s \ {m + 1} \in SUBSET (1..m) /\ s \ {m + 1} \in SUBSET (1..(m + 1))
        BY <2>3
      <4>3. up[s \ {m + 1}] = it[s \ {m + 1}]
        BY <4>2
      <4> QED
        BY <3>1, <4>1, <4>3
    <3>2. CASE m + 1 \notin s /\ s # {}
      <4>1. s \in SUBSET (1..m)
        BY <2>3, <3>2
      <4>2. Max(s) \in s
        <5>1. m + 1 \in Nat /\ s \subseteq 1..(m + 1) /\ s # {}
          BY <2>2, <3>2
        <5> QED
          BY <5>1, LargestIn
      <4>3. s \ {Max(s)} \in SUBSET (1..(m + 1)) /\ m + 1 \notin s \ {Max(s)}
        BY <3>2
      <4>4. up[s] = it[s] /\ up[s \ {Max(s)}] = it[s \ {Max(s)}]
        BY <3>2, <4>3
      <4> QED
        BY <2>1, <3>2, <4>1, <4>4
    <3>3. CASE s = {}
      <4>1. up[s] = it[s] /\ s \in SUBSET (1..m)
        BY <2>3, <3>3
      <4> QED
        BY <2>1, <3>3, <4>1
    <3> QED
      BY <3>1, <3>2, <3>3
  <2> HIDE DEF up
  <2>6. Solves(m + 1, up)
    BY <2>4, <2>5
  <2> QED
    BY <2>6
<1> HIDE DEF T, FoldTable, Solves
<1>3. T = Nat
  BY <1>1, <1>2, Induction DEF T
<1>4. \E it : Solves(n, it)
  BY <1>3 DEF T
<1> QED
  BY <1>4 DEF Solves

(* A solution of a fold's recursion, along the places of the sequence.     *)
Chain(n, S, base, G, F, end) ==
    /\ F \in [0..n -> S] /\ F[0] = base /\ F[n] = end
    /\ \A i \in 1..n : F[i] = G[<<i, F[i - 1]>>]

Unfolds(n, S, base, G, J) ==
    /\ J[{}] = base
    /\ \A s \in SUBSET (1..n) :
           s # {} /\ J[s \ {Max(s)}] \in S => J[s] = G[<<Max(s), J[s \ {Max(s)}]>>]

(* So a fold comes to its end along the places: F[i] is what it has after i. *)
LEMMA FoldChain ==
    ASSUME NEW n \in Nat, NEW S, NEW base \in S, NEW G \in [(1..n) \X S -> S], NEW J,
           Unfolds(n, S, base, G, J)
    PROVE  \E F : Chain(n, S, base, G, F, J[1..n])
<1>0. /\ J[{}] = base
      /\ \A s \in SUBSET (1..n) :
             s # {} /\ J[s \ {Max(s)}] \in S => J[s] = G[<<Max(s), J[s \ {Max(s)}]>>]
  BY DEF Unfolds
<1>1. ASSUME NEW i \in 1..n, J[1..(i - 1)] \in S
      PROVE  J[1..i] = G[<<i, J[1..(i - 1)]>>] /\ J[1..i] \in S
  <2>1. i \in Nat /\ 1..i \subseteq 1..n /\ 1..i \in SUBSET (1..n) /\ i \in 1..i
    OBVIOUS
  <2>2. Max(1..i) \in 1..i /\ i <= Max(1..i)
    BY <2>1, LargestIn
  <2>3. Max(1..i) = i
    BY <2>2
  <2>4. (1..i) \ {i} = 1..(i - 1)
    OBVIOUS
  <2>5. J[1..i] = G[<<i, J[1..(i - 1)]>>]
    BY <1>0, <1>1, <2>1, <2>3, <2>4
  <2> QED
    BY <1>1, <2>5
<1> DEFINE T == {i \in Nat : i <= n => J[1..i] \in S}
<1>2. 0 \in T
  <2>1. 1..0 = {}
    OBVIOUS
  <2> QED
    BY <1>0, <2>1
<1>3. ASSUME NEW i \in T PROVE i + 1 \in T
  <2> SUFFICES ASSUME i + 1 <= n PROVE J[1..(i + 1)] \in S
    OBVIOUS
  <2>1. i + 1 \in 1..n /\ (i + 1) - 1 = i /\ J[1..i] \in S
    BY <1>3
  <2> QED
    BY <1>1, <2>1
<1>4. T = Nat
  <2>1. T \subseteq Nat
    OBVIOUS
  <2> HIDE DEF T
  <2> QED
    BY <1>2, <1>3, <2>1, Induction
<1> DEFINE F == [i \in 0..n |-> J[1..i]]
<1>5. \A i \in 0..n : J[1..i] \in S
  BY <1>4
<1>6. F[0] = base
  <2>1. 1..0 = {}
    OBVIOUS
  <2> QED
    BY <1>0, <2>1
<1>7. ASSUME NEW i \in 1..n PROVE F[i] = G[<<i, F[i - 1]>>]
  <2>1. i - 1 \in 0..n /\ i \in 0..n
    OBVIOUS
  <2> QED
    BY <1>1, <1>5, <2>1
<1>8. F \in [0..n -> S] /\ F[n] = J[1..n]
  BY <1>5
<1> HIDE DEF F
<1>9. Chain(n, S, base, G, F, J[1..n])
  BY <1>6, <1>7, <1>8 DEF Chain
<1> QED
  BY <1>9

-----------------------------------------------------------------------------
(* Texts: their letters, and how long sequences of them are.               *)

Text == Seq(Character)
Fits(ss, n) == ss \in Seq(Text) /\ \A i \in 1..Len(ss) : Len(ss[i]) <= n

(* A letter of a text is what one of its places has, and is no line break. *)
LEMMA LettersOf ==
    ASSUME NEW s \in Text
    PROVE  \A c : c \in Letters(s) <=> c # Break /\ \E i \in 1..Len(s) : s[i] = c
BY LenProperties DEF Letters, Text

(* The letters of texts are those of each.                                 *)
LEMMA AllLettersOf ==
    ASSUME NEW ss \in Seq(Text)
    PROVE  \A c : c \in AllLetters(ss) <=> \E i \in 1..Len(ss) : c \in Letters(ss[i])
BY LenProperties DEF AllLetters

(* Two texts, one after the other.                                         *)
LEMMA ConcatLetters ==
    ASSUME NEW s \in Text, NEW t \in Text
    PROVE  s \o t \in Text /\ Len(s \o t) = Len(s) + Len(t) /\ Letters(s \o t) = Letters(s) \cup Letters(t)
<1>1. Len(s) \in Nat /\ Len(t) \in Nat
  BY LenProperties DEF Text
<1>2. /\ s \o t \in Text /\ Len(s \o t) = Len(s) + Len(t)
      /\ \A i \in 1..(Len(s) + Len(t)) : (s \o t)[i] = IF i <= Len(s) THEN s[i] ELSE t[i - Len(s)]
  BY ConcatProperties DEF Text
<1>3. ASSUME NEW c \in Letters(s \o t) PROVE c \in Letters(s) \cup Letters(t)
  <2>1. PICK i \in 1..(Len(s) + Len(t)) : (s \o t)[i] = c /\ c # Break
    BY <1>2, LettersOf
  <2>2. IF i <= Len(s) THEN i \in 1..Len(s) ELSE i - Len(s) \in 1..Len(t)
    BY <1>1
  <2> QED
    BY <1>2, <2>1, <2>2, LettersOf
<1>4. ASSUME NEW c \in Letters(s) PROVE c \in Letters(s \o t)
  <2>1. PICK i \in 1..Len(s) : s[i] = c /\ c # Break
    BY LettersOf
  <2>2. i \in 1..(Len(s) + Len(t)) /\ (s \o t)[i] = c
    BY <1>1, <1>2, <2>1
  <2> QED
    BY <1>2, <2>1, <2>2, LettersOf
<1>5. ASSUME NEW c \in Letters(t) PROVE c \in Letters(s \o t)
  <2>1. PICK i \in 1..Len(t) : t[i] = c /\ c # Break
    BY LettersOf
  <2>2. Len(s) + i \in 1..(Len(s) + Len(t)) /\ ~(Len(s) + i <= Len(s)) /\ (Len(s) + i) - Len(s) = i
    BY <1>1
  <2>3. (s \o t)[Len(s) + i] = c
    BY <1>2, <2>1, <2>2
  <2> QED
    BY <1>2, <2>1, <2>2, <2>3, LettersOf
<1> QED
  BY <1>2, <1>3, <1>4, <1>5

(* Two sequences of texts, one after the other: no text gets longer.       *)
LEMMA ConcatTexts ==
    ASSUME NEW ss \in Seq(Text), NEW tt \in Seq(Text)
    PROVE  /\ ss \o tt \in Seq(Text) /\ AllLetters(ss \o tt) = AllLetters(ss) \cup AllLetters(tt)
           /\ \A n : Fits(ss, n) /\ Fits(tt, n) => Fits(ss \o tt, n)
<1>1. Len(ss) \in Nat /\ Len(tt) \in Nat
  BY LenProperties
<1>2. /\ ss \o tt \in Seq(Text) /\ Len(ss \o tt) = Len(ss) + Len(tt)
      /\ \A i \in 1..(Len(ss) + Len(tt)) : (ss \o tt)[i] = IF i <= Len(ss) THEN ss[i] ELSE tt[i - Len(ss)]
  BY ConcatProperties
<1>3. ASSUME NEW c \in AllLetters(ss \o tt) PROVE c \in AllLetters(ss) \cup AllLetters(tt)
  <2>1. PICK i \in 1..(Len(ss) + Len(tt)) : c \in Letters((ss \o tt)[i])
    BY <1>2, AllLettersOf
  <2>2. IF i <= Len(ss) THEN i \in 1..Len(ss) ELSE i - Len(ss) \in 1..Len(tt)
    BY <1>1
  <2> QED
    BY <1>2, <2>1, <2>2, AllLettersOf
<1>4. ASSUME NEW c \in AllLetters(ss) PROVE c \in AllLetters(ss \o tt)
  <2>1. PICK i \in 1..Len(ss) : c \in Letters(ss[i])
    BY AllLettersOf
  <2>2. i \in 1..(Len(ss) + Len(tt)) /\ (ss \o tt)[i] = ss[i]
    BY <1>1, <1>2
  <2> QED
    BY <1>2, <2>1, <2>2, AllLettersOf
<1>5. ASSUME NEW c \in AllLetters(tt) PROVE c \in AllLetters(ss \o tt)
  <2>1. PICK i \in 1..Len(tt) : c \in Letters(tt[i])
    BY AllLettersOf
  <2>2. Len(ss) + i \in 1..(Len(ss) + Len(tt)) /\ ~(Len(ss) + i <= Len(ss)) /\ (Len(ss) + i) - Len(ss) = i
    BY <1>1
  <2>3. (ss \o tt)[Len(ss) + i] = tt[i]
    BY <1>2, <2>2
  <2> QED
    BY <1>2, <2>1, <2>2, <2>3, AllLettersOf
<1>6. ASSUME NEW n, Fits(ss, n), Fits(tt, n) PROVE Fits(ss \o tt, n)
  <2> SUFFICES ASSUME NEW i \in 1..(Len(ss) + Len(tt)) PROVE Len((ss \o tt)[i]) <= n
    BY <1>2 DEF Fits
  <2>1. IF i <= Len(ss) THEN i \in 1..Len(ss) ELSE i - Len(ss) \in 1..Len(tt)
    BY <1>1
  <2> QED
    BY <1>2, <1>6, <2>1 DEF Fits
<1> QED
  BY <1>2, <1>3, <1>4, <1>5, <1>6

(* A single text.                                                          *)
LEMMA OneText ==
    ASSUME NEW s \in Text
    PROVE  /\ <<s>> \in Seq(Text) /\ Len(<<s>>) = 1 /\ <<s>>[1] = s
           /\ AllLetters(<<s>>) = Letters(s) /\ \A n : Len(s) <= n => Fits(<<s>>, n)
<1>1. <<s>> \in Seq(Text) /\ Len(<<s>>) = 1 /\ <<s>>[1] = s
  OBVIOUS
<1> DEFINE one == <<s>>
<1> HIDE DEF one
<1>2. one \in Seq(Text) /\ Len(one) = 1 /\ one[1] = s /\ 1..1 = {1}
  BY <1>1 DEF one
<1>3. AllLetters(one) = Letters(s)
  BY <1>2, AllLettersOf
<1>4. \A n : Len(s) <= n => Fits(one, n)
  BY <1>2 DEF Fits
<1> QED
  BY <1>1, <1>3, <1>4 DEF one

(* None at all.                                                            *)
LEMMA NoText == << >> \in Seq(Text) /\ AllLetters(<< >>) = {} /\ (\A n : Fits(<< >>, n)) /\ << >> \in Text
                /\ Letters(<< >>) = {} /\ Len(<< >>) = 0
<1>1. << >> \in Seq(Text) /\ << >> \in Text /\ Len(<< >>) = 0
  BY EmptySeq DEF Text
<1>2. 1..0 = {}
  OBVIOUS
<1>3. AllLetters(<< >>) = {} /\ Letters(<< >>) = {}
  BY <1>1, <1>2, AllLettersOf, LettersOf
<1>4. \A n : Fits(<< >>, n)
  BY <1>1, <1>2 DEF Fits
<1> QED
  BY <1>1, <1>3, <1>4

(* One text more.                                                          *)
LEMMA AppendedText ==
    ASSUME NEW ss \in Seq(Text), NEW s \in Text
    PROVE  /\ Append(ss, s) \in Seq(Text) /\ AllLetters(Append(ss, s)) = AllLetters(ss) \cup Letters(s)
           /\ \A n : Fits(ss, n) /\ Len(s) <= n => Fits(Append(ss, s), n)
<1>1. Append(ss, s) = ss \o <<s>>
  BY AppendIsConcat
<1>2. <<s>> \in Seq(Text) /\ AllLetters(<<s>>) = Letters(s) /\ \A n : Len(s) <= n => Fits(<<s>>, n)
  BY OneText
<1> QED
  BY <1>1, <1>2, ConcatTexts

(* What is in hand is put away, unless it is empty.                        *)
LEMMA FlushedText ==
    ASSUME NEW ss \in Seq(Text), NEW s \in Text
    PROVE  /\ Flushed(ss, s) \in Seq(Text) /\ AllLetters(Flushed(ss, s)) = AllLetters(ss) \cup Letters(s)
           /\ \A n : Fits(ss, n) /\ Len(s) <= n => Fits(Flushed(ss, s), n)
<1>1. CASE s = << >>
  BY <1>1, NoText DEF Flushed
<1>2. CASE s # << >>
  BY <1>2, AppendedText DEF Flushed
<1> QED
  BY <1>1, <1>2

Blank(s) == s \in Text /\ Letters(s) = {}
(* Two texts with line breaks between them, which are no letters.          *)
LEMMA JoinedText ==
    ASSUME NEW s \in Text, NEW t \in Text, NEW by, Blank(by)
    PROVE  /\ Joined(s, by, t) \in Text /\ Letters(Joined(s, by, t)) = Letters(s) \cup Letters(t)
           /\ Len(Joined(s, by, t)) = IF s = << >> THEN Len(t) ELSE Len(s) + Len(by) + Len(t)
<1>1. CASE s = << >>
  BY <1>1, NoText DEF Joined
<1>2. CASE s # << >>
  <2>1. s \o by \in Text /\ Len(s \o by) = Len(s) + Len(by) /\ Letters(s \o by) = Letters(s)
    BY ConcatLetters DEF Blank
  <2>2. /\ (s \o by) \o t \in Text /\ Len((s \o by) \o t) = Len(s) + Len(by) + Len(t)
        /\ Letters((s \o by) \o t) = Letters(s) \cup Letters(t)
    BY <2>1, ConcatLetters
  <2> QED
    BY <1>2, <2>2 DEF Joined
<1> QED
  BY <1>1, <1>2

(* The two separators of the chunker are blank.                            *)
LEMMA BreaksOnly == Blank(<<Break>>) /\ Len(<<Break>>) = 1 /\ Blank(<<Break, Break>>) /\ Len(<<Break, Break>>) = 2
<1>1. PICK one : one = <<Break>>
  OBVIOUS
<1>2. PICK two : two = <<Break, Break>>
  OBVIOUS
<1>3. one \in Text /\ Len(one) = 1 /\ \A i \in 1..1 : one[i] = Break
  BY <1>1 DEF Text, Break, Character
<1>4. two \in Text /\ Len(two) = 2 /\ \A i \in 1..2 : two[i] = Break
  BY <1>2 DEF Text, Break, Character
<1>5. Letters(one) = {} /\ Letters(two) = {}
  BY <1>3, <1>4, LettersOf
<1> QED
  BY <1>1, <1>2, <1>3, <1>4, <1>5 DEF Blank

(* A stretch of a text has its letters. *)
LEMMA StretchOf ==
    ASSUME NEW s \in Text, NEW a \in Nat \ {0}, NEW b \in Nat, b <= Len(s)
    PROVE  /\ SubSeq(s, a, b) \in Text
           /\ Len(SubSeq(s, a, b)) = IF a <= b THEN b - a + 1 ELSE 0
           /\ \A c : c \in Letters(SubSeq(s, a, b)) <=> c # Break /\ \E i \in a..b : s[i] = c
<1>1. Len(s) \in Nat /\ \A i \in 1..Len(s) : s[i] \in Character
  BY LenProperties, ElementOfSeq DEF Text
<1>2. \A i \in a..b : s[i] \in Character
  BY <1>1
<1>3. /\ SubSeq(s, a, b) \in Text
      /\ Len(SubSeq(s, a, b)) = IF a <= b THEN b - a + 1 ELSE 0
      /\ \A i \in 1..(b - a + 1) : SubSeq(s, a, b)[i] = s[a + i - 1]
  BY <1>2, SubSeqProperties DEF Text
<1>4. ASSUME NEW c \in Letters(SubSeq(s, a, b)) PROVE c # Break /\ \E i \in a..b : s[i] = c
  <2>1. PICK i \in 1..Len(SubSeq(s, a, b)) : SubSeq(s, a, b)[i] = c /\ c # Break
    BY <1>3, LettersOf
  <2>2. i \in 1..(b - a + 1) /\ a + i - 1 \in a..b
    BY <1>3
  <2> QED
    BY <1>3, <2>1, <2>2
<1>5. ASSUME NEW c, c # Break, NEW i \in a..b, s[i] = c PROVE c \in Letters(SubSeq(s, a, b))
  <2>1. i - a + 1 \in 1..(b - a + 1) /\ a + (i - a + 1) - 1 = i /\ a <= b
    OBVIOUS
  <2>2. i - a + 1 \in 1..Len(SubSeq(s, a, b)) /\ SubSeq(s, a, b)[i - a + 1] = c
    BY <1>3, <1>5, <2>1
  <2> QED
    BY <1>3, <1>5, <2>2, LettersOf
<1> QED
  BY <1>3, <1>4, <1>5

(* Strip takes line breaks off both ends, and no letter.                   *)
LEMMA StrippedText ==
    ASSUME NEW s \in Text
    PROVE  Strip(s) \in Text /\ Len(Strip(s)) <= Len(s) /\ Letters(Strip(s)) = Letters(s)
<1> DEFINE letters == {i \in DOMAIN s : IsLetter(s[i])}
           first == CHOOSE i \in letters : \A j \in letters : i <= j
           last == CHOOSE i \in letters : \A j \in letters : i >= j
<1>1. Len(s) \in Nat /\ DOMAIN s = 1..Len(s)
  BY LenProperties DEF Text
<1>2. \A c : c \in Letters(s) <=> \E i \in letters : s[i] = c
  BY <1>1, LettersOf DEF IsLetter
<1>3. Strip(s) = IF letters = {} THEN << >> ELSE SubSeq(s, first, last)
  BY DEF Strip
<1>4. letters \subseteq 1..Len(s)
  BY <1>1
<1> HIDE DEF letters
<1>5. CASE letters = {}
  BY <1>1, <1>2, <1>3, <1>5, NoText
<1>6. CASE letters # {}
  <2>1. first \in letters /\ \A j \in letters : first <= j
    <3>1. letters \subseteq Nat
      BY <1>4
    <3>2. \E i \in letters : \A j \in letters : i <= j
      BY <1>6, <3>1, Least
    <3> QED
      BY <3>2
  <2>2. last \in letters /\ \A j \in letters : last >= j
    <3>1. Max(letters) \in letters /\ \A j \in letters : j <= Max(letters)
      BY <1>1, <1>4, <1>6, LargestIn
    <3>2. \A j \in letters : Max(letters) >= j
      BY <1>4, <3>1
    <3> QED
      BY <3>1, <3>2
  <2> HIDE DEF first, last
  <2>3. first \in 1..Len(s) /\ last \in 1..Len(s) /\ first <= last /\ letters \subseteq first..last
    BY <1>1, <1>4, <2>1, <2>2
  <2>4. /\ SubSeq(s, first, last) \in Text
        /\ Len(SubSeq(s, first, last)) = last - first + 1
        /\ \A c : c \in Letters(SubSeq(s, first, last)) <=> c # Break /\ \E i \in first..last : s[i] = c
    BY <1>1, <2>3, StretchOf
  <2>5. Len(Strip(s)) <= Len(s)
    BY <1>1, <1>3, <1>6, <2>3, <2>4
  <2>6. ASSUME NEW c PROVE c \in Letters(SubSeq(s, first, last)) <=> c \in Letters(s)
    <3>1. ASSUME c \in Letters(s) PROVE c \in Letters(SubSeq(s, first, last))
      <4>1. c # Break
        BY <3>1, LettersOf
      <4> QED
        BY <1>2, <2>3, <2>4, <3>1, <4>1
    <3>2. ASSUME c \in Letters(SubSeq(s, first, last)) PROVE c \in Letters(s)
      <4>1. PICK i \in first..last : s[i] = c /\ c # Break
        BY <2>4, <3>2
      <4>2. i \in 1..Len(s)
        BY <1>1, <2>3
      <4> QED
        BY <4>1, <4>2, LettersOf
    <3> QED
      BY <3>1, <3>2
  <2> QED
    BY <1>3, <1>6, <2>4, <2>5, <2>6
<1> QED
  BY <1>5, <1>6

(* The tail that is carried over is no longer than the overlap.  *)
LEMMA CarriedText ==
    ASSUME NEW buf \in Text, Len(buf) >= Overlap
    PROVE  Carried(buf) \in Text /\ Len(Carried(buf)) <= Overlap
<1> DEFINE raw == SubSeq(buf, Len(buf) - Overlap + 1, Len(buf))
           breaks == {i \in DOMAIN raw : raw[i] = Break}
           first == CHOOSE i \in breaks : \A j \in breaks : i <= j
<1>1. Len(buf) \in Nat /\ Overlap \in Nat
  BY LenProperties, IndexingAssumption DEF Text
<1>2. raw \in Text /\ Len(raw) = Overlap
  <2>1. Len(buf) - Overlap + 1 \in Nat \ {0}
    BY <1>1
  <2>2. /\ raw \in Text
        /\ Len(raw) = IF Len(buf) - Overlap + 1 <= Len(buf) THEN Len(buf) - (Len(buf) - Overlap + 1) + 1 ELSE 0
    BY <1>1, <2>1, StretchOf
  <2> QED
    BY <1>1, <2>2
<1>3. Carried(buf) = IF breaks = {} THEN raw ELSE SubSeq(raw, first + 1, Len(raw))
  BY DEF Carried
<1>4. breaks \subseteq 1..Overlap
  BY <1>2, LenProperties DEF Text
<1> HIDE DEF raw, breaks
<1>5. CASE breaks = {}
  BY <1>1, <1>2, <1>3, <1>5
<1>6. CASE breaks # {}
  <2>1. breaks \subseteq Nat
    BY <1>1, <1>4
  <2>2. \E i \in breaks : \A j \in breaks : i <= j
    BY <1>6, <2>1, Least
  <2>3. first \in 1..Overlap
    BY <1>4, <2>2
  <2> HIDE DEF first
  <2>4. first + 1 \in Nat \ {0}
    BY <1>1, <2>3
  <2>5. /\ SubSeq(raw, first + 1, Len(raw)) \in Text
        /\ Len(SubSeq(raw, first + 1, Len(raw))) = IF first + 1 <= Overlap THEN Overlap - (first + 1) + 1 ELSE 0
    BY <1>1, <1>2, <2>4, StretchOf
  <2> QED
    BY <1>1, <1>3, <1>6, <2>3, <2>5
<1> QED
  BY <1>5, <1>6

-----------------------------------------------------------------------------
(* The chunker.  A fold is followed along the places of its sequence: what *)
(* it has after each is of the type that its step keeps, and has whatever of *)
(* the sequence went in (Gathering).                                       *)

(* What each step takes in, and no step lets go of, is there at the end.   *)
LEMMA Gathering ==
    ASSUME NEW n \in Nat, NEW has, NEW of, \A i \in 1..n : has[i - 1] \cup of[i] \subseteq has[i]
    PROVE  \A i \in 1..n : of[i] \subseteq has[n]
<1> DEFINE T == {k \in Nat : k <= n => \A i \in 1..k : of[i] \subseteq has[k]}
<1>1. 0 \in T
  OBVIOUS
<1>2. ASSUME NEW k \in T PROVE k + 1 \in T
  <2> SUFFICES ASSUME k + 1 <= n, NEW i \in 1..(k + 1) PROVE of[i] \subseteq has[k + 1]
    OBVIOUS
  <2>1. k \in Nat /\ k + 1 \in 1..n /\ (k + 1) - 1 = k /\ \A j \in 1..k : of[j] \subseteq has[k]
    BY <1>2
  <2>2. has[k] \cup of[k + 1] \subseteq has[k + 1]
    BY <2>1
  <2>3. i \in 1..k \/ i = k + 1
    BY <2>1
  <2> QED
    BY <2>1, <2>2, <2>3
<1>3. T = Nat
  <2>1. T \subseteq Nat
    OBVIOUS
  <2> HIDE DEF T
  <2> QED
    BY <1>1, <1>2, <2>1, Induction
<1> QED
  BY <1>3

(* The budget of a piece leaves room for a tail and its separator.         *)
LEMMA Budget == Target \in Nat /\ Overlap \in Nat /\ BlockLimit \in Nat \ {0} /\ BlockLimit + Overlap + 2 = Target
BY IndexingAssumption DEF BlockLimit

(* Packing: what chunk_markdown has after some of its pieces. *)
Packed == {acc \in [chunks : Seq(Text), buf : Text] : Fits(acc.chunks, Target) /\ Len(acc.buf) <= Target}
InPacked(acc) == AllLetters(acc.chunks) \cup Letters(acc.buf)
NoChunk == [chunks |-> << >>, buf |-> << >>]

(* One piece more: the chunks still fit, with or without a tail carried    *)
(* over, and no letter is lost.                                            *)
LEMMA PieceStep ==
    ASSUME NEW acc \in Packed, NEW piece \in Text, Len(piece) <= BlockLimit
    PROVE  AddPiece(acc, piece) \in Packed /\ InPacked(acc) \cup Letters(piece) \subseteq InPacked(AddPiece(acc, piece))
<1> DEFINE gap == <<Break, Break>>
           candidate == Joined(acc.buf, gap, piece)
           tail == Carried(acc.buf)
           next == Strip(Joined(tail, gap, piece))
           full == acc.buf # << >> /\ Len(candidate) > Target
<1>1. acc.chunks \in Seq(Text) /\ acc.buf \in Text /\ Fits(acc.chunks, Target) /\ Len(acc.buf) <= Target
  BY DEF Packed
<1>2. Len(acc.buf) \in Nat /\ Len(piece) \in Nat
  BY <1>1, LenProperties DEF Text
<1>4. AddPiece(acc, piece) =
          IF full THEN [chunks |-> Append(acc.chunks, acc.buf), buf |-> next]
          ELSE [chunks |-> acc.chunks, buf |-> candidate]
  BY DEF AddPiece
<1>a. Blank(gap) /\ Len(gap) = 2
  BY BreaksOnly
<1> HIDE DEF gap, next
<1>3. /\ candidate \in Text /\ Letters(candidate) = Letters(acc.buf) \cup Letters(piece)
      /\ Len(candidate) = IF acc.buf = << >> THEN Len(piece) ELSE Len(acc.buf) + Len(gap) + Len(piece)
  BY <1>1, <1>a, JoinedText
<1> HIDE DEF candidate
<1>5. CASE full
  <2>1. Len(acc.buf) >= Overlap
    BY <1>2, <1>3, <1>5, <1>a, Budget
  <2>2. tail \in Text /\ Len(tail) <= Overlap
    BY <1>1, <2>1, CarriedText
  <2>3. Len(tail) \in Nat
    BY <2>2, LenProperties DEF Text
  <2> HIDE DEF tail
  <2>4. /\ Joined(tail, gap, piece) \in Text
        /\ Letters(Joined(tail, gap, piece)) = Letters(tail) \cup Letters(piece)
        /\ Len(Joined(tail, gap, piece)) =
              IF tail = << >> THEN Len(piece) ELSE Len(tail) + Len(gap) + Len(piece)
    BY <1>a, <2>2, JoinedText
  <2>5. Len(Joined(tail, gap, piece)) <= Target
    BY <1>2, <1>a, <2>2, <2>3, <2>4, Budget
  <2>6. /\ next \in Text /\ Len(next) <= Len(Joined(tail, gap, piece))
        /\ Letters(next) = Letters(tail) \cup Letters(piece)
    BY <2>4, StrippedText DEF next
  <2>7. Len(next) <= Target
    <3>1. Len(next) \in Nat /\ Len(Joined(tail, gap, piece)) \in Nat
      BY <2>4, <2>6, LenProperties DEF Text
    <3> QED
      BY <2>5, <2>6, <3>1, Budget
  <2>8. /\ Append(acc.chunks, acc.buf) \in Seq(Text) /\ Fits(Append(acc.chunks, acc.buf), Target)
        /\ AllLetters(Append(acc.chunks, acc.buf)) = AllLetters(acc.chunks) \cup Letters(acc.buf)
    BY <1>1, AppendedText
  <2> DEFINE to == [chunks |-> Append(acc.chunks, acc.buf), buf |-> next]
  <2>9. to \in Packed
    BY <2>6, <2>7, <2>8 DEF Packed
  <2>10. InPacked(acc) \cup Letters(piece) \subseteq InPacked(to)
    BY <2>6, <2>8 DEF InPacked
  <2> QED
    BY <1>4, <1>5, <2>9, <2>10
<1>6. CASE ~full
  <2>1. Len(candidate) <= Target
    <3>1. Len(candidate) \in Nat
      BY <1>3, LenProperties DEF Text
    <3> QED
      BY <1>2, <1>3, <1>6, <1>a, <3>1, Budget
  <2> DEFINE to == [chunks |-> acc.chunks, buf |-> candidate]
  <2>2. to \in Packed
    BY <1>1, <1>3, <2>1 DEF Packed
  <2>3. InPacked(acc) \cup Letters(piece) \subseteq InPacked(to)
    BY <1>3 DEF InPacked
  <2> QED
    BY <1>4, <1>6, <2>2, <2>3
<1> QED
  BY <1>5, <1>6

(* All pieces: the chunks fit, and the letters of every piece are there.   *)
LEMMA Packing ==
    ASSUME NEW pieces, Fits(pieces, BlockLimit)
    PROVE  LET end == FoldLeft(AddPiece, NoChunk, pieces)
           IN  end \in Packed /\ AllLetters(pieces) \subseteq InPacked(end)
<1> DEFINE n == Len(pieces)
           Solves(J) == J = [s \in SUBSET DOMAIN pieces |->
                               IF s = {} THEN NoChunk ELSE AddPiece(J[s \ {Max(s)}], pieces[Max(s)])]
           J == CHOOSE J : Solves(J)
           G == [p \in (1..n) \X Packed |-> AddPiece(p[2], pieces[p[1]])]
<1>1. n \in Nat /\ DOMAIN pieces = 1..n /\ \A i \in 1..n : pieces[i] \in Text /\ Len(pieces[i]) <= BlockLimit
  BY LenProperties, ElementOfSeq DEF Fits
<1>2. NoChunk \in Packed
  BY NoText, Budget DEF Packed, NoChunk
<1>3. G \in [(1..n) \X Packed -> Packed] /\ \A i \in 1..n, acc \in Packed : G[<<i, acc>>] = AddPiece(acc, pieces[i])
  <2>1. \A p \in (1..n) \X Packed : AddPiece(p[2], pieces[p[1]]) \in Packed
    BY <1>1, PieceStep
  <2> QED
    BY <2>1
<1> HIDE DEF G, n
<1>4. \E K : Solves(K)
  <2>0. \E K : FoldTable(n, Packed, NoChunk, G, K)
    <3>1. n \in Nat /\ G \in [(1..n) \X Packed -> Packed]
      BY <1>1, <1>3
    <3> QED
      BY <1>2, <3>1, FoldExists
  <2>1. PICK K : FoldTable(n, Packed, NoChunk, G, K)
    BY <2>0
  <2>2. ASSUME NEW s \in SUBSET (1..n), s # {}
        PROVE  G[<<Max(s), K[s \ {Max(s)}]>>] = AddPiece(K[s \ {Max(s)}], pieces[Max(s)])
    <3>1. Max(s) \in 1..n
      BY <1>1, <2>2, LargestIn
    <3>2. K[s \ {Max(s)}] \in Packed
      BY <2>1, <2>2 DEF FoldTable
    <3> QED
      BY <1>3, <3>1, <3>2
  <2>3. K = [s \in SUBSET (1..n) |-> IF s = {} THEN NoChunk ELSE AddPiece(K[s \ {Max(s)}], pieces[Max(s)])]
    BY <2>1, <2>2 DEF FoldTable
  <2>4. Solves(K)
    BY <1>1, <2>3
  <2> HIDE DEF Solves
  <2> QED
    BY <2>4
<1>5. Solves(J)
  <2> HIDE DEF Solves
  <2> QED
    BY <1>4
<1>6. FoldLeft(AddPiece, NoChunk, pieces) = J[1..n]
  BY <1>1 DEF FoldLeft, MapThenFoldSet
<1> HIDE DEF J
<1>7. \A s \in SUBSET (1..n) : J[s] = IF s = {} THEN NoChunk ELSE AddPiece(J[s \ {Max(s)}], pieces[Max(s)])
  BY <1>1, <1>5
<1> HIDE DEF Solves
<1>8. \E F : Chain(n, Packed, NoChunk, G, F, J[1..n])
  <2>1. J[{}] = NoChunk
    BY <1>7
  <2>2. ASSUME NEW s \in SUBSET (1..n), s # {}, J[s \ {Max(s)}] \in Packed
        PROVE  J[s] = G[<<Max(s), J[s \ {Max(s)}]>>]
    <3>1. Max(s) \in 1..n
      BY <1>1, <2>2, LargestIn
    <3> QED
      BY <1>3, <1>7, <2>2, <3>1
  <2>3. Unfolds(n, Packed, NoChunk, G, J)
    BY <2>1, <2>2 DEF Unfolds
  <2>4. n \in Nat /\ G \in [(1..n) \X Packed -> Packed]
    BY <1>1, <1>3
  <2> QED
    BY <1>2, <2>3, <2>4, FoldChain
<1>a. PICK F : Chain(n, Packed, NoChunk, G, F, J[1..n])
  BY <1>8
<1>b. F \in [0..n -> Packed] /\ F[n] = J[1..n] /\ \A i \in 1..n : F[i] = G[<<i, F[i - 1]>>]
  BY <1>a DEF Chain
<1> DEFINE has == [i \in 0..n |-> InPacked(F[i])]
           of == [i \in 1..n |-> Letters(pieces[i])]
<1>9. \A i \in 1..n : has[i - 1] \cup of[i] \subseteq has[i]
  <2> SUFFICES ASSUME NEW i \in 1..n PROVE has[i - 1] \cup of[i] \subseteq has[i]
    OBVIOUS
  <2>1. i - 1 \in 0..n /\ i \in 0..n
    BY <1>1
  <2>2. F[i - 1] \in Packed /\ F[i] = AddPiece(F[i - 1], pieces[i])
    BY <1>3, <1>b, <2>1
  <2> QED
    BY <1>1, <2>1, <2>2, PieceStep
<1>10. \A i \in 1..n : of[i] \subseteq has[n]
  <2> HIDE DEF has, of
  <2> QED
    BY <1>1, <1>9, Gathering
<1>11. F[n] \in Packed /\ n \in 0..n
  BY <1>1, <1>b
<1>12. AllLetters(pieces) \subseteq InPacked(F[n])
  BY <1>1, <1>10, <1>11, AllLettersOf DEF Fits, n
<1> QED
  BY <1>6, <1>b, <1>11, <1>12

Collected == {acc \in [pieces : Seq(Text), buf : Text] : Fits(acc.pieces, BlockLimit) /\ Len(acc.buf) <= BlockLimit}
InCollected(acc) == AllLetters(acc.pieces) \cup Letters(acc.buf)
NoPiece == [pieces |-> << >>, buf |-> << >>]

(* Hard cuts: full pieces of w characters, and what is left. *)
LEMMA HardCuts ==
    ASSUME NEW line \in Text, NEW w \in Nat \ {0}, Len(line) >= 1
    PROVE  LET full == (Len(line) - 1) \div w
               rest == SubSeq(line, full * w + 1, Len(line))
               cut == [k \in 1..full |-> SubSeq(line, (k - 1) * w + 1, k * w)]
           IN  /\ full \in Nat /\ Fits(cut, w) /\ rest \in Text /\ Len(rest) <= w
               /\ Letters(line) \subseteq AllLetters(cut) \cup Letters(rest)
<1> DEFINE n == Len(line)
           full == (n - 1) \div w
           rest == SubSeq(line, full * w + 1, n)
           cut == [k \in 1..full |-> SubSeq(line, (k - 1) * w + 1, k * w)]
<1>1. n \in Nat
  BY LenProperties DEF Text
<1>2. full \in Nat /\ full * w \in Nat /\ full * w <= n - 1 /\ n - 1 < full * w + w
  BY <1>1
<1> HIDE DEF n, full
<1>3. rest \in Text /\ Len(rest) <= w /\ \A c : c \in Letters(rest) <=> c # Break /\ \E i \in (full * w + 1)..n : line[i] = c
  <2>1. PICK a : a = full * w + 1
    OBVIOUS
  <2>2. a \in Nat \ {0} /\ a <= n /\ n - a + 1 <= w
    BY <1>1, <1>2, <2>1
  <2>3. /\ SubSeq(line, a, n) \in Text /\ Len(SubSeq(line, a, n)) = n - a + 1
        /\ \A c : c \in Letters(SubSeq(line, a, n)) <=> c # Break /\ \E i \in a..n : line[i] = c
    BY <1>1, <2>2, StretchOf DEF n
  <2> QED
    BY <2>1, <2>2, <2>3
<1>4. ASSUME NEW k \in 1..full
      PROVE  /\ SubSeq(line, (k - 1) * w + 1, k * w) \in Text
             /\ Len(SubSeq(line, (k - 1) * w + 1, k * w)) = w
             /\ \A i \in ((k - 1) * w + 1)..(k * w) : line[i] # Break =>
                    line[i] \in Letters(SubSeq(line, (k - 1) * w + 1, k * w))
  <2>1. full * w = k * w + (full - k) * w /\ (full - k) * w >= 0
    BY <1>2
  <2>2. (k - 1) * w \in Nat /\ k * w \in Nat /\ k * w = (k - 1) * w + w
    BY <1>2
  <2>3. PICK a, b : a = (k - 1) * w + 1 /\ b = k * w
    OBVIOUS
  <2>4. a \in Nat \ {0} /\ b \in Nat /\ b <= n /\ a <= b /\ b - a + 1 = w
    BY <1>1, <1>2, <2>1, <2>2, <2>3
  <2>5. /\ SubSeq(line, a, b) \in Text /\ Len(SubSeq(line, a, b)) = b - a + 1
        /\ \A c : c \in Letters(SubSeq(line, a, b)) <=> c # Break /\ \E i \in a..b : line[i] = c
    BY <2>4, StretchOf DEF n
  <2> QED
    BY <2>3, <2>4, <2>5
<1>5. cut \in Seq(Text) /\ Len(cut) = full /\ Fits(cut, w) /\ \A k \in 1..full : cut[k] = SubSeq(line, (k - 1) * w + 1, k * w)
  <2>1. cut \in [1..full -> Text]
    BY <1>4
  <2>2. cut \in Seq(Text) /\ Len(cut) = full
    <3> HIDE DEF cut
    <3> QED
      BY <1>2, <2>1
  <2>3. \A k \in 1..full : cut[k] = SubSeq(line, (k - 1) * w + 1, k * w)
    OBVIOUS
  <2>4. ASSUME NEW k \in 1..full PROVE Len(cut[k]) <= w
    <3>1. Len(cut[k]) = w
      BY <1>4, <2>3
    <3> QED
      BY <3>1
  <2> HIDE DEF cut
  <2> QED
    BY <2>2, <2>3, <2>4 DEF Fits
<1> HIDE DEF cut, rest
<1>6. ASSUME NEW c \in Letters(line) PROVE c \in AllLetters(cut) \cup Letters(rest)
  <2>1. PICK i \in 1..n : line[i] = c /\ c # Break
    BY LettersOf DEF n
  <2>2. CASE i > full * w
    <3>1. i \in (full * w + 1)..n
      BY <1>1, <1>2, <2>2
    <3> QED
      BY <1>3, <2>1, <3>1
  <2>3. CASE ~(i > full * w)
    <3> DEFINE q == (i - 1) \div w
    <3>1. q \in Nat /\ q * w \in Nat /\ q * w <= i - 1 /\ i - 1 < q * w + w
      BY <1>1
    <3> HIDE DEF q
    <3>2. q < full
      <4>1. q >= full => q * w = full * w + (q - full) * w /\ (q - full) * w >= 0
        BY <1>2, <3>1
      <4> QED
        BY <1>1, <1>2, <2>3, <3>1, <4>1
    <3>3. q + 1 \in 1..full /\ (q + 1) - 1 = q /\ (q + 1) * w = q * w + w
      BY <1>2, <3>1, <3>2
    <3>4. i \in (q * w + 1)..((q + 1) * w)
      BY <1>1, <3>1, <3>3
    <3>5. c \in Letters(SubSeq(line, ((q + 1) - 1) * w + 1, (q + 1) * w))
      BY <1>4, <2>1, <3>3, <3>4
    <3>6. c \in Letters(cut[q + 1])
      BY <1>5, <3>3, <3>5
    <3> QED
      BY <1>5, <3>3, <3>6, AllLettersOf
  <2> QED
    BY <2>2, <2>3
<1> QED
  BY <1>2, <1>3, <1>5, <1>6 DEF n, full, cut, rest

(* One line more, cut hard where it is too long: the pieces still fit, and *)
(* no letter is lost.                                                      *)
LEMMA LineStep ==
    ASSUME NEW acc \in Collected, NEW line \in Text, Len(line) >= 1
    PROVE  AddLine(acc, line) \in Collected /\ InCollected(acc) \cup Letters(line) \subseteq InCollected(AddLine(acc, line))
<1> DEFINE full == (Len(line) - 1) \div BlockLimit
           rest == SubSeq(line, full * BlockLimit + 1, Len(line))
           cut == [k \in 1..full |-> SubSeq(line, (k - 1) * BlockLimit + 1, k * BlockLimit)]
           before == IF full = 0 THEN acc ELSE [pieces |-> Flushed(acc.pieces, acc.buf) \o cut, buf |-> << >>]
           brk == <<Break>>
           candidate == Joined(before.buf, brk, rest)
           to == IF before.buf # << >> /\ Len(candidate) > BlockLimit
                 THEN [pieces |-> Append(before.pieces, before.buf), buf |-> rest]
                 ELSE [pieces |-> before.pieces, buf |-> candidate]
<1>1. AddLine(acc, line) = to
  BY DEF AddLine
<1>2. /\ full \in Nat /\ Fits(cut, BlockLimit) /\ rest \in Text /\ Len(rest) <= BlockLimit
      /\ Letters(line) \subseteq AllLetters(cut) \cup Letters(rest)
  BY Budget, HardCuts
<1>3. full = 0 => AllLetters(cut) = {}
  <2>1. full = 0 => cut = << >>
    BY DEF full
  <2> QED
    BY <2>1, NoText
<1>4. Blank(brk) /\ Len(brk) = 1
  BY BreaksOnly
<1>5. Len(rest) \in Nat
  BY <1>2, LenProperties DEF Text
<1> HIDE DEF full, cut, rest, brk
<1>6. before \in Collected /\ InCollected(acc) \cup AllLetters(cut) \subseteq InCollected(before)
  <2>1. CASE full = 0
    BY <1>3, <2>1
  <2>2. CASE full # 0
    <3>1. acc.pieces \in Seq(Text) /\ acc.buf \in Text /\ Fits(acc.pieces, BlockLimit) /\ Len(acc.buf) <= BlockLimit
      BY DEF Collected
    <3>2. /\ Flushed(acc.pieces, acc.buf) \in Seq(Text) /\ Fits(Flushed(acc.pieces, acc.buf), BlockLimit)
          /\ AllLetters(Flushed(acc.pieces, acc.buf)) = AllLetters(acc.pieces) \cup Letters(acc.buf)
      BY <3>1, FlushedText
    <3>3. cut \in Seq(Text)
      BY <1>2 DEF Fits
    <3>4. PICK all : all = Flushed(acc.pieces, acc.buf) \o cut
      OBVIOUS
    <3>5. /\ all \in Seq(Text) /\ Fits(all, BlockLimit)
          /\ AllLetters(all) = AllLetters(acc.pieces) \cup Letters(acc.buf) \cup AllLetters(cut)
      BY <1>2, <3>2, <3>3, <3>4, ConcatTexts
    <3>6. PICK r : r = [pieces |-> all, buf |-> << >>]
      OBVIOUS
    <3>7. r \in Collected
      <4>1. << >> \in Text /\ Len(<< >>) <= BlockLimit
        BY NoText, Budget
      <4>2. r.pieces = all /\ r.buf = << >> /\ r \in [pieces : Seq(Text), buf : Text]
        BY <3>5, <3>6, <4>1
      <4> QED
        BY <3>5, <4>1, <4>2 DEF Collected
    <3>8. InCollected(r) = AllLetters(acc.pieces) \cup Letters(acc.buf) \cup AllLetters(cut)
      <4>1. r.pieces = all /\ r.buf = << >>
        BY <3>6
      <4> QED
        BY <3>5, <4>1, NoText DEF InCollected
    <3>9. before = r
      BY <2>2, <3>4, <3>6
    <3> HIDE DEF before
    <3> QED
      BY <3>7, <3>8, <3>9 DEF InCollected
  <2> QED
    BY <2>1, <2>2
<1> HIDE DEF before
<1>7. before.pieces \in Seq(Text) /\ before.buf \in Text /\ Fits(before.pieces, BlockLimit) /\ Len(before.buf) <= BlockLimit
  BY <1>6 DEF Collected
<1>8. /\ candidate \in Text /\ Letters(candidate) = Letters(before.buf) \cup Letters(rest)
      /\ Len(candidate) = IF before.buf = << >> THEN Len(rest) ELSE Len(before.buf) + Len(brk) + Len(rest)
  BY <1>2, <1>4, <1>7, JoinedText
<1> HIDE DEF candidate
<1>9. to \in Collected /\ InCollected(before) \cup Letters(rest) \subseteq InCollected(to)
  <2>1. CASE before.buf # << >> /\ Len(candidate) > BlockLimit
    <3>1. /\ Append(before.pieces, before.buf) \in Seq(Text) /\ Fits(Append(before.pieces, before.buf), BlockLimit)
          /\ AllLetters(Append(before.pieces, before.buf)) = AllLetters(before.pieces) \cup Letters(before.buf)
      BY <1>7, AppendedText
    <3>2. to = [pieces |-> Append(before.pieces, before.buf), buf |-> rest]
      BY <2>1
    <3>3. to \in Collected
      BY <1>2, <3>1, <3>2 DEF Collected
    <3>4. InCollected(before) \cup Letters(rest) \subseteq InCollected(to)
      BY <3>1, <3>2 DEF InCollected
    <3> QED
      BY <3>3, <3>4
  <2>2. CASE ~(before.buf # << >> /\ Len(candidate) > BlockLimit)
    <3>1. Len(candidate) <= BlockLimit
      <4>1. Len(candidate) \in Nat
        BY <1>8, LenProperties DEF Text
      <4> QED
        BY <1>2, <1>5, <1>8, <2>2, <4>1, Budget
    <3>2. to = [pieces |-> before.pieces, buf |-> candidate]
      BY <2>2
    <3>3. to \in Collected
      BY <1>7, <1>8, <3>1, <3>2 DEF Collected
    <3>4. InCollected(before) \cup Letters(rest) \subseteq InCollected(to)
      BY <1>8, <3>2 DEF InCollected
    <3> QED
      BY <3>3, <3>4
  <2> QED
    BY <2>1, <2>2
<1> HIDE DEF to
<1> QED
  BY <1>1, <1>2, <1>6, <1>9

(* All lines of a block: the pieces fit, and have the letters of each line. *)
LEMMA Collecting ==
    ASSUME NEW lines \in Seq(Text), \A i \in 1..Len(lines) : Len(lines[i]) >= 1
    PROVE  LET end == FoldLeft(AddLine, NoPiece, lines)
           IN  end \in Collected /\ AllLetters(lines) \subseteq InCollected(end)
<1> DEFINE n == Len(lines)
           Solves(J) == J = [s \in SUBSET DOMAIN lines |->
                               IF s = {} THEN NoPiece ELSE AddLine(J[s \ {Max(s)}], lines[Max(s)])]
           J == CHOOSE J : Solves(J)
           G == [p \in (1..n) \X Collected |-> AddLine(p[2], lines[p[1]])]
<1>1. n \in Nat /\ DOMAIN lines = 1..n /\ \A i \in 1..n : lines[i] \in Text /\ Len(lines[i]) >= 1
  BY LenProperties, ElementOfSeq
<1>2. NoPiece \in Collected
  BY NoText, Budget DEF Collected, NoPiece
<1>3. G \in [(1..n) \X Collected -> Collected] /\ \A i \in 1..n, acc \in Collected : G[<<i, acc>>] = AddLine(acc, lines[i])
  <2>1. \A p \in (1..n) \X Collected : AddLine(p[2], lines[p[1]]) \in Collected
    BY <1>1, LineStep
  <2> QED
    BY <2>1
<1> HIDE DEF G, n
<1>4. \E K : Solves(K)
  <2>0. \E K : FoldTable(n, Collected, NoPiece, G, K)
    <3>1. n \in Nat /\ G \in [(1..n) \X Collected -> Collected]
      BY <1>1, <1>3
    <3> QED
      BY <1>2, <3>1, FoldExists
  <2>1. PICK K : FoldTable(n, Collected, NoPiece, G, K)
    BY <2>0
  <2>2. ASSUME NEW s \in SUBSET (1..n), s # {}
        PROVE  G[<<Max(s), K[s \ {Max(s)}]>>] = AddLine(K[s \ {Max(s)}], lines[Max(s)])
    <3>1. Max(s) \in 1..n
      BY <1>1, <2>2, LargestIn
    <3>2. K[s \ {Max(s)}] \in Collected
      BY <2>1, <2>2 DEF FoldTable
    <3> QED
      BY <1>3, <3>1, <3>2
  <2>3. K = [s \in SUBSET (1..n) |-> IF s = {} THEN NoPiece ELSE AddLine(K[s \ {Max(s)}], lines[Max(s)])]
    BY <2>1, <2>2 DEF FoldTable
  <2>4. Solves(K)
    BY <1>1, <2>3
  <2> HIDE DEF Solves
  <2> QED
    BY <2>4
<1>5. Solves(J)
  <2> HIDE DEF Solves
  <2> QED
    BY <1>4
<1>6. FoldLeft(AddLine, NoPiece, lines) = J[1..n]
  BY <1>1 DEF FoldLeft, MapThenFoldSet
<1> HIDE DEF J
<1>7. \A s \in SUBSET (1..n) : J[s] = IF s = {} THEN NoPiece ELSE AddLine(J[s \ {Max(s)}], lines[Max(s)])
  BY <1>1, <1>5
<1> HIDE DEF Solves
<1>8. \E F : Chain(n, Collected, NoPiece, G, F, J[1..n])
  <2>1. J[{}] = NoPiece
    BY <1>7
  <2>2. ASSUME NEW s \in SUBSET (1..n), s # {}, J[s \ {Max(s)}] \in Collected
        PROVE  J[s] = G[<<Max(s), J[s \ {Max(s)}]>>]
    <3>1. Max(s) \in 1..n
      BY <1>1, <2>2, LargestIn
    <3> QED
      BY <1>3, <1>7, <2>2, <3>1
  <2>3. Unfolds(n, Collected, NoPiece, G, J)
    BY <2>1, <2>2 DEF Unfolds
  <2>4. n \in Nat /\ G \in [(1..n) \X Collected -> Collected]
    BY <1>1, <1>3
  <2> QED
    BY <1>2, <2>3, <2>4, FoldChain
<1>a. PICK F : Chain(n, Collected, NoPiece, G, F, J[1..n])
  BY <1>8
<1>b. F \in [0..n -> Collected] /\ F[n] = J[1..n] /\ \A i \in 1..n : F[i] = G[<<i, F[i - 1]>>]
  BY <1>a DEF Chain
<1> DEFINE has == [i \in 0..n |-> InCollected(F[i])]
           of == [i \in 1..n |-> Letters(lines[i])]
<1>9. \A i \in 1..n : has[i - 1] \cup of[i] \subseteq has[i]
  <2> SUFFICES ASSUME NEW i \in 1..n PROVE has[i - 1] \cup of[i] \subseteq has[i]
    OBVIOUS
  <2>1. i - 1 \in 0..n /\ i \in 0..n
    BY <1>1
  <2>2. F[i - 1] \in Collected /\ F[i] = AddLine(F[i - 1], lines[i])
    BY <1>3, <1>b, <2>1
  <2> QED
    BY <1>1, <2>1, <2>2, LineStep
<1>10. \A i \in 1..n : of[i] \subseteq has[n]
  <2> HIDE DEF has, of
  <2> QED
    BY <1>1, <1>9, Gathering
<1>11. F[n] \in Collected /\ n \in 0..n
  BY <1>1, <1>b
<1>12. AllLetters(lines) \subseteq InCollected(F[n])
  BY <1>1, <1>10, <1>11, AllLettersOf DEF n
<1> QED
  BY <1>6, <1>b, <1>11, <1>12

(* A document: blocks of lines that are not empty. *)
Document == shape \in Seq(Seq(Nat \ {0}))

(* The documents that are indexed.                                         *)
LEMMA ShapeIsDocument == IndexingInit => Document
<1> SUFFICES ASSUME IndexingInit PROVE Document
  OBVIOUS
<1> DEFINE Block == UNION {[1..n -> LineLengths] : n \in 1..MaxLines}
<1>1. ASSUME NEW x \in Block PROVE x \in Seq(Nat \ {0})
  <2>1. PICK n \in 1..MaxLines : x \in [1..n -> LineLengths]
    OBVIOUS
  <2>2. n \in Nat /\ x \in [1..n -> Nat \ {0}]
    <3>1. LineLengths \subseteq Nat \ {0}
      BY IndexingAssumption
    <3>2. \A i \in 1..n : x[i] \in Nat \ {0}
      BY <2>1, <3>1
    <3> QED
      BY <2>1, <3>2
  <2> QED
    BY <2>2
<1>2. shape \in UNION {[1..m -> Block] : m \in 0..MaxBlocks}
  BY DEF IndexingInit, BoundedSeq, SeqOf
<1> HIDE DEF Block
<1>3. PICK m \in 0..MaxBlocks : shape \in [1..m -> Block]
  BY <1>2
<1>4. m \in Nat /\ shape \in [1..m -> Seq(Nat \ {0})]
  BY <1>1, <1>3, IndexingAssumption
<1> QED
  BY <1>4 DEF Document

(* The lines of a block: texts that are not empty.                         *)
LEMMA LinesOfBlock ==
    ASSUME Document, NEW b \in DOMAIN shape
    PROVE  /\ Lines(b) \in Seq(Text) /\ \A i \in 1..Len(Lines(b)) : Len(Lines(b)[i]) >= 1
<1>1. DOMAIN shape = 1..Len(shape) /\ Len(shape) \in Nat
  BY LenProperties DEF Document
<1>2. b \in Nat /\ shape[b] \in Seq(Nat \ {0})
  BY <1>1, ElementOfSeq DEF Document
<1>3. PICK m : m = Len(shape[b])
  OBVIOUS
<1>4. m \in Nat /\ DOMAIN shape[b] = 1..m /\ \A l \in 1..m : shape[b][l] \in Nat \ {0}
  BY <1>2, <1>3, LenProperties, ElementOfSeq
<1>5. ASSUME NEW l \in 1..m
      PROVE  Line(b, l, shape[b][l]) \in Text /\ Len(Line(b, l, shape[b][l])) >= 1
  <2>1. PICK n : n = shape[b][l]
    OBVIOUS
  <2>2. n \in Nat \ {0} /\ l \in Nat
    BY <1>4, <2>1
  <2>3. Line(b, l, n) = [i \in 1..n |-> <<b, l, i>>]
    BY DEF Line
  <2>4. Line(b, l, n) \in [1..n -> Character]
    <3>1. \A i \in 1..n : <<b, l, i>> \in Character
      BY <1>2, <2>2 DEF Character
    <3> QED
      BY <2>3, <3>1
  <2>5. Line(b, l, n) \in Text /\ Len(Line(b, l, n)) = n
    BY <2>2, <2>4 DEF Text
  <2> QED
    BY <2>1, <2>2, <2>5
<1>6. Lines(b) = [l \in 1..m |-> Line(b, l, shape[b][l])]
  BY <1>4 DEF Lines
<1>7. Lines(b) \in [1..m -> Text]
  BY <1>5, <1>6
<1>8. Lines(b) \in Seq(Text) /\ Len(Lines(b)) = m
  BY <1>4, <1>7
<1> QED
  BY <1>5, <1>6, <1>8

(* The pieces of a block: each fits, and together they have its lines.     *)
LEMMA PiecesOfBlock ==
    ASSUME Document, NEW b \in DOMAIN shape
    PROVE  Fits(Pieces(b), BlockLimit) /\ AllLetters(Lines(b)) \subseteq AllLetters(Pieces(b))
<1> DEFINE end == FoldLeft(AddLine, NoPiece, Lines(b))
<1>1. end \in Collected /\ AllLetters(Lines(b)) \subseteq InCollected(end)
  BY LinesOfBlock, Collecting
<1>2. Pieces(b) = Flushed(end.pieces, end.buf)
  BY DEF Pieces, NoPiece
<1> HIDE DEF end
<1>3. end.pieces \in Seq(Text) /\ end.buf \in Text /\ Fits(end.pieces, BlockLimit) /\ Len(end.buf) <= BlockLimit
  BY <1>1 DEF Collected
<1>4. /\ Flushed(end.pieces, end.buf) \in Seq(Text) /\ Fits(Flushed(end.pieces, end.buf), BlockLimit)
      /\ AllLetters(Flushed(end.pieces, end.buf)) = AllLetters(end.pieces) \cup Letters(end.buf)
  BY <1>3, FlushedText
<1> QED
  BY <1>1, <1>2, <1>4 DEF InCollected

(* The pieces of a document: those of its blocks, one block after another. *)
Fitting == {s \in Seq(Text) : Fits(s, BlockLimit)}

(* One block more.                                                         *)
LEMMA BlockStep ==
    ASSUME Document, NEW s \in Fitting, NEW b \in DOMAIN shape
    PROVE  s \o Pieces(b) \in Fitting /\ AllLetters(s) \cup AllLetters(Lines(b)) \subseteq AllLetters(s \o Pieces(b))
<1>1. s \in Seq(Text) /\ Fits(s, BlockLimit)
  BY DEF Fitting
<1>2. PICK pieces : pieces = Pieces(b)
  OBVIOUS
<1>3. Fits(pieces, BlockLimit) /\ AllLetters(Lines(b)) \subseteq AllLetters(pieces)
  BY <1>2, PiecesOfBlock
<1>4. pieces \in Seq(Text)
  BY <1>3 DEF Fits
<1>5. /\ s \o pieces \in Seq(Text) /\ AllLetters(s \o pieces) = AllLetters(s) \cup AllLetters(pieces)
      /\ Fits(s \o pieces, BlockLimit)
  BY <1>1, <1>3, <1>4, ConcatTexts
<1> QED
  BY <1>2, <1>3, <1>5 DEF Fitting

(* All blocks: their pieces fit, and have the letters of every line.       *)
LEMMA Joining ==
    ASSUME Document
    PROVE  AllPieces \in Fitting /\ \A b \in DOMAIN shape : AllLetters(Lines(b)) \subseteq AllLetters(AllPieces)
<1> DEFINE n == Len(shape)
           places == Places(shape)
           Solves(J) == J = [s \in SUBSET DOMAIN places |->
                               IF s = {} THEN << >> ELSE J[s \ {Max(s)}] \o Pieces(places[Max(s)])]
           J == CHOOSE J : Solves(J)
           G == [p \in (1..n) \X Fitting |-> p[2] \o Pieces(p[1])]
<1>1. n \in Nat /\ DOMAIN shape = 1..n /\ DOMAIN places = 1..n /\ \A i \in 1..n : places[i] = i
  BY LenProperties DEF Document, Places
<1>2. << >> \in Fitting
  BY NoText DEF Fitting
<1>3. G \in [(1..n) \X Fitting -> Fitting] /\ \A i \in 1..n, s \in Fitting : G[<<i, s>>] = s \o Pieces(i)
  <2>1. \A p \in (1..n) \X Fitting : p[2] \o Pieces(p[1]) \in Fitting
    BY <1>1, BlockStep
  <2> QED
    BY <2>1
<1> HIDE DEF G, n, places
<1>4. \E K : Solves(K)
  <2>0. \E K : FoldTable(n, Fitting, << >>, G, K)
    <3>1. n \in Nat /\ G \in [(1..n) \X Fitting -> Fitting]
      BY <1>1, <1>3
    <3> QED
      BY <1>2, <3>1, FoldExists
  <2>1. PICK K : FoldTable(n, Fitting, << >>, G, K)
    BY <2>0
  <2>2. ASSUME NEW s \in SUBSET (1..n), s # {}
        PROVE  G[<<Max(s), K[s \ {Max(s)}]>>] = K[s \ {Max(s)}] \o Pieces(places[Max(s)])
    <3>1. Max(s) \in 1..n
      BY <1>1, <2>2, LargestIn
    <3>2. K[s \ {Max(s)}] \in Fitting
      BY <2>1, <2>2 DEF FoldTable
    <3> QED
      BY <1>1, <1>3, <3>1, <3>2
  <2>3. K = [s \in SUBSET (1..n) |-> IF s = {} THEN << >> ELSE K[s \ {Max(s)}] \o Pieces(places[Max(s)])]
    BY <2>1, <2>2 DEF FoldTable
  <2>4. Solves(K)
    BY <1>1, <2>3
  <2> HIDE DEF Solves
  <2> QED
    BY <2>4
<1>5. Solves(J)
  <2> HIDE DEF Solves
  <2> QED
    BY <1>4
<1>6. AllPieces = J[1..n]
  BY <1>1 DEF AllPieces, FoldLeft, MapThenFoldSet, places
<1> HIDE DEF J
<1>7. \A s \in SUBSET (1..n) : J[s] = IF s = {} THEN << >> ELSE J[s \ {Max(s)}] \o Pieces(places[Max(s)])
  BY <1>1, <1>5
<1> HIDE DEF Solves
<1>8. \E F : Chain(n, Fitting, << >>, G, F, J[1..n])
  <2>1. J[{}] = << >>
    BY <1>7
  <2>2. ASSUME NEW s \in SUBSET (1..n), s # {}, J[s \ {Max(s)}] \in Fitting
        PROVE  J[s] = G[<<Max(s), J[s \ {Max(s)}]>>]
    <3>1. Max(s) \in 1..n
      BY <1>1, <2>2, LargestIn
    <3>2. J[s] = J[s \ {Max(s)}] \o Pieces(Max(s))
      BY <1>1, <1>7, <2>2, <3>1
    <3>3. G[<<Max(s), J[s \ {Max(s)}]>>] = J[s \ {Max(s)}] \o Pieces(Max(s))
      BY <1>3, <2>2, <3>1
    <3> QED
      BY <3>2, <3>3
  <2>3. Unfolds(n, Fitting, << >>, G, J)
    BY <2>1, <2>2 DEF Unfolds
  <2>4. n \in Nat /\ G \in [(1..n) \X Fitting -> Fitting]
    BY <1>1, <1>3
  <2> QED
    BY <1>2, <2>3, <2>4, FoldChain
<1>a. PICK F : Chain(n, Fitting, << >>, G, F, J[1..n])
  BY <1>8
<1>b. F \in [0..n -> Fitting] /\ F[n] = J[1..n] /\ \A i \in 1..n : F[i] = G[<<i, F[i - 1]>>]
  BY <1>a DEF Chain
<1> DEFINE has == [i \in 0..n |-> AllLetters(F[i])]
           of == [i \in 1..n |-> AllLetters(Lines(i))]
<1>9. \A i \in 1..n : has[i - 1] \cup of[i] \subseteq has[i]
  <2> SUFFICES ASSUME NEW i \in 1..n PROVE has[i - 1] \cup of[i] \subseteq has[i]
    OBVIOUS
  <2>1. i - 1 \in 0..n /\ i \in 0..n
    BY <1>1
  <2>2. F[i - 1] \in Fitting /\ F[i] = F[i - 1] \o Pieces(i)
    BY <1>3, <1>b, <2>1
  <2> QED
    BY <1>1, <2>1, <2>2, BlockStep
<1>10. \A i \in 1..n : of[i] \subseteq has[n]
  <2> HIDE DEF has, of
  <2> QED
    BY <1>1, <1>9, Gathering
<1>11. F[n] \in Fitting /\ n \in 0..n
  BY <1>1, <1>b
<1>12. \A b \in 1..n : AllLetters(Lines(b)) \subseteq AllLetters(F[n])
  BY <1>10, <1>11
<1> QED
  BY <1>1, <1>6, <1>b, <1>11, <1>12

(* The chunks of a document: texts, none longer than the target, and       *)
(* together they have every line of every block.                           *)
LEMMA ChunksOfDocument ==
    ASSUME Document
    PROVE  /\ Fits(Chunks, Target)
           /\ \A b \in DOMAIN shape : AllLetters(Lines(b)) \subseteq AllLetters(Chunks)
<1> DEFINE end == FoldLeft(AddPiece, NoChunk, AllPieces)
<1>1. Fits(AllPieces, BlockLimit) /\ \A b \in DOMAIN shape : AllLetters(Lines(b)) \subseteq AllLetters(AllPieces)
  BY Joining DEF Fitting
<1>2. end \in Packed /\ AllLetters(AllPieces) \subseteq InPacked(end)
  BY <1>1, Packing
<1>3. Chunks = Flushed(end.chunks, end.buf)
  BY DEF Chunks, NoChunk
<1> HIDE DEF end
<1>4. end.chunks \in Seq(Text) /\ end.buf \in Text /\ Fits(end.chunks, Target) /\ Len(end.buf) <= Target
  BY <1>2 DEF Packed
<1>5. /\ Flushed(end.chunks, end.buf) \in Seq(Text) /\ Fits(Flushed(end.chunks, end.buf), Target)
      /\ AllLetters(Flushed(end.chunks, end.buf)) = AllLetters(end.chunks) \cup Letters(end.buf)
  BY <1>4, FlushedText
<1> QED
  BY <1>1, <1>2, <1>3, <1>5 DEF InPacked

(* ChunksFit, of every document.                                           *)
LEMMA ChunksAreFit == Document => ChunksFit
<1> SUFFICES ASSUME Document PROVE ChunksFit
  OBVIOUS
<1>1. Fits(Chunks, Target) /\ \A b \in DOMAIN shape : AllLetters(Lines(b)) \subseteq AllLetters(Chunks)
  BY ChunksOfDocument
<1>2. DOMAIN Chunks = 1..Len(Chunks)
  BY <1>1, LenProperties DEF Fits
<1>3. \A i \in DOMAIN Chunks : Len(Chunks[i]) <= Target
  BY <1>1, <1>2 DEF Fits
<1>4. \A b \in DOMAIN shape : \A l \in DOMAIN Lines(b) : Letters(Lines(b)[l]) \subseteq AllLetters(Chunks)
  BY <1>1 DEF AllLetters
<1> QED
  BY <1>3, <1>4 DEF ChunksFit

(* What may be kept of a document: texts within the target. *)
Bounds == {s \in Seq(Text) : Fits(s, Target)}

(* Chunks are only left out by being dull.                                 *)
LEMMA Sorting ==
    ASSUME NEW all \in Bounds, NEW dull
    PROVE  Worthy(all, dull) \in Bounds
<1> DEFINE n == Len(all)
           places == Places(all)
           Sifted(s, i) == IF i \in dull THEN s ELSE Append(s, all[i])
           Solves(J) == J = [s \in SUBSET DOMAIN places |->
                               IF s = {} THEN << >> ELSE Sifted(J[s \ {Max(s)}], places[Max(s)])]
           J == CHOOSE J : Solves(J)
           G == [p \in (1..n) \X Bounds |-> Sifted(p[2], p[1])]
<1>1. n \in Nat /\ DOMAIN all = 1..n /\ DOMAIN places = 1..n /\ (\A i \in 1..n : places[i] = i) /\ (\A i \in 1..n : all[i] \in Text /\ Len(all[i]) <= Target)
  BY LenProperties, ElementOfSeq DEF Bounds, Fits, Places
<1>2. << >> \in Bounds
  BY NoText DEF Bounds
<1>3. G \in [(1..n) \X Bounds -> Bounds] /\ \A i \in 1..n, s \in Bounds : G[<<i, s>>] = Sifted(s, i)
  <2>1. ASSUME NEW s \in Bounds, NEW i \in 1..n PROVE Sifted(s, i) \in Bounds
    <3>1. all[i] \in Text /\ Len(all[i]) <= Target
      BY <1>1
    <3>2. s \in Seq(Text) /\ Fits(s, Target)
      BY DEF Bounds
    <3>3. Append(s, all[i]) \in Bounds
      BY <3>1, <3>2, AppendedText DEF Bounds
    <3> QED
      BY <3>3 DEF Sifted
  <2> HIDE DEF Sifted
  <2>2. \A p \in (1..n) \X Bounds : Sifted(p[2], p[1]) \in Bounds
    BY <2>1
  <2> QED
    BY <2>2
<1> HIDE DEF G, n, places, Sifted
<1>4. \E K : Solves(K)
  <2>0. \E K : FoldTable(n, Bounds, << >>, G, K)
    <3>1. n \in Nat /\ G \in [(1..n) \X Bounds -> Bounds]
      BY <1>1, <1>3
    <3> QED
      BY <1>2, <3>1, FoldExists
  <2>1. PICK K : FoldTable(n, Bounds, << >>, G, K)
    BY <2>0
  <2>2. ASSUME NEW s \in SUBSET (1..n), s # {}
        PROVE  G[<<Max(s), K[s \ {Max(s)}]>>] = Sifted(K[s \ {Max(s)}], places[Max(s)])
    <3>1. Max(s) \in 1..n
      BY <1>1, <2>2, LargestIn
    <3>2. K[s \ {Max(s)}] \in Bounds
      BY <2>1, <2>2 DEF FoldTable
    <3> QED
      BY <1>1, <1>3, <3>1, <3>2
  <2>3. K = [s \in SUBSET (1..n) |-> IF s = {} THEN << >> ELSE Sifted(K[s \ {Max(s)}], places[Max(s)])]
    BY <2>1, <2>2 DEF FoldTable
  <2>4. Solves(K)
    BY <1>1, <2>3
  <2> HIDE DEF Solves
  <2> QED
    BY <2>4
<1>5. Solves(J)
  <2> HIDE DEF Solves
  <2> QED
    BY <1>4
<1>6. Worthy(all, dull) = J[1..n]
  BY <1>1 DEF Worthy, FoldLeft, MapThenFoldSet, Sifted, places
<1> HIDE DEF J
<1>7. \A s \in SUBSET (1..n) : J[s] = IF s = {} THEN << >> ELSE Sifted(J[s \ {Max(s)}], places[Max(s)])
  BY <1>1, <1>5
<1> HIDE DEF Solves
<1>8. \E F : Chain(n, Bounds, << >>, G, F, J[1..n])
  <2>1. J[{}] = << >>
    BY <1>7
  <2>2. ASSUME NEW s \in SUBSET (1..n), s # {}, J[s \ {Max(s)}] \in Bounds
        PROVE  J[s] = G[<<Max(s), J[s \ {Max(s)}]>>]
    <3>1. Max(s) \in 1..n
      BY <1>1, <2>2, LargestIn
    <3>2. J[s] = Sifted(J[s \ {Max(s)}], Max(s))
      BY <1>1, <1>7, <2>2, <3>1
    <3>3. G[<<Max(s), J[s \ {Max(s)}]>>] = Sifted(J[s \ {Max(s)}], Max(s))
      BY <1>3, <2>2, <3>1
    <3> QED
      BY <3>2, <3>3
  <2>3. Unfolds(n, Bounds, << >>, G, J)
    BY <2>1, <2>2 DEF Unfolds
  <2>4. n \in Nat /\ G \in [(1..n) \X Bounds -> Bounds]
    BY <1>1, <1>3
  <2> QED
    BY <1>2, <2>3, <2>4, FoldChain
<1>a. PICK F : Chain(n, Bounds, << >>, G, F, J[1..n])
  BY <1>8
<1>b. F \in [0..n -> Bounds] /\ F[n] = J[1..n] /\ \A i \in 1..n : F[i] = G[<<i, F[i - 1]>>]
  BY <1>a DEF Chain
<1> QED
  <2>1. n \in 0..n
    BY <1>1
  <2> QED
    BY <1>6, <1>b, <2>1

(* What Indexer._bounded lets through are texts within the target.         *)
LEMMA BoundedIsKept == Document => \A dull : Bounded(dull) \in Bounds
<1> SUFFICES ASSUME Document, NEW dull PROVE Bounded(dull) \in Bounds
  OBVIOUS
<1> DEFINE all == Chunks
           some == Worthy(all, dull)
<1>1. all \in Bounds
  BY ChunksOfDocument DEF Bounds, Fits
<1> HIDE DEF all
<1>2. some \in Bounds
  BY <1>1, Sorting
<1>3. Bounded(dull) = IF MaxChunks > 0 /\ Len(some) > MaxChunks THEN SubSeq(some, 1, MaxChunks) ELSE some
  BY DEF Bounded, all, Worthy
<1> HIDE DEF some
<1>4. CASE MaxChunks > 0 /\ Len(some) > MaxChunks
  <2>1. MaxChunks \in Nat \ {0} /\ Len(some) \in Nat /\ \A i \in 1..Len(some) : some[i] \in Text /\ Len(some[i]) <= Target
    BY <1>2, <1>4, IndexingAssumption, LenProperties, ElementOfSeq DEF Bounds, Fits
  <2>2. \A i \in 1..MaxChunks : some[i] \in Text /\ Len(some[i]) <= Target
    BY <1>4, <2>1
  <2>3. /\ SubSeq(some, 1, MaxChunks) \in Seq(Text)
        /\ Len(SubSeq(some, 1, MaxChunks)) = IF 1 <= MaxChunks THEN MaxChunks - 1 + 1 ELSE 0
        /\ \A i \in 1..(MaxChunks - 1 + 1) : SubSeq(some, 1, MaxChunks)[i] = some[1 + i - 1]
    BY <2>1, <2>2, SubSeqProperties
  <2>4. /\ Len(SubSeq(some, 1, MaxChunks)) = MaxChunks
        /\ \A i \in 1..MaxChunks : SubSeq(some, 1, MaxChunks)[i] = some[i]
    BY <2>1, <2>3
  <2> QED
    BY <1>3, <1>4, <2>2, <2>3, <2>4 DEF Bounds, Fits
<1>5. CASE ~(MaxChunks > 0 /\ Len(some) > MaxChunks)
  BY <1>2, <1>3, <1>5
<1> QED
  BY <1>4, <1>5

-----------------------------------------------------------------------------
(* Functions by recursion: the powers of two, and flattening.              *)

(* A function on the numbers up to n that is given by what each step makes. *)
LEMMA PathExists ==
    ASSUME NEW n \in Nat, NEW S, NEW base \in S, NEW G \in [(1..n) \X S -> S]
    PROVE  \E F, end : Chain(n, S, base, G, F, end)
<1>1. PICK it : FoldTable(n, S, base, G, it)
  BY FoldExists
<1>2. Unfolds(n, S, base, G, it)
  <2>1. {} \in SUBSET (1..n)
    OBVIOUS
  <2> QED
    BY <1>1, <2>1 DEF FoldTable, Unfolds
<1>3. \E F : Chain(n, S, base, G, F, it[1..n])
  BY <1>2, FoldChain
<1> QED
  BY <1>3

(* Power is the powers of two.                                             *)
LEMMA Powers ==
    /\ Power[0] = 1 /\ \A n \in 0..SplitDepth : Power[n] \in Nat \ {0}
    /\ \A n \in 1..SplitDepth : Power[n] = 2 * Power[n - 1]
<1> DEFINE S == Nat \ {0}
           G == [p \in (1..SplitDepth) \X S |-> 2 * p[2]]
           Solves(f) == f = [n \in 0..SplitDepth |-> IF n = 0 THEN 1 ELSE 2 * f[n - 1]]
<1>1. SplitDepth \in Nat
  BY IndexingAssumption
<1>2. 1 \in S /\ G \in [(1..SplitDepth) \X S -> S] /\ \A i \in 1..SplitDepth, m \in S : G[<<i, m>>] = 2 * m
  OBVIOUS
<1> HIDE DEF G, S
<1>3. PICK F, end : Chain(SplitDepth, S, 1, G, F, end)
  BY <1>1, <1>2, PathExists
<1>4. /\ F \in [0..SplitDepth -> S] /\ F[0] = 1
      /\ \A i \in 1..SplitDepth : F[i] = G[<<i, F[i - 1]>>]
  BY <1>3 DEF Chain
<1>5. ASSUME NEW i \in 1..SplitDepth PROVE i - 1 \in 0..SplitDepth /\ F[i] = 2 * F[i - 1]
  <2>1. i - 1 \in 0..SplitDepth
    BY <1>1
  <2>2. F[i - 1] \in S /\ F[i] = G[<<i, F[i - 1]>>]
    BY <1>4, <2>1
  <2> QED
    BY <1>2, <2>1, <2>2
<1>6. Solves(F)
  <2>1. \A n \in 0..SplitDepth : F[n] = IF n = 0 THEN 1 ELSE 2 * F[n - 1]
    BY <1>1, <1>4, <1>5
  <2> QED
    BY <1>4, <2>1
<1>7. Power = CHOOSE f : Solves(f)
  BY DEF Power
<1> HIDE DEF Solves
<1>8. Solves(Power)
  BY <1>6, <1>7
<1>9. /\ Power[0] = 1 /\ \A n \in 1..SplitDepth : Power[n] = 2 * Power[n - 1]
  <2>1. \A n \in 0..SplitDepth : Power[n] = IF n = 0 THEN 1 ELSE 2 * Power[n - 1]
    BY <1>8 DEF Solves
  <2> QED
    BY <1>1, <2>1
<1> DEFINE T == {n \in Nat : n <= SplitDepth => Power[n] \in Nat \ {0}}
<1>10. 0 \in T
  BY <1>9
<1>11. ASSUME NEW n \in T PROVE n + 1 \in T
  <2> SUFFICES ASSUME n + 1 <= SplitDepth PROVE Power[n + 1] \in Nat \ {0}
    OBVIOUS
  <2>1. n + 1 \in 1..SplitDepth /\ (n + 1) - 1 = n /\ Power[n] \in Nat \ {0}
    BY <1>1, <1>11
  <2> QED
    BY <1>9, <2>1
<1>12. T = Nat
  <2>1. T \subseteq Nat
    OBVIOUS
  <2> HIDE DEF T
  <2> QED
    BY <1>10, <1>11, <2>1, Induction
<1> QED
  BY <1>1, <1>9, <1>12

(* Flattening, along the places of a sequence of sequences. *)
Flattens(S, ss, F) ==
    /\ F \in [0..Len(ss) -> Seq(S)] /\ F[0] = << >>
    /\ \A i \in 1..Len(ss) : F[i] = F[i - 1] \o ss[i]

(* FlattenSeq is the end of such a path.                                   *)
LEMMA FlattenPath ==
    ASSUME NEW S, NEW ss \in Seq(Seq(S))
    PROVE  \E F : Flattens(S, ss, F) /\ F[Len(ss)] = FlattenSeq(ss)
<1> DEFINE n == Len(ss)
           G == [p \in (1..n) \X Seq(S) |-> p[2] \o ss[p[1]]]
           Solves(f) == f = [i \in 1..n |-> IF i = 1 THEN ss[i] ELSE f[i - 1] \o ss[i]]
           flat == CHOOSE f : Solves(f)
<1>1. n \in Nat /\ \A i \in 1..n : ss[i] \in Seq(S)
  BY LenProperties, ElementOfSeq
<1>2. FlattenSeq(ss) = IF n = 0 THEN ss ELSE flat[n]
  BY DEF FlattenSeq
<1>3. << >> \in Seq(S)
  BY EmptySeq
<1> HIDE DEF n
<1>4. G \in [(1..n) \X Seq(S) -> Seq(S)] /\ \A i \in 1..n, s \in Seq(S) : G[<<i, s>>] = s \o ss[i]
  <2>1. \A p \in (1..n) \X Seq(S) : p[2] \o ss[p[1]] \in Seq(S)
    BY <1>1, ConcatProperties
  <2> QED
    BY <2>1
<1> HIDE DEF G
<1>5. PICK F, end : Chain(n, Seq(S), << >>, G, F, end)
  BY <1>1, <1>3, <1>4, PathExists
<1>6. /\ F \in [0..n -> Seq(S)] /\ F[0] = << >>
      /\ \A i \in 1..n : i - 1 \in 0..n /\ F[i] = F[i - 1] \o ss[i]
  <2>1. /\ F \in [0..n -> Seq(S)] /\ F[0] = << >>
        /\ \A i \in 1..n : F[i] = G[<<i, F[i - 1]>>]
    BY <1>5 DEF Chain
  <2>2. \A i \in 1..n : i - 1 \in 0..n
    BY <1>1
  <2> QED
    BY <1>4, <2>1, <2>2
<1>f. n # 0 => F[1] = ss[1]
  <2> SUFFICES ASSUME n # 0 PROVE F[1] = ss[1]
    OBVIOUS
  <2>1. 1 \in 1..n /\ 1 - 1 = 0
    BY <1>1
  <2>2. F[1] = << >> \o ss[1] /\ ss[1] \in Seq(S)
    BY <1>1, <1>6, <2>1
  <2> QED
    BY <2>2, ConcatEmptySeq
<1>7. Flattens(S, ss, F)
  BY <1>6 DEF Flattens, n
<1>8. CASE n = 0
  <2>1. ss = << >>
    BY <1>8, EmptySeq DEF n
  <2> QED
    BY <1>2, <1>6, <1>7, <1>8, <2>1 DEF n
<1>9. CASE n # 0
  <2> DEFINE K == [i \in 1..n |-> F[i]]
  <2>1. Solves(K)
    <3>1. \A i \in 1..n : F[i] = IF i = 1 THEN ss[i] ELSE K[i - 1] \o ss[i]
      <4> SUFFICES ASSUME NEW i \in 1..n PROVE F[i] = IF i = 1 THEN ss[i] ELSE K[i - 1] \o ss[i]
        OBVIOUS
      <4>1. CASE i = 1
        BY <1>9, <1>f, <4>1
      <4>2. CASE i # 1
        <5>1. i - 1 \in 1..n
          BY <1>1, <4>2
        <5> QED
          BY <1>6, <4>2, <5>1
      <4> QED
        BY <4>1, <4>2
    <3> HIDE DEF K
    <3>2. K = [i \in 1..n |-> IF i = 1 THEN ss[i] ELSE K[i - 1] \o ss[i]]
      BY <3>1 DEF K
    <3> QED
      BY <3>2
  <2> HIDE DEF K, Solves
  <2>2. Solves(flat)
    BY <2>1
  <2> DEFINE T == {i \in Nat : i + 1 <= n => flat[i + 1] = F[i + 1]}
  <2>3. flat[1] = ss[1] /\ \A i \in 1..n : i # 1 => flat[i] = flat[i - 1] \o ss[i]
    <3>1. \A i \in 1..n : flat[i] = IF i = 1 THEN ss[i] ELSE flat[i - 1] \o ss[i]
      <4> HIDE DEF flat
      <4> QED
        BY <2>2 DEF Solves
    <3> HIDE DEF flat
    <3>2. 1 \in 1..n
      BY <1>1, <1>9
    <3> QED
      BY <3>1, <3>2
  <2> HIDE DEF flat
  <2>4. 0 \in T
    BY <1>9, <1>f, <2>3
  <2>5. ASSUME NEW i \in T PROVE i + 1 \in T
    <3> SUFFICES ASSUME (i + 1) + 1 <= n PROVE flat[(i + 1) + 1] = F[(i + 1) + 1]
      OBVIOUS
    <3>1. (i + 1) + 1 \in 1..n /\ ((i + 1) + 1) - 1 = i + 1 /\ (i + 1) + 1 # 1 /\ flat[i + 1] = F[i + 1]
      BY <1>1, <2>5
    <3> QED
      BY <1>6, <2>3, <3>1
  <2>6. T = Nat
    <3>1. T \subseteq Nat
      OBVIOUS
    <3> HIDE DEF T
    <3> QED
      BY <2>4, <2>5, <3>1, Induction
  <2>7. flat[n] = F[n]
    <3>1. n - 1 \in Nat /\ (n - 1) + 1 = n
      BY <1>1, <1>9
    <3> QED
      BY <2>6, <3>1
  <2> QED
    BY <1>2, <1>7, <1>9, <2>7 DEF n
<1> QED
  BY <1>8, <1>9

(* What FlattenSeq gives is a sequence of the same things.                 *)
LEMMA FlattenIsSeq ==
    ASSUME NEW S, NEW ss \in Seq(Seq(S))
    PROVE  FlattenSeq(ss) \in Seq(S)
<1>1. PICK F : Flattens(S, ss, F) /\ F[Len(ss)] = FlattenSeq(ss)
  BY FlattenPath
<1>2. Len(ss) \in 0..Len(ss)
  BY LenProperties
<1> QED
  BY <1>1, <1>2 DEF Flattens

(* What a flattening has after m places is of those m places alone. *)
LEMMA FlattensAgree ==
    ASSUME NEW S, NEW ss \in Seq(Seq(S)), NEW tt \in Seq(Seq(S)), NEW F, NEW H,
           Flattens(S, ss, F), Flattens(S, tt, H), NEW m \in Nat, m <= Len(ss), m <= Len(tt),
           \A i \in 1..m : ss[i] = tt[i]
    PROVE  F[m] = H[m]
<1> DEFINE T == {k \in Nat : k <= m => F[k] = H[k]}
<1>0. Len(ss) \in Nat /\ Len(tt) \in Nat
  BY LenProperties
<1>1. /\ F[0] = << >> /\ \A i \in 1..Len(ss) : F[i] = F[i - 1] \o ss[i]
      /\ H[0] = << >> /\ \A i \in 1..Len(tt) : H[i] = H[i - 1] \o tt[i]
  BY DEF Flattens
<1>2. 0 \in T
  BY <1>1
<1>3. ASSUME NEW k \in T PROVE k + 1 \in T
  <2> SUFFICES ASSUME k + 1 <= m PROVE F[k + 1] = H[k + 1]
    OBVIOUS
  <2>1. /\ k + 1 \in 1..m /\ k + 1 \in 1..Len(ss) /\ k + 1 \in 1..Len(tt) /\ (k + 1) - 1 = k
        /\ F[k] = H[k]
    BY <1>0, <1>3
  <2> QED
    BY <1>1, <2>1
<1>4. T = Nat
  <2>1. T \subseteq Nat
    OBVIOUS
  <2> HIDE DEF T
  <2> QED
    BY <1>2, <1>3, <2>1, Induction
<1> QED
  BY <1>4

(* Of nothing, nothing.                                                    *)
LEMMA FlattenNothing == FlattenSeq(<< >>) = << >>
BY EmptySeq DEF FlattenSeq

(* FlattenSeq takes concatenation to concatenation.                        *)
LEMMA FlattenConcat ==
    ASSUME NEW S, NEW ss \in Seq(Seq(S)), NEW tt \in Seq(Seq(S))
    PROVE  FlattenSeq(ss \o tt) = FlattenSeq(ss) \o FlattenSeq(tt)
<1> DEFINE n == Len(ss)
           l == Len(tt)
<1>1. n \in Nat /\ l \in Nat /\ \A i \in 1..l : tt[i] \in Seq(S)
  BY LenProperties, ElementOfSeq
<1>2. PICK both : both = ss \o tt
  OBVIOUS
<1>3. /\ both \in Seq(Seq(S)) /\ Len(both) = n + l
      /\ \A i \in 1..(n + l) : both[i] = IF i <= n THEN ss[i] ELSE tt[i - n]
  BY <1>2, ConcatProperties
<1>4. PICK F : Flattens(S, ss, F) /\ F[n] = FlattenSeq(ss)
  BY FlattenPath
<1>5. PICK K : Flattens(S, tt, K) /\ K[l] = FlattenSeq(tt)
  BY FlattenPath
<1>6. PICK H : Flattens(S, both, H) /\ H[Len(both)] = FlattenSeq(both)
  BY <1>3, FlattenPath
<1> HIDE DEF n, l
<1>7. H[n] = F[n]
  <2>1. n \in Nat /\ n <= Len(both) /\ n <= Len(ss)
    BY <1>1, <1>3 DEF n
  <2>2. \A i \in 1..n : both[i] = ss[i]
    BY <1>1, <1>3
  <2>3. both \in Seq(Seq(S)) /\ Flattens(S, both, H) /\ Flattens(S, ss, F)
    BY <1>3, <1>4, <1>6
  <2> QED
    BY <2>1, <2>2, <2>3, FlattensAgree
<1>8. /\ F[n] \in Seq(S) /\ K[0] = << >> /\ \A i \in 0..l : K[i] \in Seq(S)
      /\ \A i \in 1..l : K[i] = K[i - 1] \o tt[i]
      /\ \A i \in 1..(n + l) : H[i] = H[i - 1] \o both[i]
  <2>1. n \in 0..Len(ss)
    BY <1>1 DEF n
  <2> QED
    BY <1>3, <1>4, <1>5, <1>6, <2>1 DEF Flattens, l
<1> DEFINE T == {m \in Nat : H[n + m] = F[n] \o K[m]}
<1>9. 0 \in T
  <2>1. n + 0 = n
    BY <1>1
  <2> QED
    BY <1>7, <1>8, <2>1, ConcatEmptySeq
<1>10. ASSUME NEW m \in Nat, m \in T, m < l PROVE m + 1 \in T
  <2>1. /\ m + 1 \in 1..l /\ (m + 1) - 1 = m /\ m \in 0..l
        /\ n + (m + 1) \in 1..(n + l) /\ (n + (m + 1)) - 1 = n + m
        /\ ~(n + (m + 1) <= n) /\ (n + (m + 1)) - n = m + 1
    BY <1>1, <1>10
  <2>2. both[n + (m + 1)] = tt[m + 1] /\ tt[m + 1] \in Seq(S)
    BY <1>1, <1>3, <2>1
  <2>3. H[n + (m + 1)] = (F[n] \o K[m]) \o tt[m + 1]
    BY <1>8, <1>10, <2>1, <2>2
  <2>4. (F[n] \o K[m]) \o tt[m + 1] = F[n] \o (K[m] \o tt[m + 1])
    <3>1. F[n] \in Seq(S) /\ K[m] \in Seq(S) /\ tt[m + 1] \in Seq(S)
      BY <1>8, <2>1, <2>2
    <3>2. \A x, y, z \in Seq(S) : (x \o y) \o z = x \o (y \o z)
      BY ConcatAssociative
    <3> QED
      BY <3>1, <3>2, Zenon
  <2>5. K[m + 1] = K[m] \o tt[m + 1]
    BY <1>8, <2>1
  <2>6. H[n + (m + 1)] = F[n] \o K[m + 1]
    BY <2>3, <2>4, <2>5
  <2>7. m + 1 \in Nat
    OBVIOUS
  <2> QED
    BY <2>6, <2>7, Zenon
<1>11. l \in T
  <2> HIDE DEF T
  <2> QED
    BY <1>1, <1>9, <1>10, UpTo
<1>12. H[n + l] = F[n] \o K[l]
  BY <1>11
<1> QED
  BY <1>2, <1>3, <1>4, <1>5, <1>6, <1>12

(* Of one sequence, that sequence.                                         *)
LEMMA FlattenOne ==
    ASSUME NEW S, NEW s \in Seq(S)
    PROVE  <<s>> \in Seq(Seq(S)) /\ FlattenSeq(<<s>>) = s
<1>1. PICK one : one = <<s>>
  OBVIOUS
<1>2. one \in Seq(Seq(S)) /\ Len(one) = 1 /\ one[1] = s
  BY <1>1
<1>3. PICK F : Flattens(S, one, F) /\ F[Len(one)] = FlattenSeq(one)
  BY <1>2, FlattenPath
<1>4. F[0] = << >> /\ \A i \in 1..1 : F[i] = F[i - 1] \o one[i]
  BY <1>2, <1>3 DEF Flattens
<1>5. F[1] = F[0] \o one[1]
  <2>1. 1 \in 1..1 /\ 1 - 1 = 0
    OBVIOUS
  <2> QED
    BY <1>4, <2>1
<1> QED
  BY <1>1, <1>2, <1>3, <1>4, <1>5, ConcatEmptySeq

(* Adjacent pieces of a sequence, flattened, are the sequence: p[i] is     *)
(* where the i-th ends.                                                    *)
LEMMA FlattenPieces ==
    ASSUME NEW S, NEW s \in Seq(S), NEW n \in Nat, NEW ss \in Seq(Seq(S)), Len(ss) = n,
           NEW p \in [0..n -> 0..Len(s)], p[0] = 0, p[n] = Len(s),
           \A i \in 1..n : p[i - 1] <= p[i] /\ ss[i] = SubSeq(s, p[i - 1] + 1, p[i])
    PROVE  FlattenSeq(ss) = s
<1>1. Len(s) \in Nat
  BY LenProperties
<1>2. PICK F : Flattens(S, ss, F) /\ F[n] = FlattenSeq(ss)
  BY FlattenPath
<1>3. F[0] = << >> /\ \A i \in 1..n : F[i] = F[i - 1] \o ss[i]
  BY <1>2 DEF Flattens
<1> DEFINE T == {k \in Nat : F[k] = SubSeq(s, 1, p[k])}
<1>4. 0 \in T
  <2>1. SubSeq(s, 1, 0) = << >>
    BY SubSeqEmpty
  <2> QED
    BY <1>3, <2>1
<1>5. ASSUME NEW k \in Nat, k \in T, k < n PROVE k + 1 \in T
  <2>1. k + 1 \in 1..n /\ (k + 1) - 1 = k /\ F[k] = SubSeq(s, 1, p[k]) /\ k \in 0..n /\ k + 1 \in 0..n
    BY <1>5
  <2>2. PICK a, b : a = p[k] /\ b = p[k + 1]
    OBVIOUS
  <2>3. a \in 0..Len(s) /\ b \in 0..Len(s) /\ a <= b /\ ss[k + 1] = SubSeq(s, a + 1, b)
    BY <2>1, <2>2
  <2>4. 1 \in 1..(Len(s) + 1) /\ a \in (1 - 1)..Len(s) /\ b \in a..Len(s)
    BY <1>1, <2>3
  <2>5. SubSeq(s, 1, a) \o SubSeq(s, a + 1, b) = SubSeq(s, 1, b)
    BY <2>4, ConcatAdjacentSubSeq
  <2>6. F[k + 1] = SubSeq(s, 1, p[k + 1])
    BY <1>3, <2>1, <2>2, <2>3, <2>5
  <2> QED
    BY <2>6
<1>6. n \in T
  <2> HIDE DEF T
  <2> QED
    BY <1>4, <1>5, UpTo
<1>7. F[n] = SubSeq(s, 1, Len(s))
  BY <1>6
<1> QED
  BY <1>2, <1>7, SubSeqFull

-----------------------------------------------------------------------------
(* The embedder.  What is owed is the texts of the batches that are still to *)
(* be embedded, in their order.                                            *)

Batch == [texts : Seq(Text), depth : Nat]
TextsOf(list) == [i \in DOMAIN list |-> list[i].texts]
Owed(list) == FlattenSeq(TextsOf(list))

(* The texts of some batches, batch by batch.                              *)
LEMMA TextsOfSeq ==
    ASSUME NEW list \in Seq(Batch)
    PROVE  /\ TextsOf(list) \in Seq(Seq(Text)) /\ Len(TextsOf(list)) = Len(list)
           /\ \A i \in 1..Len(list) : TextsOf(list)[i] = list[i].texts
<1>1. Len(list) \in Nat /\ DOMAIN list = 1..Len(list) /\ \A i \in 1..Len(list) : list[i].texts \in Seq(Text)
  <2>1. Len(list) \in Nat /\ DOMAIN list = 1..Len(list)
    BY LenProperties
  <2>2. \A i \in 1..Len(list) : list[i] \in Batch
    BY ElementOfSeq
  <2> QED
    BY <2>1, <2>2 DEF Batch
<1>2. TextsOf(list) \in [1..Len(list) -> Seq(Text)] /\ \A i \in 1..Len(list) : TextsOf(list)[i] = list[i].texts
  BY <1>1 DEF TextsOf
<1> QED
  BY <1>1, <1>2

(* What is owed are texts.                                                 *)
LEMMA OwedIsTexts ==
    ASSUME NEW list \in Seq(Batch)
    PROVE  Owed(list) \in Seq(Text)
BY TextsOfSeq, FlattenIsSeq DEF Owed

(* No batch owes anything.                                                 *)
LEMMA NothingOwed == Owed(<< >>) = << >>
<1>1. TextsOf(<< >>) \in Seq(Seq(Text)) /\ Len(TextsOf(<< >>)) = 0
  BY TextsOfSeq, EmptySeq
<1>2. TextsOf(<< >>) = << >>
  BY <1>1, EmptySeq
<1> QED
  BY <1>2, FlattenNothing DEF Owed

(* What two lists of batches owe, one after the other.                     *)
LEMMA OwedConcat ==
    ASSUME NEW s \in Seq(Batch), NEW t \in Seq(Batch)
    PROVE  Owed(s \o t) = Owed(s) \o Owed(t)
<1>1. PICK both, a, b : both = s \o t /\ a = TextsOf(s) /\ b = TextsOf(t)
  OBVIOUS
<1>2. /\ both \in Seq(Batch) /\ Len(both) = Len(s) + Len(t) /\ Len(s) \in Nat /\ Len(t) \in Nat
      /\ \A i \in 1..(Len(s) + Len(t)) : both[i] = IF i <= Len(s) THEN s[i] ELSE t[i - Len(s)]
  BY <1>1, ConcatProperties, LenProperties
<1>3. /\ TextsOf(both) \in Seq(Seq(Text)) /\ Len(TextsOf(both)) = Len(s) + Len(t)
      /\ \A i \in 1..(Len(s) + Len(t)) : TextsOf(both)[i] = both[i].texts
  BY <1>2, TextsOfSeq
<1>4. /\ a \in Seq(Seq(Text)) /\ Len(a) = Len(s) /\ \A i \in 1..Len(s) : a[i] = s[i].texts
      /\ b \in Seq(Seq(Text)) /\ Len(b) = Len(t) /\ \A i \in 1..Len(t) : b[i] = t[i].texts
  BY <1>1, TextsOfSeq
<1>5. /\ a \o b \in Seq(Seq(Text)) /\ Len(a \o b) = Len(s) + Len(t)
      /\ \A i \in 1..(Len(s) + Len(t)) : (a \o b)[i] = IF i <= Len(s) THEN a[i] ELSE b[i - Len(s)]
  <2>1. /\ a \o b \in Seq(Seq(Text)) /\ Len(a \o b) = Len(a) + Len(b)
        /\ \A i \in 1..(Len(a) + Len(b)) : (a \o b)[i] = IF i <= Len(a) THEN a[i] ELSE b[i - Len(a)]
    <3>1. PICK S : S = Seq(Text)
      OBVIOUS
    <3>2. a \in Seq(S) /\ b \in Seq(S)
      BY <1>4, <3>1
    <3> QED
      BY <3>1, <3>2, ConcatProperties
  <2> QED
    BY <1>4, <2>1
<1>6. \A i \in 1..(Len(s) + Len(t)) : TextsOf(both)[i] = (a \o b)[i]
  <2> SUFFICES ASSUME NEW i \in 1..(Len(s) + Len(t)) PROVE TextsOf(both)[i] = (a \o b)[i]
    OBVIOUS
  <2>1. CASE i <= Len(s)
    <3>1. i \in 1..Len(s)
      BY <1>2, <2>1
    <3> QED
      BY <1>2, <1>3, <1>4, <1>5, <2>1, <3>1
  <2>2. CASE ~(i <= Len(s))
    <3>1. i - Len(s) \in 1..Len(t)
      BY <1>2, <2>2
    <3> QED
      BY <1>2, <1>3, <1>4, <1>5, <2>2, <3>1
  <2> QED
    BY <2>1, <2>2
<1>7. TextsOf(both) = a \o b
  BY <1>3, <1>5, <1>6, SeqEqual
<1>8. FlattenSeq(a \o b) = FlattenSeq(a) \o FlattenSeq(b)
  BY <1>4, FlattenConcat
<1> QED
  BY <1>1, <1>7, <1>8 DEF Owed

(* A batch owes its texts.                                                 *)
LEMMA OwedOne ==
    ASSUME NEW b \in Batch
    PROVE  <<b>> \in Seq(Batch) /\ Owed(<<b>>) = b.texts
<1>1. PICK one : one = <<b>>
  OBVIOUS
<1>2. one \in Seq(Batch) /\ Len(one) = 1 /\ one[1] = b
  BY <1>1
<1>3. TextsOf(one) \in Seq(Seq(Text)) /\ Len(TextsOf(one)) = 1 /\ TextsOf(one)[1] = b.texts
  BY <1>2, TextsOfSeq
<1>4. b.texts \in Seq(Text)
  BY DEF Batch
<1>5. <<b.texts>> \in Seq(Seq(Text)) /\ FlattenSeq(<<b.texts>>) = b.texts
  BY <1>4, FlattenOne
<1>6. Len(<<b.texts>>) = 1 /\ <<b.texts>>[1] = b.texts
  OBVIOUS
<1>7. TextsOf(one) = <<b.texts>>
  <2>1. PICK other : other = <<b.texts>>
    OBVIOUS
  <2>2. other \in Seq(Seq(Text)) /\ Len(other) = Len(TextsOf(one)) /\ \A i \in 1..Len(TextsOf(one)) : TextsOf(one)[i] = other[i]
    BY <1>3, <1>5, <1>6, <2>1
  <2>3. TextsOf(one) = other
    BY <1>3, <2>2, SeqEqual
  <2> QED
    BY <2>1, <2>3
<1> QED
  BY <1>1, <1>2, <1>5, <1>7 DEF Owed

(* Two batches owe their texts in their order.                             *)
LEMMA OwedTwo ==
    ASSUME NEW b \in Batch, NEW c \in Batch
    PROVE  <<b, c>> \in Seq(Batch) /\ Owed(<<b, c>>) = b.texts \o c.texts
<1>1. <<b>> \in Seq(Batch) /\ <<c>> \in Seq(Batch) /\ Owed(<<b>>) = b.texts /\ Owed(<<c>>) = c.texts
  BY OwedOne
<1>2. <<b, c>> \in Seq(Batch) /\ <<b, c>> = <<b>> \o <<c>>
  <2>1. PICK one, other, two : one = <<b>> /\ other = <<c>> /\ two = <<b, c>>
    OBVIOUS
  <2>2. /\ one \in Seq(Batch) /\ Len(one) = 1 /\ one[1] = b
        /\ other \in Seq(Batch) /\ Len(other) = 1 /\ other[1] = c
    BY <1>1, <2>1
  <2>3. two \in Seq(Batch) /\ Len(two) = 2 /\ two[1] = b /\ two[2] = c
    BY <2>1
  <2>4. /\ one \o other \in Seq(Batch) /\ Len(one \o other) = 1 + 1
        /\ \A i \in 1..(1 + 1) : (one \o other)[i] = IF i <= 1 THEN one[i] ELSE other[i - 1]
    <3>1. /\ one \o other \in Seq(Batch) /\ Len(one \o other) = Len(one) + Len(other)
          /\ \A i \in 1..(Len(one) + Len(other)) :
                (one \o other)[i] = IF i <= Len(one) THEN one[i] ELSE other[i - Len(one)]
      BY <2>2, ConcatProperties
    <3> QED
      BY <2>2, <3>1
  <2>5. \A i \in 1..2 : two[i] = (one \o other)[i]
    <3>1. 1 \in 1..(1 + 1) /\ 2 \in 1..(1 + 1) /\ 1 <= 1 /\ ~(2 <= 1) /\ 2 - 1 = 1
          /\ \A i \in 1..2 : i = 1 \/ i = 2
      OBVIOUS
    <3>2. (one \o other)[1] = one[1]
      BY <2>4, <3>1
    <3>3. (one \o other)[2] = other[1]
      BY <2>4, <3>1
    <3> QED
      BY <2>2, <2>3, <3>1, <3>2, <3>3
  <2>6. two = one \o other
    BY <2>3, <2>4, <2>5, SeqEqual
  <2> QED
    BY <2>1, <2>3, <2>6
<1> QED
  BY <1>1, <1>2, OwedConcat

(* The first batch, and the others.                                        *)
LEMMA OwedFirst ==
    ASSUME NEW list \in Seq(Batch), list # << >>
    PROVE  /\ Head(list) \in Batch /\ Tail(list) \in Seq(Batch)
           /\ Owed(list) = Head(list).texts \o Owed(Tail(list))
<1>1. Head(list) \in Batch /\ Tail(list) \in Seq(Batch)
  BY HeadTailProperties
<1>2. list = <<Head(list)>> \o Tail(list)
  <2>1. /\ Len(list) \in Nat \ {0} /\ Head(list) = list[1]
        /\ Len(Tail(list)) = Len(list) - 1 /\ \A i \in 1..(Len(list) - 1) : Tail(list)[i] = list[i + 1]
    BY EmptySeq, LenProperties, HeadTailProperties
  <2>2. PICK one, rest : one = <<Head(list)>> /\ rest = Tail(list)
    OBVIOUS
  <2>3. one \in Seq(Batch) /\ Len(one) = 1 /\ one[1] = list[1]
    BY <1>1, <2>1, <2>2
  <2>4. /\ one \o rest \in Seq(Batch) /\ Len(one \o rest) = Len(one) + Len(rest)
        /\ \A i \in 1..(Len(one) + Len(rest)) : (one \o rest)[i] = IF i <= Len(one) THEN one[i] ELSE rest[i - Len(one)]
    BY <1>1, <2>2, <2>3, ConcatProperties
  <2>5. Len(one \o rest) = Len(list)
    BY <2>1, <2>2, <2>3, <2>4
  <2>6. \A i \in 1..Len(list) : (one \o rest)[i] = list[i]
    <3> SUFFICES ASSUME NEW i \in 1..Len(list) PROVE (one \o rest)[i] = list[i]
      OBVIOUS
    <3>1. i \in 1..(Len(one) + Len(rest)) /\ (i = 1 \/ (i - 1 \in 1..(Len(list) - 1) /\ ~(i <= 1))) /\ (i - 1) + 1 = i
      BY <2>1, <2>2, <2>3
    <3> QED
      BY <2>1, <2>2, <2>3, <2>4, <3>1
  <2>7. one \o rest = list
    BY <2>4, <2>5, <2>6, SeqEqual
  <2> QED
    BY <2>2, <2>7
<1>3. <<Head(list)>> \in Seq(Batch) /\ Owed(<<Head(list)>>) = Head(list).texts
  BY <1>1, OwedOne
<1>4. Owed(<<Head(list)>> \o Tail(list)) = Owed(<<Head(list)>>) \o Owed(Tail(list))
  BY <1>1, <1>3, OwedConcat
<1> QED
  BY <1>1, <1>2, <1>3, <1>4

(* The elements of a sequence, place by place.                             *)
LEMMA RangeIs ==
    ASSUME NEW S, NEW s \in Seq(S)
    PROVE  Range(s) = {s[i] : i \in 1..Len(s)} /\ Range(s) \subseteq S
<1>1. DOMAIN s = 1..Len(s) /\ \A i \in 1..Len(s) : s[i] \in S
  BY LenProperties, ElementOfSeq
<1> QED
  BY <1>1 DEF Range

(* The elements of two sequences, one after the other.                     *)
LEMMA RangeOfConcat ==
    ASSUME NEW S, NEW s \in Seq(S), NEW t \in Seq(S)
    PROVE  Range(s \o t) = Range(s) \cup Range(t)
<1>1. Len(s) \in Nat /\ Len(t) \in Nat
  BY LenProperties
<1>2. PICK both : both = s \o t
  OBVIOUS
<1>3. /\ both \in Seq(S) /\ Len(both) = Len(s) + Len(t)
      /\ \A i \in 1..(Len(s) + Len(t)) : both[i] = IF i <= Len(s) THEN s[i] ELSE t[i - Len(s)]
  BY <1>2, ConcatProperties
<1>r. /\ Range(s) = {s[i] : i \in 1..Len(s)} /\ Range(t) = {t[i] : i \in 1..Len(t)}
      /\ Range(both) = {both[i] : i \in 1..Len(both)}
  BY <1>3, RangeIs
<1>4. ASSUME NEW x \in Range(both) PROVE x \in Range(s) \cup Range(t)
  <2>1. PICK i \in 1..(Len(s) + Len(t)) : both[i] = x
    BY <1>3, <1>r
  <2>2. IF i <= Len(s) THEN i \in 1..Len(s) ELSE i - Len(s) \in 1..Len(t)
    BY <1>1
  <2> QED
    BY <1>3, <1>r, <2>1, <2>2
<1>5. ASSUME NEW x \in Range(s) PROVE x \in Range(both)
  <2>1. PICK i \in 1..Len(s) : s[i] = x
    BY <1>r
  <2>2. i \in 1..(Len(s) + Len(t)) /\ i <= Len(s)
    BY <1>1
  <2> QED
    BY <1>3, <1>r, <2>1, <2>2
<1>6. ASSUME NEW x \in Range(t) PROVE x \in Range(both)
  <2>1. PICK i \in 1..Len(t) : t[i] = x
    BY <1>r
  <2>2. Len(s) + i \in 1..(Len(s) + Len(t)) /\ ~(Len(s) + i <= Len(s)) /\ (Len(s) + i) - Len(s) = i
    BY <1>1
  <2>3. both[Len(s) + i] = x
    BY <1>3, <2>1, <2>2
  <2> QED
    BY <1>3, <1>r, <2>2, <2>3
<1> QED
  BY <1>2, <1>4, <1>5, <1>6

(* The first of a sequence, and the others.                                *)
LEMMA RangeOfTail ==
    ASSUME NEW S, NEW s \in Seq(S), s # << >>
    PROVE  Head(s) \in Range(s) /\ Range(Tail(s)) \subseteq Range(s)
<1>1. /\ Len(s) \in Nat \ {0} /\ Head(s) = s[1] /\ Tail(s) \in Seq(S)
      /\ Len(Tail(s)) = Len(s) - 1 /\ \A i \in 1..(Len(s) - 1) : Tail(s)[i] = s[i + 1]
  BY EmptySeq, LenProperties, HeadTailProperties
<1>2. 1 \in 1..Len(s) /\ \A i \in 1..(Len(s) - 1) : i + 1 \in 1..Len(s)
  BY <1>1
<1>r. Range(s) = {s[i] : i \in 1..Len(s)} /\ Range(Tail(s)) = {Tail(s)[i] : i \in 1..Len(Tail(s))}
  BY <1>1, RangeIs
<1>3. Head(s) \in Range(s)
  BY <1>1, <1>2, <1>r
<1>4. ASSUME NEW x \in Range(Tail(s)) PROVE x \in Range(s)
  <2>1. PICK i \in 1..(Len(s) - 1) : Tail(s)[i] = x
    BY <1>1, <1>r
  <2> QED
    BY <1>1, <1>2, <1>r, <2>1
<1> QED
  BY <1>3, <1>4

(* The halves of a sequence: its two adjacent pieces. *)
LEMMA HalvesOf ==
    ASSUME NEW S, NEW s \in Seq(S)
    PROVE  /\ Halves(s)[1] \in Seq(S) /\ Halves(s)[2] \in Seq(S)
           /\ Halves(s)[1] \o Halves(s)[2] = s
           /\ Len(Halves(s)[1]) = Len(s) \div 2 /\ Len(Halves(s)[2]) = Len(s) - Len(s) \div 2
           /\ Range(Halves(s)[1]) \cup Range(Halves(s)[2]) = Range(s)
<1>1. PICK n, half : n = Len(s) /\ half = n \div 2
  OBVIOUS
<1>2. n \in Nat /\ half \in 0..n /\ half \in Nat
  <2>1. n \in Nat
    BY <1>1, LenProperties
  <2> QED
    BY <1>1, <2>1
<1>3. \A i \in 1..n : s[i] \in S
  BY <1>1, ElementOfSeq
<1>4. PICK a, b : a = SubSeq(s, 1, half) /\ b = SubSeq(s, half + 1, n)
  OBVIOUS
<1>5. Halves(s)[1] = a /\ Halves(s)[2] = b
  BY <1>1, <1>4 DEF Halves
<1>6. a \in Seq(S) /\ Len(a) = half
  <2>1. 1 \in Int /\ half \in Int /\ \A i \in 1..half : s[i] \in S
    BY <1>2, <1>3
  <2>2. SubSeq(s, 1, half) \in Seq(S) /\ Len(SubSeq(s, 1, half)) = IF 1 <= half THEN half - 1 + 1 ELSE 0
    BY <2>1, SubSeqProperties
  <2> QED
    BY <1>2, <1>4, <2>2
<1>7. b \in Seq(S) /\ Len(b) = n - half
  <2>1. half + 1 \in Int /\ n \in Int /\ \A i \in (half + 1)..n : s[i] \in S
    BY <1>2, <1>3
  <2>2. SubSeq(s, half + 1, n) \in Seq(S) /\ Len(SubSeq(s, half + 1, n)) = IF half + 1 <= n THEN n - (half + 1) + 1 ELSE 0
    BY <2>1, SubSeqProperties
  <2> QED
    BY <1>2, <1>4, <2>2
<1>8. a \o b = s
  <2>1. 1 \in 1..(Len(s) + 1) /\ half \in (1 - 1)..Len(s) /\ n \in half..Len(s)
    BY <1>1, <1>2
  <2>2. SubSeq(s, 1, half) \o SubSeq(s, half + 1, n) = SubSeq(s, 1, n)
    BY <2>1, ConcatAdjacentSubSeq
  <2>3. SubSeq(s, 1, n) = s
    BY <1>1, SubSeqFull
  <2> QED
    BY <1>4, <2>2, <2>3
<1>9. Range(a) \cup Range(b) = Range(s)
  <2>1. Range(a \o b) = Range(a) \cup Range(b)
    BY <1>6, <1>7, RangeOfConcat, Zenon
  <2> QED
    BY <1>8, <2>1, Zenon
<1> QED
  BY <1>1, <1>5, <1>6, <1>7, <1>8, <1>9

(* A batch that is replaced by two, at the head of what is to be embedded. *)
LEMMA ByTwo ==
    ASSUME NEW list \in Seq(Batch), list # << >>, NEW b \in Batch, NEW c \in Batch
    PROVE  /\ <<b, c>> \o Tail(list) \in Seq(Batch)
           /\ Owed(<<b, c>> \o Tail(list)) = (b.texts \o c.texts) \o Owed(Tail(list))
           /\ Range(<<b, c>> \o Tail(list)) \subseteq {b, c} \cup Range(list)
<1>1. PICK two, rest : two = <<b, c>> /\ rest = Tail(list)
  OBVIOUS
<1>2. two \in Seq(Batch) /\ Len(two) = 2 /\ two[1] = b /\ two[2] = c
  BY <1>1
<1>3. Owed(two) = b.texts \o c.texts
  BY <1>1, OwedTwo
<1>4. rest \in Seq(Batch) /\ Range(rest) \subseteq Range(list)
  BY <1>1, OwedFirst, RangeOfTail
<1>5. two \o rest \in Seq(Batch) /\ Owed(two \o rest) = Owed(two) \o Owed(rest)
  BY <1>2, <1>4, ConcatProperties, OwedConcat
<1>6. Range(two) = {b, c}
  <2>1. Range(two) = {two[i] : i \in 1..2}
    BY <1>2, RangeIs
  <2>2. \A i : i \in 1..2 <=> i = 1 \/ i = 2
    OBVIOUS
  <2> QED
    BY <1>2, <2>1, <2>2
<1>7. Range(two \o rest) = Range(two) \cup Range(rest)
  BY <1>2, <1>4, RangeOfConcat
<1> QED
  BY <1>1, <1>3, <1>4, <1>5, <1>6, <1>7

(* A stretch of a sequence has none but its elements.                      *)
LEMMA RangeOfSubSeq ==
    ASSUME NEW S, NEW s \in Seq(S), NEW a \in Nat \ {0}, NEW b \in Nat, b <= Len(s)
    PROVE  SubSeq(s, a, b) \in Seq(S) /\ Range(SubSeq(s, a, b)) \subseteq Range(s)
<1>1. Len(s) \in Nat /\ \A i \in a..b : i \in 1..Len(s) /\ s[i] \in S
  BY LenProperties, ElementOfSeq
<1>2. PICK piece : piece = SubSeq(s, a, b)
  OBVIOUS
<1>3. /\ piece \in Seq(S) /\ Len(piece) = IF a <= b THEN b - a + 1 ELSE 0
      /\ \A i \in 1..(b - a + 1) : piece[i] = s[a + i - 1]
  BY <1>1, <1>2, SubSeqProperties
<1>4. Range(s) = {s[i] : i \in 1..Len(s)}
  BY RangeIs
<1>5. Range(piece) = {piece[i] : i \in 1..Len(piece)}
  BY <1>3, RangeIs
<1>6. ASSUME NEW x \in Range(piece) PROVE x \in Range(s)
  <2>1. PICK i \in 1..Len(piece) : piece[i] = x
    BY <1>5
  <2>2. i \in 1..(b - a + 1) /\ a + i - 1 \in a..b
    BY <1>3
  <2> QED
    BY <1>1, <1>3, <1>4, <2>1, <2>2
<1> QED
  BY <1>2, <1>3, <1>6

(* The batches that the indexer starts with owe what was kept.             *)
LEMMA FirstBatches ==
    ASSUME NEW s \in Seq(Text)
    PROVE  /\ Batches(s) \in Seq(Batch) /\ Owed(Batches(s)) = s
           /\ \A i \in 1..Len(Batches(s)) :
                 Batches(s)[i].depth = 0 /\ Range(Batches(s)[i].texts) \subseteq Range(s)
<1> DEFINE B == BatchSize
           L == Len(s)
           n == (L + B - 1) \div B
           b == Batches(s)
           p == [k \in 0..n |-> Smaller(k * B, L)]
<1>1. B \in Nat \ {0} /\ L \in Nat /\ \A i \in 1..L : s[i] \in Text
  BY IndexingAssumption, LenProperties, ElementOfSeq
<1>2. n \in Nat /\ n * B <= L + B - 1 /\ L + B - 1 < n * B + B
  BY <1>1
<1>3. b = [k \in 1..n |-> [texts |-> SubSeq(s, (k - 1) * B + 1, Smaller(k * B, L)), depth |-> 0]]
  BY DEF Batches
<1> HIDE DEF n, b, B, L
<1>4. ASSUME NEW k \in 1..n PROVE (k - 1) * B < L /\ (k - 1) * B \in Nat /\ k * B = (k - 1) * B + B
  <2>1. n * B = k * B + (n - k) * B
    BY <1>1, <1>2
  <2>2. (n - k) * B >= 0 /\ (n - k) * B \in Nat /\ k * B \in Nat /\ n * B \in Nat
    BY <1>1, <1>2
  <2>3. k * B = (k - 1) * B + B /\ (k - 1) * B \in Nat
    BY <1>1, <1>2
  <2> QED
    BY <1>1, <1>2, <2>1, <2>2, <2>3
<1>5. n * B >= L /\ n * B \in Nat
  BY <1>1, <1>2
<1>6. ASSUME NEW k \in 1..n
      PROVE  /\ Smaller((k - 1) * B, L) = (k - 1) * B
             /\ Smaller(k * B, L) \in ((k - 1) * B)..L
  BY <1>1, <1>4 DEF Smaller
<1>7. ASSUME NEW k \in 1..n
      PROVE  /\ SubSeq(s, (k - 1) * B + 1, Smaller(k * B, L)) \in Seq(Text)
             /\ Range(SubSeq(s, (k - 1) * B + 1, Smaller(k * B, L))) \subseteq Range(s)
  <2>1. (k - 1) * B + 1 \in Int /\ Smaller(k * B, L) \in Int
    BY <1>1, <1>4, <1>6
  <2>2. PICK from, to : from = (k - 1) * B + 1 /\ to = Smaller(k * B, L)
    OBVIOUS
  <2>3. from \in Nat \ {0} /\ to \in Nat /\ to <= Len(s)
    BY <1>1, <1>4, <1>6, <2>2 DEF L
  <2> QED
    BY <2>2, <2>3, RangeOfSubSeq
<1>8. /\ b \in Seq(Batch) /\ Len(b) = n
      /\ \A k \in 1..n : b[k].texts = SubSeq(s, (k - 1) * B + 1, Smaller(k * B, L)) /\ b[k].depth = 0
  <2>1. \A k \in 1..n : [texts |-> SubSeq(s, (k - 1) * B + 1, Smaller(k * B, L)), depth |-> 0] \in Batch
    BY <1>7 DEF Batch
  <2>2. b \in [1..n -> Batch]
    BY <1>3, <2>1
  <2>3. b \in Seq(Batch) /\ Len(b) = n
    BY <1>2, <2>2
  <2> QED
    BY <1>3, <2>3
<1>9. p \in [0..n -> 0..L] /\ p[0] = 0 /\ p[n] = L
  <2>1. \A k \in 0..n : Smaller(k * B, L) \in 0..L
    <3> SUFFICES ASSUME NEW k \in 0..n PROVE Smaller(k * B, L) \in 0..L
      OBVIOUS
    <3>1. k * B \in Nat
      BY <1>1, <1>2
    <3> QED
      BY <1>1, <3>1 DEF Smaller
  <2>2. Smaller(0 * B, L) = 0 /\ 0 \in 0..n /\ n \in 0..n
    BY <1>1, <1>2 DEF Smaller
  <2>3. Smaller(n * B, L) = L
    BY <1>1, <1>5 DEF Smaller
  <2> QED
    BY <2>1, <2>2, <2>3
<1>10. ASSUME NEW k \in 1..n
       PROVE  p[k - 1] <= p[k] /\ b[k].texts = SubSeq(s, p[k - 1] + 1, p[k])
  <2>1. p[k - 1] = (k - 1) * B /\ p[k] = Smaller(k * B, L)
    <3>1. k - 1 \in 0..n /\ k \in 0..n
      BY <1>2
    <3> QED
      BY <1>6, <3>1
  <2>2. (k - 1) * B <= Smaller(k * B, L)
    BY <1>1, <1>4, <1>6
  <2> QED
    BY <1>8, <2>1, <2>2
<1> HIDE DEF p
<1>11. /\ TextsOf(b) \in Seq(Seq(Text)) /\ Len(TextsOf(b)) = n
       /\ \A k \in 1..n : TextsOf(b)[k] = b[k].texts
  BY <1>8, TextsOfSeq
<1>12. FlattenSeq(TextsOf(b)) = s
  <2>1. \A k \in 1..n : p[k - 1] <= p[k] /\ TextsOf(b)[k] = SubSeq(s, p[k - 1] + 1, p[k])
    BY <1>10, <1>11
  <2>2. p \in [0..n -> 0..Len(s)] /\ p[0] = 0 /\ p[n] = Len(s)
    BY <1>9 DEF L
  <2> QED
    BY <1>2, <1>11, <2>1, <2>2, FlattenPieces
<1> QED
  BY <1>7, <1>8, <1>12 DEF b, Owed

-----------------------------------------------------------------------------
(* The invariant of the indexer: the texts with a vector and those owed are *)
(* the kept ones, unless a length was refused; letter for letter they are, *)
(* where cutting is enough.                                                *)

(* What the indexer holds, and that the limits are a provider's. *)
IndexingTypeOK ==
    /\ Document /\ limit \in Limits /\ phase \in {"fresh", "embedding", "indexed", "failed"}
    /\ kept \in Bounds /\ todo \in Seq(Batch) /\ texts \in Seq(Text)
    /\ phase = "fresh" => texts = << >>

(* A batch that cutting has not left too long for what may still be cut.   *)
Manageable(batch) ==
    /\ batch.depth <= SplitDepth
    /\ \A t \in Range(batch.texts) : Len(t) * Power[batch.depth] <= Target - 1 + Power[batch.depth]

Whole ==
    /\ NoneTooLong /\ phase = "embedding" => texts \o Owed(todo) = kept
    /\ NoneTooLong /\ phase = "indexed" => texts = kept

Lossless ==
    /\ CuttingIsEnough /\ phase = "embedding" =>
          /\ FlattenSeq(texts) \o FlattenSeq(Owed(todo)) = FlattenSeq(kept)
          /\ \A batch \in Range(todo) : Manageable(batch)
    /\ CuttingIsEnough /\ phase = "indexed" => FlattenSeq(texts) = FlattenSeq(kept)

IndexingInv == IndexingTypeOK /\ Whole /\ Lossless

(* The batch that is embedded next, and the others.                        *)
LEMMA TopOfTodo ==
    ASSUME todo \in Seq(Batch), todo # << >>
    PROVE  /\ Top \in Batch /\ Top \in Range(todo) /\ Top.texts \in Seq(Text) /\ Top.depth \in Nat
           /\ Tail(todo) \in Seq(Batch) /\ Range(Tail(todo)) \subseteq Range(todo)
           /\ Owed(todo) = Top.texts \o Owed(Tail(todo)) /\ Owed(Tail(todo)) \in Seq(Text)
BY OwedFirst, OwedIsTexts, RangeOfTail DEF Top, Batch

(* A batch of one text.                                                    *)
LEMMA SingleOfTop ==
    ASSUME todo \in Seq(Batch), todo # << >>, Len(Top.texts) = 1
    PROVE  /\ Single \in Text /\ Top.texts = <<Single>> /\ Single \in Range(Top.texts)
           /\ (TooLong(Top.texts) => Len(Single) > limit.length)
<1>1. PICK t : t = Top.texts
  OBVIOUS
<1>2. t \in Seq(Text) /\ Len(t) = 1 /\ 1 \in 1..1 /\ 1..1 = {1}
  BY <1>1, TopOfTodo
<1>3. t[1] \in Text /\ Single = t[1] /\ DOMAIN t = {1}
  BY <1>1, <1>2, ElementOfSeq, LenProperties DEF Single
<1>4. t = <<t[1]>>
  <2>1. PICK one : one = <<t[1]>>
    OBVIOUS
  <2>2. one \in Seq(Text) /\ Len(one) = 1 /\ one[1] = t[1]
    BY <1>3, <2>1
  <2>3. \A i \in 1..Len(t) : t[i] = one[i]
    BY <1>2, <2>2
  <2>4. t = one
    BY <1>2, <2>2, <2>3, SeqEqual
  <2> QED
    BY <2>1, <2>4
<1>5. t[1] \in Range(t)
  BY <1>3 DEF Range
<1>6. TooLong(t) => Len(t[1]) > limit.length
  BY <1>3 DEF TooLong
<1> QED
  BY <1>1, <1>3, <1>4, <1>5, <1>6

(* The two batches that a batch is halved into, and a text is cut into.    *)
LEMMA HalfBatches ==
    ASSUME NEW s \in Seq(Text), NEW depth \in Nat
    PROVE  LET b == [texts |-> Halves(s)[1], depth |-> depth]
               c == [texts |-> Halves(s)[2], depth |-> depth]
           IN  /\ LeftFirst(Halves(s), depth) = <<b, c>> /\ b \in Batch /\ c \in Batch
               /\ b.texts \o c.texts = s /\ b.depth = depth /\ c.depth = depth
               /\ Range(b.texts) \subseteq Range(s) /\ Range(c.texts) \subseteq Range(s)
BY HalvesOf DEF LeftFirst, Batch

(* The two batches of a text that is cut: its letters, in their order.     *)
LEMMA CutBatches ==
    ASSUME NEW s \in Text, NEW depth \in Nat
    PROVE  LET b == [texts |-> <<Halves(s)[1]>>, depth |-> depth]
               c == [texts |-> <<Halves(s)[2]>>, depth |-> depth]
           IN  /\ LeftFirst([h \in 1..2 |-> <<Halves(s)[h]>>], depth) = <<b, c>> /\ b \in Batch /\ c \in Batch
               /\ b.depth = depth /\ c.depth = depth
               /\ FlattenSeq(b.texts \o c.texts) = s
               /\ Range(b.texts) = {Halves(s)[1]} /\ Range(c.texts) = {Halves(s)[2]}
<1>1. PICK x, y, left, right : x = Halves(s)[1] /\ y = Halves(s)[2] /\ left = <<x>> /\ right = <<y>>
  OBVIOUS
<1>2. x \in Text /\ y \in Text /\ x \o y = s
  BY <1>1, HalvesOf DEF Text
<1>3. /\ left \in Seq(Text) /\ Len(left) = 1 /\ left[1] = x
      /\ right \in Seq(Text) /\ Len(right) = 1 /\ right[1] = y
  BY <1>1, <1>2, OneText
<1>4. LeftFirst([h \in 1..2 |-> <<Halves(s)[h]>>], depth)
        = <<[texts |-> left, depth |-> depth], [texts |-> right, depth |-> depth]>>
  BY <1>1 DEF LeftFirst
<1>5. FlattenSeq(left \o right) = s
  <2>1. FlattenSeq(left) = x /\ FlattenSeq(right) = y
    BY <1>1, <1>2, FlattenOne DEF Text
  <2>2. FlattenSeq(left \o right) = FlattenSeq(left) \o FlattenSeq(right)
    BY <1>3, FlattenConcat DEF Text
  <2> QED
    BY <1>2, <2>1, <2>2
<1>6. Range(left) = {x} /\ Range(right) = {y}
  <2>1. DOMAIN left = {1} /\ DOMAIN right = {1}
    <3>1. DOMAIN left = 1..1 /\ DOMAIN right = 1..1 /\ 1..1 = {1}
      BY <1>3, LenProperties
    <3> QED
      BY <3>1
  <2> QED
    BY <1>3, <2>1 DEF Range
<1>7. [texts |-> left, depth |-> depth] \in Batch /\ [texts |-> right, depth |-> depth] \in Batch
  BY <1>3 DEF Batch
<1> QED
  BY <1>1, <1>4, <1>5, <1>6, <1>7

(* Start: nothing has a vector, and all that is kept is owed.              *)
LEMMA StartStep ==
    ASSUME IndexingInv, Start
    PROVE  IndexingInv'
<1>1. PICK dull : kept' = Bounded(dull) /\ todo' = Batches(Bounded(dull))
  BY DEF Start
<1>2. PICK s : s = Bounded(dull)
  OBVIOUS
<1>3. /\ phase = "fresh" /\ phase' = "embedding" /\ kept' = s /\ todo' = Batches(s)
      /\ UNCHANGED <<shape, limit, texts>> /\ texts = << >>
  BY <1>1, <1>2 DEF Start, IndexingInv, IndexingTypeOK
<1>4. s \in Bounds /\ s \in Seq(Text)
  BY <1>2, BoundedIsKept DEF IndexingInv, IndexingTypeOK, Bounds
<1>5. /\ Batches(s) \in Seq(Batch) /\ Owed(Batches(s)) = s
      /\ \A i \in 1..Len(Batches(s)) :
            Batches(s)[i].depth = 0 /\ Range(Batches(s)[i].texts) \subseteq Range(s)
  BY <1>4, FirstBatches
<1>6. IndexingTypeOK'
  BY <1>3, <1>4, <1>5, NoText DEF IndexingInv, IndexingTypeOK, Document
<1>7. Whole'
  <2>1. << >> \o s = s
    BY <1>4, ConcatEmptySeq
  <2> QED
    BY <1>3, <1>5, <2>1 DEF Whole
<1>8. FlattenSeq(<< >>) \o FlattenSeq(s) = FlattenSeq(s)
  <2>1. FlattenSeq(s) \in Seq(Character)
    BY <1>4, FlattenIsSeq DEF Text
  <2> QED
    BY <2>1, FlattenNothing, ConcatEmptySeq
<1>9. ASSUME NEW batch \in Range(Batches(s)) PROVE Manageable(batch)
  <2>1. PICK i \in 1..Len(Batches(s)) : batch = Batches(s)[i]
    BY <1>5, LenProperties DEF Range
  <2>2. batch \in Batch /\ batch.depth = 0
    BY <1>5, <2>1, ElementOfSeq
  <2>3. Power[0] = 1 /\ 0 <= SplitDepth
    BY Powers, IndexingAssumption
  <2>4. ASSUME NEW t \in Range(batch.texts) PROVE Len(t) * 1 <= Target - 1 + 1
    <3>1. t \in Range(s)
      BY <1>5, <2>1
    <3>2. PICK k \in 1..Len(s) : t = s[k]
      BY <1>4, <3>1, LenProperties DEF Range
    <3>3. Len(t) <= Target /\ t \in Text
      BY <1>4, <3>2, ElementOfSeq DEF Bounds, Fits
    <3>4. Len(t) \in Nat /\ Target \in Nat
      BY <3>3, LenProperties, Budget DEF Text
    <3> QED
      BY <3>3, <3>4
  <2> QED
    BY <2>2, <2>3, <2>4 DEF Manageable
<1>10. Lossless'
  BY <1>3, <1>5, <1>8, <1>9 DEF Lossless
<1> QED
  BY <1>6, <1>7, <1>10 DEF IndexingInv

(* Concatenation is associative, of texts and of sequences of texts.       *)
LEMMA AssociativeTexts ==
    /\ \A x, y, z \in Seq(Character) : (x \o y) \o z = x \o (y \o z)
    /\ \A x, y, z \in Seq(Text) : (x \o y) \o z = x \o (y \o z)
<1>1. ASSUME NEW x \in Seq(Character), NEW y \in Seq(Character), NEW z \in Seq(Character)
      PROVE  (x \o y) \o z = x \o (y \o z)
  BY ConcatAssociative
<1>2. ASSUME NEW x \in Seq(Text), NEW y \in Seq(Text), NEW z \in Seq(Text)
      PROVE  (x \o y) \o z = x \o (y \o z)
  BY ConcatAssociative
<1> QED
  BY <1>1, <1>2

(* What has a vector, what is next and what is owed after it.              *)
LEMMA Regrouped ==
    ASSUME NEW a \in Seq(Text), NEW b \in Seq(Text), NEW c \in Seq(Text)
    PROVE  /\ a \o b \in Seq(Text) /\ (a \o b) \o c = a \o (b \o c)
           /\ FlattenSeq(a \o b) \o FlattenSeq(c) = FlattenSeq(a) \o FlattenSeq(b \o c)
<1>1. FlattenSeq(a) \in Seq(Character) /\ FlattenSeq(b) \in Seq(Character) /\ FlattenSeq(c) \in Seq(Character)
  BY FlattenIsSeq DEF Text
<1>2. FlattenSeq(a \o b) = FlattenSeq(a) \o FlattenSeq(b) /\ FlattenSeq(b \o c) = FlattenSeq(b) \o FlattenSeq(c)
  BY FlattenConcat DEF Text
<1>3. (FlattenSeq(a) \o FlattenSeq(b)) \o FlattenSeq(c) = FlattenSeq(a) \o (FlattenSeq(b) \o FlattenSeq(c))
  BY <1>1, AssociativeTexts, Zenon
<1>4. (a \o b) \o c = a \o (b \o c)
  BY AssociativeTexts, Zenon
<1>5. a \o b \in Seq(Text)
  BY ConcatProperties
<1> QED
  BY <1>2, <1>3, <1>4, <1>5

(* Accepted: the texts of the first batch are no longer owed.              *)
LEMMA AcceptedStep ==
    ASSUME IndexingInv, Accepted
    PROVE  IndexingInv'
<1>1. /\ phase = "embedding" /\ todo # << >> /\ texts' = texts \o Top.texts /\ todo' = Tail(todo)
      /\ UNCHANGED <<shape, limit, phase, kept>>
  BY DEF Accepted, Embedding
<1>2. texts \in Seq(Text) /\ todo \in Seq(Batch)
  BY DEF IndexingInv, IndexingTypeOK
<1>3. /\ Top.texts \in Seq(Text) /\ Tail(todo) \in Seq(Batch) /\ Range(Tail(todo)) \subseteq Range(todo)
      /\ Owed(todo) = Top.texts \o Owed(Tail(todo)) /\ Owed(Tail(todo)) \in Seq(Text)
  BY <1>1, <1>2, TopOfTodo
<1>4. /\ texts \o Top.texts \in Seq(Text)
      /\ (texts \o Top.texts) \o Owed(Tail(todo)) = texts \o Owed(todo)
      /\ FlattenSeq(texts \o Top.texts) \o FlattenSeq(Owed(Tail(todo))) = FlattenSeq(texts) \o FlattenSeq(Owed(todo))
  <2>1. PICK t, rest : t = Top.texts /\ rest = Owed(Tail(todo))
    OBVIOUS
  <2>2. t \in Seq(Text) /\ rest \in Seq(Text) /\ Owed(todo) = t \o rest
    BY <1>3, <2>1
  <2>3. /\ texts \o t \in Seq(Text) /\ (texts \o t) \o rest = texts \o (t \o rest)
        /\ FlattenSeq(texts \o t) \o FlattenSeq(rest) = FlattenSeq(texts) \o FlattenSeq(t \o rest)
    BY <1>2, <2>2, Regrouped
  <2> QED
    BY <2>1, <2>2, <2>3
<1>5. (NoneTooLong' <=> NoneTooLong) /\ (CuttingIsEnough' <=> CuttingIsEnough)
  BY <1>1 DEF NoneTooLong, CuttingIsEnough
<1>6. IndexingTypeOK'
  BY <1>1, <1>3, <1>4 DEF IndexingInv, IndexingTypeOK, Document
<1>7. Whole'
  BY <1>1, <1>4, <1>5 DEF IndexingInv, Whole
<1>8. Lossless'
  BY <1>1, <1>3, <1>4, <1>5 DEF IndexingInv, Lossless
<1> QED
  BY <1>6, <1>7, <1>8 DEF IndexingInv

(* Halve: what is owed is the same.                                        *)
LEMMA HalveStep ==
    ASSUME IndexingInv, Halve
    PROVE  IndexingInv'
<1>1. /\ phase = "embedding" /\ todo # << >>
      /\ todo' = LeftFirst(Halves(Top.texts), Top.depth) \o Tail(todo)
      /\ UNCHANGED <<shape, limit, phase, kept, texts>>
  BY DEF Halve, Embedding
<1>2. todo \in Seq(Batch)
  BY DEF IndexingInv, IndexingTypeOK
<1>3. /\ Top \in Range(todo) /\ Top.texts \in Seq(Text) /\ Top.depth \in Nat
      /\ Owed(todo) = Top.texts \o Owed(Tail(todo))
  BY <1>1, <1>2, TopOfTodo
<1>4. PICK b, c :
          /\ LeftFirst(Halves(Top.texts), Top.depth) = <<b, c>> /\ b \in Batch /\ c \in Batch
          /\ b.texts \o c.texts = Top.texts /\ b.depth = Top.depth /\ c.depth = Top.depth
          /\ Range(b.texts) \subseteq Range(Top.texts) /\ Range(c.texts) \subseteq Range(Top.texts)
  <2>1. PICK s, d : s = Top.texts /\ d = Top.depth
    OBVIOUS
  <2>2. s \in Seq(Text) /\ d \in Nat
    BY <1>3, <2>1
  <2> DEFINE b == [texts |-> Halves(s)[1], depth |-> d]
             c == [texts |-> Halves(s)[2], depth |-> d]
  <2>3. /\ LeftFirst(Halves(s), d) = <<b, c>> /\ b \in Batch /\ c \in Batch
        /\ b.texts \o c.texts = s /\ b.depth = d /\ c.depth = d
        /\ Range(b.texts) \subseteq Range(s) /\ Range(c.texts) \subseteq Range(s)
    BY <2>2, HalfBatches
  <2> HIDE DEF b, c
  <2> QED
    BY <2>1, <2>3
<1>5. PICK to : to = <<b, c>> \o Tail(todo)
  OBVIOUS
<1>6. todo' = to
  BY <1>1, <1>4, <1>5
<1>7. /\ to \in Seq(Batch) /\ Owed(to) = (b.texts \o c.texts) \o Owed(Tail(todo))
      /\ Range(to) \subseteq {b, c} \cup Range(todo)
  BY <1>1, <1>2, <1>4, <1>5, ByTwo
<1>8. Owed(to) = Owed(todo)
  BY <1>3, <1>4, <1>7
<1>9. Manageable(Top) => Manageable(b) /\ Manageable(c)
  BY <1>4 DEF Manageable
<1>10. (NoneTooLong' <=> NoneTooLong) /\ (CuttingIsEnough' <=> CuttingIsEnough)
  BY <1>1 DEF NoneTooLong, CuttingIsEnough
<1>11. IndexingTypeOK'
  BY <1>1, <1>6, <1>7 DEF IndexingInv, IndexingTypeOK, Document
<1>12. Whole'
  BY <1>1, <1>6, <1>8, <1>10 DEF IndexingInv, Whole
<1>13. Lossless'
  BY <1>1, <1>3, <1>6, <1>7, <1>8, <1>9, <1>10 DEF IndexingInv, Lossless
<1> QED
  BY <1>11, <1>12, <1>13 DEF IndexingInv

(* Where no chunk is too long, no text is cut or shortened.                *)
LEMMA NotTooLong ==
    ASSUME IndexingInv, phase = "embedding", todo # << >>, NoneTooLong
    PROVE  ~TooLong(Top.texts)
<1>1. texts \in Seq(Text) /\ todo \in Seq(Batch) /\ kept \in Seq(Text) /\ limit \in Limits
  BY DEF IndexingInv, IndexingTypeOK, Bounds
<1>2. Top.texts \in Seq(Text) /\ Owed(todo) = Top.texts \o Owed(Tail(todo)) /\ Owed(Tail(todo)) \in Seq(Text)
  BY <1>1, TopOfTodo
<1>3. kept = texts \o Owed(todo) /\ Owed(todo) \in Seq(Text)
  BY <1>1, OwedIsTexts DEF IndexingInv, Whole
<1>4. Range(Top.texts) \subseteq Range(Owed(todo)) /\ Range(Owed(todo)) \subseteq Range(kept)
  <2>1. PICK done, t, rest, all :
            done = texts /\ t = Top.texts /\ rest = Owed(Tail(todo)) /\ all = Owed(todo)
    OBVIOUS
  <2>2. /\ t \in Seq(Text) /\ rest \in Seq(Text) /\ all \in Seq(Text) /\ all = t \o rest /\ kept = done \o all
        /\ done \in Seq(Text)
    BY <1>1, <1>2, <1>3, <2>1
  <2>3. Range(t \o rest) = Range(t) \cup Range(rest)
    BY <2>2, RangeOfConcat
  <2>4. Range(done \o all) = Range(done) \cup Range(all)
    <3>1. done \in Seq(Text) /\ all \in Seq(Text)
      BY <2>2
    <3> QED
      BY <3>1, RangeOfConcat
  <2> QED
    BY <2>1, <2>2, <2>3, <2>4
<1>5. ASSUME NEW i \in DOMAIN Top.texts PROVE ~(Len(Top.texts[i]) > limit.length)
  <2>1. Top.texts[i] \in Range(kept)
    BY <1>4 DEF Range
  <2>2. PICK k \in DOMAIN kept : Top.texts[i] = kept[k]
    BY <2>1 DEF Range
  <2>3. kept[k] \in Text
    BY <1>1, ElementOfSeq, LenProperties
  <2>4. Len(kept[k]) \in Nat /\ limit.length \in Nat
    BY <1>1, <2>3, LenProperties, IndexingAssumption DEF Text
  <2> QED
    BY <2>2, <2>4 DEF NoneTooLong
<1> QED
  BY <1>5 DEF TooLong

(* A half of a text of l characters, rounded up: where l parts of size p are *)
(* less than a target and one part more, so are its parts of twice the size. *)
LEMMA Shorter ==
    ASSUME NEW l \in Nat, NEW p \in Nat, NEW t \in Nat, l * p <= t - 1 + p,
           NEW h \in {l \div 2, l - l \div 2}
    PROVE  h * (2 * p) <= t - 1 + 2 * p
<1>1. h \in Nat /\ 2 * h <= l + 1
  OBVIOUS
<1>2. PICK k \in Nat : l + 1 = 2 * h + k
  <2>1. l + 1 - 2 * h \in Nat /\ l + 1 = 2 * h + (l + 1 - 2 * h)
    BY <1>1
  <2> QED
    BY <2>1
<1>3. (l + 1) * p = l * p + p /\ (2 * h + k) * p = h * (2 * p) + k * p /\ k * p \in Nat /\ l * p \in Nat
  BY <1>1
<1> QED
  BY <1>1, <1>2, <1>3

(* Where cutting is enough, what may not be cut any further is taken.      *)
LEMMA CutFarEnough ==
    ASSUME NEW l \in Nat, NEW m \in Nat, NEW depth \in Nat, depth <= SplitDepth,
           l * Power[depth] <= Target - 1 + Power[depth], m * Power[SplitDepth] >= Target,
           TooDeep(depth) \/ l < 2
    PROVE  l <= m
<1>0. PICK p : p = Power[SplitDepth]
  OBVIOUS
<1>1. p \in Nat \ {0} /\ SplitDepth \in Nat /\ Target \in Nat \ {0} /\ m * p >= Target
  BY <1>0, Powers, IndexingAssumption, Budget
<1>2. m # 0
  BY <1>1
<1>3. CASE l < 2
  BY <1>2, <1>3
<1>4. CASE TooDeep(depth)
  <2>1. depth = SplitDepth
    BY <1>1, <1>4 DEF TooDeep
  <2>2. l * p <= Target - 1 + p
    BY <1>0, <2>1
  <2>3. ASSUME l > m PROVE FALSE
    <3>1. PICK k \in Nat : l = (m + 1) + k
      <4>1. l - (m + 1) \in Nat /\ l = (m + 1) + (l - (m + 1))
        BY <2>3
      <4> QED
        BY <4>1
    <3>2. ((m + 1) + k) * p = m * p + p + k * p /\ k * p \in Nat /\ m * p \in Nat
      BY <1>1
    <3> QED
      BY <1>1, <2>2, <3>1, <3>2
  <2> QED
    BY <2>3
<1> QED
  BY <1>3, <1>4

(* Cut: what is owed is the same, letter for letter.                       *)
LEMMA CutStep ==
    ASSUME IndexingInv, Cut
    PROVE  IndexingInv'
<1>1. /\ phase = "embedding" /\ todo # << >> /\ Len(Top.texts) = 1 /\ TooLong(Top.texts)
      /\ ~TooDeep(Top.depth)
      /\ todo' = LeftFirst([h \in 1..2 |-> <<Halves(Single)[h]>>], Top.depth + 1) \o Tail(todo)
      /\ UNCHANGED <<shape, limit, phase, kept, texts>>
  BY DEF Cut, Embedding
<1>2. todo \in Seq(Batch)
  BY DEF IndexingInv, IndexingTypeOK
<1>3. /\ Top \in Range(todo) /\ Top.texts \in Seq(Text) /\ Top.depth \in Nat
      /\ Owed(todo) = Top.texts \o Owed(Tail(todo)) /\ Owed(Tail(todo)) \in Seq(Text)
  BY <1>1, <1>2, TopOfTodo
<1>4. Single \in Text /\ Top.texts = <<Single>> /\ Single \in Range(Top.texts)
  BY <1>1, <1>2, SingleOfTop
<1>5. PICK s, d, rest : s = Single /\ d = Top.depth + 1 /\ rest = Owed(Tail(todo))
  OBVIOUS
<1>6. s \in Text /\ d \in Nat /\ rest \in Seq(Text) /\ Owed(todo) = <<s>> \o rest
  BY <1>3, <1>4, <1>5
<1>7. PICK b, c :
          /\ LeftFirst([h \in 1..2 |-> <<Halves(s)[h]>>], d) = <<b, c>> /\ b \in Batch /\ c \in Batch
          /\ b.depth = d /\ c.depth = d /\ FlattenSeq(b.texts \o c.texts) = s
          /\ Range(b.texts) = {Halves(s)[1]} /\ Range(c.texts) = {Halves(s)[2]}
  <2> DEFINE b == [texts |-> <<Halves(s)[1]>>, depth |-> d]
             c == [texts |-> <<Halves(s)[2]>>, depth |-> d]
  <2>1. /\ LeftFirst([h \in 1..2 |-> <<Halves(s)[h]>>], d) = <<b, c>> /\ b \in Batch /\ c \in Batch
        /\ b.depth = d /\ c.depth = d /\ FlattenSeq(b.texts \o c.texts) = s
        /\ Range(b.texts) = {Halves(s)[1]} /\ Range(c.texts) = {Halves(s)[2]}
    BY <1>6, CutBatches
  <2> HIDE DEF b, c
  <2> QED
    BY <2>1
<1>8. PICK to : to = <<b, c>> \o Tail(todo)
  OBVIOUS
<1>9. todo' = to
  BY <1>1, <1>5, <1>7, <1>8
<1>10. /\ to \in Seq(Batch) /\ Owed(to) = (b.texts \o c.texts) \o rest
       /\ Range(to) \subseteq {b, c} \cup Range(todo)
  BY <1>1, <1>2, <1>5, <1>7, <1>8, ByTwo
<1>11. FlattenSeq(Owed(to)) = FlattenSeq(Owed(todo))
  <2>1. PICK two, one : two = b.texts \o c.texts /\ one = <<s>>
    OBVIOUS
  <2>2. two \in Seq(Text) /\ FlattenSeq(two) = s
    BY <1>7, <2>1, ConcatProperties DEF Batch
  <2>3. one \in Seq(Text) /\ FlattenSeq(one) = s
    BY <1>6, <2>1, FlattenOne DEF Text
  <2>4. FlattenSeq(two \o rest) = FlattenSeq(two) \o FlattenSeq(rest)
    BY <1>6, <2>2, FlattenConcat DEF Text
  <2>5. FlattenSeq(one \o rest) = FlattenSeq(one) \o FlattenSeq(rest)
    BY <1>6, <2>3, FlattenConcat DEF Text
  <2> QED
    BY <1>6, <1>10, <2>1, <2>2, <2>3, <2>4, <2>5
<1>12. Manageable(Top) => Manageable(b) /\ Manageable(c)
  <2> SUFFICES ASSUME Manageable(Top) PROVE Manageable(b) /\ Manageable(c)
    OBVIOUS
  <2>1. PICK l, e : l = Len(s) /\ e = Top.depth
    OBVIOUS
  <2>2. l \in Nat /\ e \in Nat /\ e < SplitDepth /\ d = e + 1 /\ SplitDepth \in Nat /\ Target \in Nat
    BY <1>1, <1>3, <1>5, <1>6, <2>1, LenProperties, IndexingAssumption, Budget DEF TooDeep, Text
  <2>3. l * Power[e] <= Target - 1 + Power[e]
    BY <1>4, <1>5, <2>1 DEF Manageable
  <2>4. Power[e] \in Nat /\ Power[d] = 2 * Power[e]
    <3>1. e \in 0..SplitDepth /\ d \in 1..SplitDepth /\ d - 1 = e
      BY <2>2
    <3> QED
      BY <3>1, Powers
  <2>5. ASSUME NEW h \in {l \div 2, l - l \div 2} PROVE h * Power[d] <= Target - 1 + Power[d]
    BY <2>2, <2>3, <2>4, Shorter
  <2>6. Len(Halves(s)[1]) = l \div 2 /\ Len(Halves(s)[2]) = l - l \div 2
    BY <1>6, <2>1, HalvesOf DEF Text
  <2>7. d <= SplitDepth
    BY <2>2
  <2> QED
    BY <1>7, <2>5, <2>6, <2>7 DEF Manageable
<1>13. ~NoneTooLong /\ (NoneTooLong' <=> NoneTooLong) /\ (CuttingIsEnough' <=> CuttingIsEnough)
  BY <1>1, NotTooLong DEF NoneTooLong, CuttingIsEnough
<1>14. IndexingTypeOK'
  BY <1>1, <1>9, <1>10 DEF IndexingInv, IndexingTypeOK, Document
<1>15. Whole'
  BY <1>13 DEF Whole
<1>16. Lossless'
  BY <1>1, <1>3, <1>9, <1>10, <1>11, <1>12, <1>13 DEF IndexingInv, Lossless
<1> QED
  BY <1>14, <1>15, <1>16 DEF IndexingInv

(* Truncate: only where a length was refused, and cutting is not enough.   *)
LEMMA TruncateStep ==
    ASSUME IndexingInv, Truncate
    PROVE  IndexingInv'
<1> DEFINE short == <<SubSeq(Single, 1, Smaller(TruncateTo, Len(Single)))>>
<1>1. /\ phase = "embedding" /\ todo # << >> /\ Len(Top.texts) = 1 /\ TooLong(Top.texts)
      /\ TooDeep(Top.depth) \/ Len(Single) < 2
      /\ texts' = IF Takes(short) THEN texts \o short ELSE texts
      /\ todo' = Tail(todo)
      /\ UNCHANGED <<shape, limit, phase, kept>>
  BY DEF Truncate, Embedding
<1>2. todo \in Seq(Batch) /\ texts \in Seq(Text) /\ limit \in Limits
  BY DEF IndexingInv, IndexingTypeOK
<1>3. Top \in Range(todo) /\ Top.texts \in Seq(Text) /\ Top.depth \in Nat /\ Tail(todo) \in Seq(Batch)
  BY <1>1, <1>2, TopOfTodo
<1>4. Single \in Text /\ Single \in Range(Top.texts) /\ Len(Single) > limit.length
  BY <1>1, <1>2, SingleOfTop
<1>5. short \in Seq(Text)
  <2>1. PICK n : n = Smaller(TruncateTo, Len(Single))
    OBVIOUS
  <2>2. n \in Nat /\ n <= Len(Single) /\ 1 \in Nat \ {0}
    BY <1>4, <2>1, LenProperties, IndexingAssumption DEF Smaller, Text
  <2>3. SubSeq(Single, 1, n) \in Text
    BY <1>4, <2>2, StretchOf
  <2> QED
    BY <2>1, <2>3, OneText
<1> HIDE DEF short
<1>6. texts' \in Seq(Text)
  <2>1. texts \o short \in Seq(Text)
    BY <1>2, <1>5, ConcatProperties
  <2> QED
    BY <1>1, <1>2, <2>1
<1>7. ~CuttingIsEnough
  <2> SUFFICES ASSUME CuttingIsEnough PROVE FALSE
    OBVIOUS
  <2>1. Manageable(Top)
    BY <1>1, <1>3 DEF IndexingInv, Lossless
  <2>2. PICK l, m, d : l = Len(Single) /\ m = limit.length /\ d = Top.depth
    OBVIOUS
  <2>3. l \in Nat /\ m \in Nat /\ d \in Nat /\ l > m
    BY <1>2, <1>3, <1>4, <2>2, LenProperties, IndexingAssumption DEF Text
  <2>4. d <= SplitDepth /\ l * Power[d] <= Target - 1 + Power[d]
    BY <1>4, <2>1, <2>2 DEF Manageable
  <2>5. m * Power[SplitDepth] >= Target /\ (TooDeep(d) \/ l < 2)
    BY <1>1, <2>2 DEF CuttingIsEnough
  <2>6. l <= m
    BY <2>3, <2>4, <2>5, CutFarEnough
  <2> QED
    BY <2>3, <2>6
<1>8. ~NoneTooLong /\ (NoneTooLong' <=> NoneTooLong) /\ (CuttingIsEnough' <=> CuttingIsEnough)
  BY <1>1, NotTooLong DEF NoneTooLong, CuttingIsEnough
<1>9. IndexingTypeOK'
  BY <1>1, <1>3, <1>6 DEF IndexingInv, IndexingTypeOK, Document
<1>10. Whole' /\ Lossless'
  BY <1>7, <1>8 DEF Whole, Lossless
<1> QED
  BY <1>9, <1>10 DEF IndexingInv

(* Replace: nothing is owed any more.                                      *)
LEMMA ReplaceStep ==
    ASSUME IndexingInv, Replace
    PROVE  IndexingInv'
<1>1. /\ phase = "embedding" /\ todo = << >> /\ phase' = "indexed"
      /\ UNCHANGED <<shape, limit, kept, todo, texts>>
  BY DEF Replace
<1>2. texts \in Seq(Text) /\ FlattenSeq(texts) \in Text
  BY FlattenIsSeq DEF IndexingInv, IndexingTypeOK, Text
<1>3. Owed(todo) = << >> /\ FlattenSeq(Owed(todo)) = << >>
  BY <1>1, NothingOwed, FlattenNothing
<1>4. texts \o Owed(todo) = texts /\ FlattenSeq(texts) \o FlattenSeq(Owed(todo)) = FlattenSeq(texts)
  BY <1>2, <1>3, ConcatEmptySeq DEF Text
<1>5. (NoneTooLong' <=> NoneTooLong) /\ (CuttingIsEnough' <=> CuttingIsEnough)
  BY <1>1 DEF NoneTooLong, CuttingIsEnough
<1>6. IndexingTypeOK'
  BY <1>1 DEF IndexingInv, IndexingTypeOK, Document
<1>7. Whole' /\ Lossless'
  BY <1>1, <1>4, <1>5 DEF IndexingInv, Whole, Lossless
<1> QED
  BY <1>6, <1>7 DEF IndexingInv

(* The invariant holds in every behaviour of the indexer.                  *)
THEOREM IndexingInvariant == IndexingSpec => []IndexingInv
<1>1. IndexingInit => IndexingInv
  <2> SUFFICES ASSUME IndexingInit PROVE IndexingInv
    OBVIOUS
  <2>1. phase = "fresh" /\ kept = << >> /\ todo = << >> /\ texts = << >> /\ limit \in Limits
    BY DEF IndexingInit
  <2>2. << >> \in Bounds /\ << >> \in Seq(Batch) /\ << >> \in Seq(Text)
    BY NoText, EmptySeq DEF Bounds
  <2>3. IndexingTypeOK
    BY <2>1, <2>2, ShapeIsDocument DEF IndexingTypeOK
  <2> QED
    BY <2>1, <2>3 DEF IndexingInv, Whole, Lossless
<1>2. IndexingInv /\ [IndexingNext]_indexingVars => IndexingInv'
  <2> SUFFICES ASSUME IndexingInv, [IndexingNext]_indexingVars
               PROVE  IndexingInv'
    OBVIOUS
  <2>1. CASE Start
    BY <2>1, StartStep
  <2>2. CASE Accepted
    BY <2>2, AcceptedStep
  <2>3. CASE Halve
    BY <2>3, HalveStep
  <2>4. CASE Cut
    BY <2>4, CutStep
  <2>5. CASE Truncate
    BY <2>5, TruncateStep
  <2>6. CASE CountGivesUp \/ Outage
    <3>1. phase' = "failed" /\ UNCHANGED <<shape, limit, kept, todo, texts>>
      BY <2>6 DEF CountGivesUp, Outage
    <3> QED
      BY <3>1 DEF IndexingInv, IndexingTypeOK, Whole, Lossless, Document
  <2>7. CASE Replace
    BY <2>7, ReplaceStep
  <2>8. CASE UNCHANGED indexingVars
    <3>1. UNCHANGED <<shape, limit, phase, kept, todo, texts>>
      BY <2>8 DEF indexingVars
    <3> QED
      BY <3>1 DEF IndexingInv, IndexingTypeOK, Whole, Lossless, Document, NoneTooLong, CuttingIsEnough
  <2> QED
    BY <2>1, <2>2, <2>3, <2>4, <2>5, <2>6, <2>7, <2>8 DEF IndexingNext
<1> QED
  BY <1>1, <1>2, PTL DEF IndexingSpec

(* The chunker keeps its promise for every document, target and overlap:   *)
(* no chunk is longer than the target, however blocks, lines that had to   *)
(* be cut and carried tails fall together, and every letter is in a chunk. *)
THEOREM ChunksAlwaysFit == IndexingSpec => []ChunksFit
<1>1. IndexingInv => ChunksFit
  BY ChunksAreFit DEF IndexingInv, IndexingTypeOK
<1> QED
  BY <1>1, IndexingInvariant, PTL

(* Refusals for the length of a text lose nothing and change no order: the *)
(* rows of a finished embedding are, letter for letter, the kept chunks if *)
(* the provider takes what the deepest cut of a chunk comes down to.       *)
THEOREM CutsLoseNothing == IndexingSpec => []NothingIsLost
<1>1. IndexingInv => NothingIsLost
  BY DEF IndexingInv, Lossless, NothingIsLost
<1> QED
  BY <1>1, IndexingInvariant, PTL

(* Refusals for the number of texts are harmless: with any provider, batch *)
(* size and document, however the requests of Indexer.index are halved,    *)
(* the rows are the kept chunks in their order unless one of them is       *)
(* longer than the provider takes.                                         *)
THEOREM CountsAreHarmless == IndexingSpec => []CountsTouchNoText
<1>1. IndexingInv => CountsTouchNoText
  BY DEF IndexingInv, Whole, CountsTouchNoText
<1> QED
  BY <1>1, IndexingInvariant, PTL

(* Together: from its blocks to its rows, the text of a document reaches   *)
(* the index.                                                              *)
THEOREM TextReachesTheIndex == IndexingSpec => []TextSurvives
<1>1. IndexingInv => KeptAreTexts
  BY DEF IndexingInv, IndexingTypeOK, Bounds, Text, KeptAreTexts
<1> QED
  BY <1>1, IndexingInvariant, ChunksAlwaysFit, CutsLoseNothing, CountsAreHarmless, PTL DEF TextSurvives
=============================================================================
