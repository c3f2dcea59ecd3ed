-------------------------------- MODULE Readers --------------------------------
(***************************************************************************)
(* One run of xdu-find, xdu-view or xdu-rm over an index that crawls       *)
(* rewrite: the two gates on the completion marker, then the scan of the   *)
(* chunks.                                                                 *)
(*                                                                         *)
(* A crawl is cut down to what a reader can tell apart, the order Crawl    *)
(* gives it: it clears the marker, rewrites the partitions it selects one  *)
(* by one, and restores the marker with the count of the errors it         *)
(* tolerated, or dies on the way.  A local reader reads the marker once    *)
(* for each gate; a reader of an S3 index sends three statements and lets  *)
(* both gates judge what they found.                                       *)
(***************************************************************************)
EXTENDS Integers, FiniteSets

CONSTANTS
  Partitions,
  MaxCrawls,    \* bound: crawls
  MaxErrors     \* bound: errors a crawl tolerates

INDEX_FORMAT_VERSION == 2

\* What is at the marker's key or path.  "odd" is not a regular file, or cannot
\* be read; "big" is over MARKER_READ_LIMIT; a body states a format version and
\* an error count, or 0 and -1 where it does not.
Marker == [state : {"none", "odd", "big", "ok"}, format : 0 .. 2, errors : -1 .. MaxErrors]
NoMarker == [state |-> "none", format |-> 0, errors |-> -1]
Bare(s)  == [NoMarker EXCEPT !.state = s]
Body(v, n) == [state |-> "ok", format |-> v, errors |-> n]

ASSUME ReadersOK ==
  /\ IsFiniteSet(Partitions) /\ Partitions # {}
  /\ {MaxCrawls, MaxErrors} \subseteq Nat

VARIABLES
  store,    \* "used", or of an S3 destination "missing" (no bucket) or "empty"
  marker,
  holds,    \* partition -> whether its chunks are all its rows: "all", "holes", or "mixed"
  crawls,
  todo,     \* partitions the running crawl has yet to rewrite
  lost,     \* errors the running crawl tolerated
  crawling,
  claimed,  \* partitions the latest crawl was to rewrite
  prog, transport,
  pc,       \* where the reader is
  read,     \* the marker as last read
  said,     \* "" or what the reader refused or warned with
  scan,     \* partition -> what the reader saw in it; "" when it was not read
  races     \* whether a crawl cleared the marker since the reader began
vars == <<store, marker, holds, crawls, todo, lost, crawling, claimed, prog, transport, pc, read, said, scan, races>>
index == <<store, marker, holds, crawls, todo, lost, crawling, claimed>>

-----------------------------------------------------------------------------
(* A crawl, as a reader can see it.                                        *)

CrawlClears(S) ==
  /\ ~crawling /\ crawls < MaxCrawls
  /\ store # "missing"
  /\ crawls' = crawls + 1
  /\ crawling' = TRUE /\ marker' = NoMarker /\ todo' = S /\ lost' = 0 /\ claimed' = S
  /\ races' = (races \/ pc # "start")
  /\ UNCHANGED <<store, holds, prog, transport, pc, read, said, scan>>

\* A partition is between the runs while its chunks are replaced; when it is
\* done it has all rows, or lacks those under the errors that were tolerated.
CrawlStarts(p) ==
  /\ crawling /\ p \in todo /\ holds[p] # "mixed"
  /\ holds' = [holds EXCEPT ![p] = "mixed"]
  /\ store' = "used"
  /\ UNCHANGED <<marker, crawls, todo, lost, crawling, claimed, prog, transport, pc, read, said, scan, races>>

CrawlFinishes(p) ==
  /\ crawling /\ p \in todo /\ holds[p] = "mixed"
  /\ \E n \in 0 .. MaxErrors - lost :
       /\ lost' = lost + n
       /\ holds' = [holds EXCEPT ![p] = IF n = 0 THEN "all" ELSE "holes"]
  /\ todo' = todo \ {p}
  /\ UNCHANGED <<store, marker, crawls, crawling, claimed, prog, transport, pc, read, said, scan, races>>

CrawlAttests ==
  /\ crawling /\ todo = {}
  /\ crawling' = FALSE /\ marker' = Body(INDEX_FORMAT_VERSION, lost)
  /\ UNCHANGED <<store, holds, crawls, todo, lost, claimed, prog, transport, pc, read, said, scan, races>>

CrawlDies ==
  /\ crawling
  /\ crawling' = FALSE /\ todo' = {}
  /\ UNCHANGED <<store, marker, holds, crawls, lost, claimed, prog, transport, pc, read, said, scan, races>>

-----------------------------------------------------------------------------
(* The marker and its gates.                                               *)

\* read_completion_marker: a stat, then a read.  A crawl that starts in between
\* has removed the file, which then reads as an empty body.
MarkerRead ==
  \/ /\ read' = CASE marker.state = "none" -> Bare("absent")
                   [] marker.state \in {"odd", "big"} -> Bare("unreadable")
                   [] OTHER -> marker
     /\ races' = races
  \/ /\ marker.state = "ok" /\ ~crawling /\ crawls < MaxCrawls
     /\ read' = Bare("ok")
     /\ races' = TRUE

\* A slip: one tolerated error is let go.
MarkerCompletionWarning_Two(m) ==
  IF m.state = "absent" THEN "unfinished"
  ELSE IF m.state = "ok" /\ m.errors > 1 THEN "tolerated" ELSE ""

MarkerCompletionWarning(m) ==
  IF m.state = "absent" THEN "unfinished"
  ELSE IF m.state = "ok" /\ m.errors > 0 THEN "tolerated" ELSE ""

\* A slip: only a version that is stated is refused.
MarkerVersionError_Stated(m) ==
  CASE m.state = "oversized" -> "oversized"
    [] m.state = "ok" /\ m.format \notin {0, INDEX_FORMAT_VERSION} -> "version"
    [] OTHER -> ""

MarkerVersionError(m) ==
  CASE m.state = "oversized" -> "oversized"
    [] m.state = "ok" /\ m.format = INDEX_FORMAT_VERSION -> ""
    [] m.state = "ok" /\ m.format # 0 -> "version"
    [] OTHER -> "no version"

Say(s)    == said' = s
Go(label) == pc' = label
Fail(why) == Go("end") /\ Say(why)

-----------------------------------------------------------------------------
(* The reader.                                                             *)

\* The locator decides the path; xdu-rm knows only local ones.
Begin ==
  /\ pc = "start"
  /\ IF prog = "rm" /\ transport = "s3" THEN Fail("no s3")
     ELSE Go(IF transport = "s3" THEN "list" ELSE "version") /\ Say("")
  /\ UNCHANGED <<index, prog, transport, read, scan, races>>

Version ==
  /\ pc = "version"
  /\ MarkerRead
  /\ LET e == MarkerVersionError(read') IN
     IF e # "" THEN Fail(e) ELSE Go("warning") /\ Say("")
  /\ UNCHANGED <<index, prog, transport, scan>>

Warning ==
  /\ pc = "warning"
  /\ MarkerRead
  /\ Go("scan") /\ Say(MarkerCompletionWarning(read'))
  /\ UNCHANGED <<index, prog, transport, scan>>

\* The store may refuse the connection or the request instead of answering.
NoAnswer == Fail("no answer") /\ read' = read

\* Any object under the prefix will do, the chunks of an abandoned run included.
List ==
  /\ pc = "list"
  /\ read' = read
  /\ \/ NoAnswer
     \/ store = "missing" /\ Fail("no bucket")
     \/ store = "empty" /\ Fail("no index")
     \/ store = "used" /\ Go("head") /\ Say("")
  /\ UNCHANGED <<index, prog, transport, scan, races>>

\* HEAD: the marker's size.
HeadRequest ==
  /\ pc = "head"
  /\ \/ NoAnswer
     \/ /\ read' = IF marker.state = "none" THEN Bare("absent")
                   ELSE IF marker.state = "big" THEN Bare("oversized") ELSE Bare("sized")
        /\ Go(IF read'.state = "sized" THEN "get" ELSE "gates") /\ Say("")
  /\ UNCHANGED <<index, prog, transport, scan, races>>

\* GET: its content, if it is still there.  Bytes that are no text read as an
\* empty body.
GetRequest ==
  /\ pc = "get"
  /\ \/ NoAnswer
     \/ /\ marker.state = "none"
        /\ Fail("no bucket") /\ read' = read
     \/ /\ marker.state # "none"
        /\ read' = IF marker.state = "ok" THEN marker ELSE Bare("ok")
        /\ Go("gates") /\ Say("")
  /\ UNCHANGED <<index, prog, transport, scan, races>>

Gates ==
  /\ pc = "gates"
  /\ LET e == MarkerVersionError(read) IN
     IF e # "" THEN Fail(e) ELSE Go("scan") /\ Say(MarkerCompletionWarning(read))
  /\ UNCHANGED <<index, prog, transport, read, scan, races>>

\* One statement reads the chunks, partition by partition.
Scan(p) ==
  /\ pc = "scan" /\ scan[p] = ""
  /\ scan' = [scan EXCEPT ![p] = holds[p]]
  /\ UNCHANGED <<index, prog, transport, pc, read, said, races>>

Answer ==
  /\ pc = "scan" /\ \A p \in Partitions : scan[p] # ""
  /\ Go("end")
  /\ UNCHANGED <<index, prog, transport, read, said, scan, races>>

\* What an earlier writer, or anybody, can have left: markers of any version or
\* of none, with a count of errors or without, and what is no marker at all.
Found ==
  {NoMarker, Bare("odd"), Bare("big")}
    \cup {Body(v, n) : v \in 0 .. INDEX_FORMAT_VERSION - 1, n \in -1 .. MaxErrors}
    \cup {Body(INDEX_FORMAT_VERSION, n) : n \in 0 .. MaxErrors}

\* An index finished by this xdu or by none, whole or with what it lacks counted.
Init ==
  /\ crawls = 0 /\ crawling = FALSE /\ todo = {} /\ lost = 0 /\ claimed = Partitions
  /\ marker \in Found
  /\ holds \in [Partitions -> {"all", "holes", "mixed"}]
  /\ marker.format = INDEX_FORMAT_VERSION =>
       \A p \in Partitions : holds[p] \in IF marker.errors > 0 THEN {"all", "holes"} ELSE {"all"}
  /\ store \in {"used", "empty", "missing"}
  /\ store # "used" => transport = "s3" /\ marker = NoMarker /\ \A p \in Partitions : holds[p] = "mixed"
  /\ prog \in {"find", "view", "rm"} /\ transport \in {"local", "s3"}
  /\ marker.state = "odd" => transport = "local"
  /\ pc = "start" /\ read = NoMarker /\ said = "" /\ races = FALSE
  /\ scan = [p \in Partitions |-> ""]

CrawlStep ==
  \/ \E S \in SUBSET Partitions \ {{}} : CrawlClears(S)
  \/ \E p \in Partitions : CrawlStarts(p) \/ CrawlFinishes(p)
  \/ CrawlAttests
  \/ CrawlDies

ReaderStep ==
  \/ Begin \/ Version \/ Warning
  \/ List \/ HeadRequest \/ GetRequest \/ Gates
  \/ \E p \in Partitions : Scan(p)
  \/ Answer

Next == CrawlStep \/ ReaderStep

Spec == Init /\ [][Next]_vars

-----------------------------------------------------------------------------
(* Properties.                                                             *)

Answered == pc = "end" /\ \A p \in Partitions : scan[p] # ""

\* "Two ways an index falls short": rows printed without a warning are, in the
\* partitions the latest crawl was to rewrite, those of a crawl that finished and
\* lost none, whatever died and tolerated before.  Of the rest of the index the
\* marker of a --partition run says nothing, and a crawl that starts between the
\* gates and the scan goes unseen.
SilenceMeansComplete ==
  Answered /\ said = "" /\ ~races => \A p \in claimed : scan[p] = "all"

\* "no deletion set may come from an unknown layout": no chunk is read unless the
\* reader saw a marker of this version, and chunks that a crawl is replacing, or
\* died replacing, are not read at all, but for those that a --partition run left
\* to its marker, and for a crawl that started meanwhile.
UnattestedIsRefused ==
  \A p \in Partitions : scan[p] # "" =>
    /\ transport = "s3" => read.state = "ok" /\ read.format = INDEX_FORMAT_VERSION
    /\ p \in claimed /\ ~races => scan[p] # "mixed"

===============================================================================
