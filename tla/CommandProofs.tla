----------------------------- MODULE CommandProofs -----------------------------
(***************************************************************************)
(* The commands over an index that crawls renew and a disk that others     *)
(* change.                                                                 *)
(*                                                                         *)
(* The readers, for any partitions, number of crawls and of errors they    *)
(* tolerate: rows that a reader prints without a warning are all the rows  *)
(* of the partitions the latest crawl was to rewrite, and no chunk is read *)
(* past a marker that does not attest this version.  The argument: a       *)
(* marker of this version is at rest, since a crawl clears it before it    *)
(* touches a chunk; so what a gate saw is still there for the next gate    *)
(* and for the scan, unless a crawl began meanwhile and the reader is in a *)
(* race.                                                                   *)
(*                                                                         *)
(* xdu-rm, for any number of files, workers, runs and changes by others:   *)
(* what --safe keeps, and what a dry run is worth.                         *)
(***************************************************************************)
EXTENDS Readers, Rm, TLAPS

-----------------------------------------------------------------------------
(* The readers.                                                            *)

Contents == {"all", "holes", "mixed"}
Seen     == {"", "all", "holes", "mixed"}
Labels   == {"start", "version", "warning", "list", "head", "get", "gates", "scan", "end"}

ReadersTypeOK ==
  /\ marker \in Marker
  /\ holds \in [Partitions -> Contents]
  /\ todo \subseteq claimed /\ claimed \subseteq Partitions
  /\ lost \in 0 .. MaxErrors
  /\ crawling \in BOOLEAN
  /\ pc \in Labels
  /\ scan \in [Partitions -> Seen]
  /\ races \in BOOLEAN

States(m, v) == m.state = "ok" /\ m.format = v
Attested     == States(marker, INDEX_FORMAT_VERSION)

\* Whether the chunks of p are those of a crawl that finished, and with no error
\* tolerated all its rows.
Whole(h, lossless) == h # "mixed" /\ (lossless => h = "all")

\* What a marker of this version, and a crawl that runs, say of the index.
MarkerIsTrue ==
  Attested => ~crawling /\ \A p \in claimed : Whole(holds[p], marker.errors <= 0)

CrawlIsCounted ==
  crawling => /\ marker = NoMarker
              /\ \A p \in claimed \ todo : Whole(holds[p], lost = 0)

\* What the gates behind the reader make certain of, where it has passed them.
LocalGates == pc \in {"version", "warning"} => transport # "s3"

VersionSeen == pc = "warning" /\ ~races => Attested

MarkerKept ==
  pc = "gates" /\ ~races /\ States(read, INDEX_FORMAT_VERSION) => read = marker

Passed ==
  /\ transport = "s3" => States(read, INDEX_FORMAT_VERSION)
  /\ ~races => Attested /\ (said = "" => marker.errors <= 0)

GatesHold == pc = "scan" \/ (\E p \in Partitions : scan[p] # "") => Passed

\* What was read of the chunks.
ScanIsLate == \A p \in Partitions : scan[p] # "" => pc \in {"scan", "end"}

ScanIsWhole ==
  ~races => \A p \in claimed : scan[p] # "" => Whole(scan[p], said = "")

ReadersInv ==
  /\ ReadersTypeOK
  /\ MarkerIsTrue /\ CrawlIsCounted
  /\ LocalGates /\ VersionSeen /\ MarkerKept
  /\ GatesHold /\ ScanIsLate /\ ScanIsWhole

-----------------------------------------------------------------------------

LEMMA Bounds == MaxCrawls \in Nat /\ MaxErrors \in Nat
  BY ReadersOK

LEMMA Markers ==
  /\ \A s \in {"none", "odd", "big", "ok"} : Bare(s) \in Marker
  /\ NoMarker \in Marker
  /\ \A v \in 0 .. 2, n \in -1 .. MaxErrors : Body(v, n) \in Marker
  BY Bounds DEF Bare, NoMarker, Body, Marker

LEMMA InitInv == Init => ReadersInv
<1> SUFFICES ASSUME Init PROVE ReadersInv
  OBVIOUS
<1>1. marker \in Marker
  <2>1. 0 .. INDEX_FORMAT_VERSION - 1 \subseteq 0 .. 2 /\ INDEX_FORMAT_VERSION \in 0 .. 2
    BY DEF INDEX_FORMAT_VERSION
  <2>2. 0 .. MaxErrors \subseteq -1 .. MaxErrors
    BY Bounds
  <2>3. {NoMarker, Bare("odd"), Bare("big")} \subseteq Marker
    BY Markers
  <2>4. {Body(v, n) : v \in 0 .. INDEX_FORMAT_VERSION - 1, n \in -1 .. MaxErrors} \subseteq Marker
    BY <2>1, Markers
  <2>5. {Body(INDEX_FORMAT_VERSION, n) : n \in 0 .. MaxErrors} \subseteq Marker
    BY <2>1, <2>2, Markers
  <2>6. marker \in Found
    BY DEF Init
  <2>7. QED
    BY <2>3, <2>4, <2>5, <2>6 DEF Found
<1>2. ReadersTypeOK
  <2>1. scan \in [Partitions -> Seen] /\ holds \in [Partitions -> Contents]
    BY DEF Init, Seen, Contents
  <2>2. pc \in Labels /\ crawling \in BOOLEAN /\ races \in BOOLEAN
    BY DEF Init, Labels
  <2>3. lost = 0 /\ todo = {} /\ claimed = Partitions
    BY DEF Init
  <2>4. QED
    BY <1>1, <2>1, <2>2, <2>3, Bounds DEF ReadersTypeOK
<1>3. MarkerIsTrue
  <2> SUFFICES ASSUME Attested, NEW p \in claimed
               PROVE  ~crawling /\ Whole(holds[p], marker.errors <= 0)
    BY DEF Init, MarkerIsTrue
  <2>1. p \in Partitions /\ marker.format = INDEX_FORMAT_VERSION /\ ~crawling
    BY DEF Init, Attested, States
  <2>2. holds[p] \in IF marker.errors > 0 THEN {"all", "holes"} ELSE {"all"}
    BY <2>1 DEF Init
  <2>3. marker.errors \in Int
    BY <1>1 DEF Marker
  <2>4. QED
    BY <2>1, <2>2, <2>3 DEF Whole
<1>4. CrawlIsCounted /\ LocalGates /\ VersionSeen /\ MarkerKept
  BY DEF Init, CrawlIsCounted, LocalGates, VersionSeen, MarkerKept
<1>5. \A p \in Partitions : scan[p] = ""
  BY DEF Init
<1>6. GatesHold /\ ScanIsLate /\ ScanIsWhole
  BY <1>5 DEF Init, GatesHold, ScanIsLate, ScanIsWhole
<1>7. QED
  BY <1>2, <1>3, <1>4, <1>6 DEF ReadersInv

-----------------------------------------------------------------------------
(* A crawl's steps: the marker is gone before a chunk is.                  *)

reader == <<prog, transport, pc, read, said, scan>>

\* A crawl that starts ends what the gates knew, unless the reader is yet to begin.
LEMMA ClearsInv ==
  ASSUME ReadersInv, NEW S \in SUBSET Partitions, CrawlClears(S)
  PROVE  ReadersInv'
<1> USE DEF ReadersInv
<1>1. ReadersTypeOK'
  BY Markers, Bounds DEF ReadersTypeOK, CrawlClears
<1>2. ~Attested'
  BY DEF CrawlClears, NoMarker, Attested, States
<1>3. MarkerIsTrue' /\ CrawlIsCounted'
  BY <1>2 DEF MarkerIsTrue, CrawlIsCounted, CrawlClears
<1>4. ScanIsLate' /\ LocalGates'
  BY DEF ScanIsLate, LocalGates, CrawlClears
<1>5. CASE pc = "start"
  <2>1. \A p \in Partitions : scan'[p] = ""
    BY <1>5 DEF ScanIsLate, CrawlClears
  <2>2. pc' = "start"
    BY <1>5 DEF CrawlClears
  <2>3. VersionSeen' /\ MarkerKept' /\ GatesHold'
    BY <2>1, <2>2 DEF VersionSeen, MarkerKept, GatesHold
  <2>4. ScanIsWhole'
    BY <2>1, <1>1 DEF ScanIsWhole, ReadersTypeOK
  <2>5. QED
    BY <1>1, <1>3, <1>4, <2>3, <2>4
<1>6. CASE pc # "start"
  <2>1. races'
    BY <1>6 DEF CrawlClears
  <2>2. VersionSeen' /\ MarkerKept' /\ ScanIsWhole'
    BY <2>1 DEF VersionSeen, MarkerKept, ScanIsWhole
  <2>3. GatesHold'
    BY <2>1 DEF GatesHold, Passed, CrawlClears
  <2>4. QED
    BY <1>1, <1>3, <1>4, <2>2, <2>3
<1>7. QED
  BY <1>5, <1>6

\* A crawl that runs owes the reader nothing: there is no marker to have seen.
LEMMA RunningInv ==
  ASSUME ReadersInv, crawling, UNCHANGED <<reader, races>>, UNCHANGED claimed,
         ReadersTypeOK', MarkerIsTrue', CrawlIsCounted'
  PROVE  ReadersInv'
<1> USE DEF ReadersInv, reader
<1>1. ~Attested
  BY DEF MarkerIsTrue
<1>2. LocalGates' /\ VersionSeen' /\ ScanIsLate'
  BY <1>1 DEF LocalGates, VersionSeen, ScanIsLate
<1>3. MarkerKept'
  BY <1>1 DEF MarkerKept, Attested
<1>4. GatesHold'
  BY <1>1 DEF GatesHold, Passed
<1>5. ScanIsWhole'
  BY DEF ScanIsWhole
<1>6. QED
  BY <1>2, <1>3, <1>4, <1>5

LEMMA StartsInv ==
  ASSUME ReadersInv, NEW p \in Partitions, CrawlStarts(p)
  PROVE  ReadersInv'
<1> USE DEF ReadersInv
<1>1. ReadersTypeOK'
  BY DEF ReadersTypeOK, CrawlStarts, Contents
<1>2. \A q \in claimed \ todo : holds'[q] = holds[q]
  BY DEF ReadersTypeOK, CrawlStarts
<1>3. MarkerIsTrue' /\ CrawlIsCounted'
  BY <1>2 DEF MarkerIsTrue, CrawlIsCounted, CrawlStarts, NoMarker, Attested, States
<1>4. QED
  BY <1>1, <1>3, RunningInv DEF CrawlStarts, reader

\* A partition that lost nothing is whole, and the errors only add up.
LEMMA FinishesInv ==
  ASSUME ReadersInv, NEW p \in Partitions, CrawlFinishes(p)
  PROVE  ReadersInv'
<1> USE DEF ReadersInv
<1>1. PICK n \in 0 .. MaxErrors - lost :
        /\ lost' = lost + n
        /\ holds' = [holds EXCEPT ![p] = IF n = 0 THEN "all" ELSE "holes"]
  BY DEF CrawlFinishes
<1>2. lost \in Nat /\ lost' \in 0 .. MaxErrors /\ (lost' = 0 => lost = 0 /\ n = 0)
  BY <1>1, Bounds DEF ReadersTypeOK
<1>3. ReadersTypeOK'
  BY <1>1, <1>2 DEF ReadersTypeOK, CrawlFinishes, Contents
<1>4. ASSUME NEW q \in claimed \ todo' PROVE Whole(holds'[q], lost' = 0)
  <2>1. CASE q = p
    BY <1>1, <1>2, <2>1 DEF Whole, ReadersTypeOK
  <2>2. CASE q # p
    <3>1. q \in claimed \ todo /\ holds'[q] = holds[q]
      BY <1>1, <1>4, <2>2 DEF CrawlFinishes, ReadersTypeOK
    <3>2. QED
      BY <1>2, <3>1 DEF Whole, CrawlIsCounted, CrawlFinishes
  <2>3. QED
    BY <2>1, <2>2
<1>5. MarkerIsTrue' /\ CrawlIsCounted'
  BY <1>4 DEF MarkerIsTrue, CrawlIsCounted, CrawlFinishes, NoMarker, Attested, States
<1>6. QED
  BY <1>3, <1>5, RunningInv DEF CrawlFinishes, reader

\* The marker counts what was lost, over every partition that was claimed.
LEMMA AttestsInv ==
  ASSUME ReadersInv, CrawlAttests
  PROVE  ReadersInv'
<1> USE DEF ReadersInv
<1>1. lost \in Nat /\ lost \in -1 .. MaxErrors
  BY Bounds DEF ReadersTypeOK
<1>2. marker' = Body(INDEX_FORMAT_VERSION, lost) /\ ~crawling' /\ todo = {}
  BY DEF CrawlAttests
<1>3. marker' \in Marker /\ marker'.errors = lost
  BY <1>1, <1>2 DEF Body, Marker, INDEX_FORMAT_VERSION
<1>4. ReadersTypeOK'
  BY <1>2, <1>3 DEF ReadersTypeOK, CrawlAttests
<1>5. \A p \in claimed : Whole(holds[p], lost = 0)
  BY <1>2 DEF CrawlIsCounted, CrawlAttests
<1>6. MarkerIsTrue'
  BY <1>1, <1>2, <1>3, <1>5 DEF MarkerIsTrue, CrawlAttests, Whole
<1>7. CrawlIsCounted'
  BY <1>2 DEF CrawlIsCounted
<1>8. QED
  BY <1>4, <1>6, <1>7, RunningInv DEF CrawlAttests, reader

LEMMA DiesInv ==
  ASSUME ReadersInv, CrawlDies
  PROVE  ReadersInv'
<1> USE DEF ReadersInv
<1>1. ReadersTypeOK'
  BY DEF ReadersTypeOK, CrawlDies
<1>2. MarkerIsTrue' /\ CrawlIsCounted'
  BY DEF MarkerIsTrue, CrawlIsCounted, CrawlDies, NoMarker, Attested, States
<1>3. QED
  BY <1>1, <1>2, RunningInv DEF CrawlDies, reader

LEMMA CrawlInv == ReadersInv /\ CrawlStep => ReadersInv'
  BY ClearsInv, StartsInv, FinishesInv, AttestsInv, DiesInv DEF CrawlStep

-----------------------------------------------------------------------------
(* The reader's steps: they leave the index alone, and what a gate let     *)
(* pass at rest is at rest still.                                          *)

\* What a local gate read is the marker, or the reader is in a race; it can be of a
\* version only if it is the marker.
LEMMA MarkerReadIs ==
  ASSUME ReadersTypeOK, MarkerRead
  PROVE  /\ races' \in BOOLEAN /\ (races => races')
         /\ \A v \in {1, 2} : States(read', v) => read' = marker /\ races' = races
         /\ Attested /\ ~races' => read' = marker
<1>1. CASE /\ read' = CASE marker.state = "none" -> Bare("absent")
                        [] marker.state \in {"odd", "big"} -> Bare("unreadable")
                        [] OTHER -> marker
           /\ races' = races
  <2>1. CASE marker.state \in {"none", "odd", "big"}
    <3>1. read' = Bare("absent") \/ read' = Bare("unreadable")
      BY <1>1, <2>1
    <3>2. read'.format = 0
      BY <3>1 DEF Bare, NoMarker
    <3>3. ~States(read', 1) /\ ~States(read', 2) /\ ~Attested
      BY <2>1, <3>2 DEF States, Attested
    <3>4. QED
      BY <1>1, <3>3 DEF ReadersTypeOK
  <2>2. CASE marker.state \notin {"none", "odd", "big"}
    <3>1. read' = marker
      BY <1>1, <2>2
    <3>2. QED
      BY <1>1, <3>1 DEF ReadersTypeOK
  <2>3. QED
    BY <2>1, <2>2
<1>2. CASE read' = Bare("ok") /\ races' = TRUE
  <2>1. read'.format = 0
    BY <1>2 DEF Bare, NoMarker
  <2>2. ~States(read', 1) /\ ~States(read', 2)
    BY <2>1 DEF States
  <2>3. QED
    BY <1>2, <2>2
<1>3. QED
  BY <1>1, <1>2 DEF MarkerRead

\* The version gate passes a marker of this version and nothing else.
LEMMA VersionGate ==
  ASSUME NEW m, MarkerVersionError(m) = ""
  PROVE  States(m, INDEX_FORMAT_VERSION)
  BY DEF MarkerVersionError, States

\* The warning is left out only for a marker that counts no error.
LEMMA WarningGate ==
  ASSUME NEW m \in Marker, MarkerCompletionWarning(m) = "", m.state = "ok"
  PROVE  m.errors <= 0
  BY DEF MarkerCompletionWarning, Marker

\* A step of the reader that reads no chunk: the label it goes to must be earned.
LEMMA ReaderInv ==
  ASSUME ReadersInv, UNCHANGED <<index, prog, transport, scan>>,
         pc \notin {"scan", "end"}, pc' \in Labels, races' \in BOOLEAN, races => races',
         LocalGates', VersionSeen', MarkerKept', pc' = "scan" => Passed'
  PROVE  ReadersInv'
<1> USE DEF ReadersInv, index
<1>1. ReadersTypeOK'
  BY DEF ReadersTypeOK
<1>2. \A p \in Partitions : scan'[p] = ""
  BY DEF ScanIsLate
<1>3. MarkerIsTrue' /\ CrawlIsCounted'
  BY DEF MarkerIsTrue, CrawlIsCounted, Attested, States
<1>4. GatesHold' /\ ScanIsLate'
  BY <1>2 DEF GatesHold, ScanIsLate
<1>5. ScanIsWhole'
  BY <1>1, <1>2 DEF ScanIsWhole, ReadersTypeOK
<1>6. QED
  BY <1>1, <1>3, <1>4, <1>5

LEMMA BeginInv ==
  ASSUME ReadersInv, Begin
  PROVE  ReadersInv'
<1>1. pc = "start" /\ pc' \in {"end", "list", "version"}
  BY DEF Begin, Fail, Go
<1>2. LocalGates' /\ VersionSeen' /\ MarkerKept'
  BY <1>1 DEF LocalGates, VersionSeen, MarkerKept, Begin, Fail, Go
<1>3. QED
  BY <1>1, <1>2, ReaderInv DEF Begin, ReadersInv, ReadersTypeOK, Labels

LEMMA VersionInv ==
  ASSUME ReadersInv, Version
  PROVE  ReadersInv'
<1>1. pc = "version" /\ pc' \in {"end", "warning"}
  BY DEF Version, Fail, Go
<1>2. races' \in BOOLEAN /\ (races => races')
  BY MarkerReadIs DEF Version, ReadersInv
<1>3. VersionSeen'
  <2> SUFFICES ASSUME pc' = "warning" PROVE Attested'
    BY DEF VersionSeen
  <2>1. States(read', INDEX_FORMAT_VERSION)
    BY VersionGate DEF Version, Fail, Go
  <2>2. read' = marker
    BY <2>1, MarkerReadIs DEF Version, ReadersInv, INDEX_FORMAT_VERSION
  <2>3. QED
    BY <2>1, <2>2 DEF Attested, Version, index
<1>4. LocalGates' /\ MarkerKept'
  BY <1>1 DEF LocalGates, MarkerKept, Version, ReadersInv
<1>5. QED
  BY <1>1, <1>2, <1>3, <1>4, ReaderInv DEF Version, Labels

LEMMA WarningInv ==
  ASSUME ReadersInv, Warning
  PROVE  ReadersInv'
<1> USE DEF ReadersInv
<1>1. pc = "warning" /\ pc' = "scan" /\ transport' = transport
  BY DEF Warning, Go
<1>2. races' \in BOOLEAN /\ (races => races')
  BY MarkerReadIs DEF Warning
<1>3. LocalGates' /\ VersionSeen' /\ MarkerKept'
  BY <1>1 DEF LocalGates, VersionSeen, MarkerKept
<1>4. ASSUME ~races' PROVE Attested' /\ (said' = "" => marker'.errors <= 0)
  <2>1. Attested /\ marker' = marker
    BY <1>1, <1>2, <1>4 DEF VersionSeen, Warning, index
  <2>2. read' = marker
    BY <1>4, <2>1, MarkerReadIs DEF Warning
  <2>3. said' = MarkerCompletionWarning(marker)
    BY <2>2 DEF Warning, Say
  <2>4. QED
    BY <2>1, <2>3, WarningGate DEF Attested, States, ReadersTypeOK
<1>5. Passed'
  BY <1>1, <1>4 DEF Passed, LocalGates
<1>6. QED
  BY <1>1, <1>2, <1>3, <1>5, ReaderInv DEF Warning, Labels

\* The statements of an S3 reader; only the last one reads what the gates judge.
LEMMA ListInv ==
  ASSUME ReadersInv, List
  PROVE  ReadersInv'
<1>1. pc = "list" /\ pc' \in {"end", "head"}
  BY DEF List, NoAnswer, Fail, Go
<1>2. LocalGates' /\ VersionSeen' /\ MarkerKept'
  BY <1>1 DEF LocalGates, VersionSeen, MarkerKept
<1>3. QED
  BY <1>1, <1>2, ReaderInv DEF List, ReadersInv, ReadersTypeOK, Labels

LEMMA HeadInv ==
  ASSUME ReadersInv, HeadRequest
  PROVE  ReadersInv'
<1>1. pc = "head" /\ pc' \in {"end", "get", "gates"}
  BY DEF HeadRequest, NoAnswer, Fail, Go
<1>2. pc' = "gates" => read' \in {Bare("absent"), Bare("oversized"), Bare("sized")}
  BY DEF HeadRequest, NoAnswer, Fail, Go
<1>3. pc' = "gates" => read'.format = 0
  BY <1>2 DEF Bare, NoMarker
<1>4. LocalGates' /\ VersionSeen' /\ MarkerKept'
  BY <1>1, <1>3 DEF LocalGates, VersionSeen, MarkerKept, States, INDEX_FORMAT_VERSION
<1>5. QED
  BY <1>1, <1>4, ReaderInv DEF HeadRequest, ReadersInv, ReadersTypeOK, Labels

LEMMA GetInv ==
  ASSUME ReadersInv, GetRequest
  PROVE  ReadersInv'
<1>1. pc = "get" /\ pc' \in {"end", "gates"}
  BY DEF GetRequest, NoAnswer, Fail, Go
<1>2. pc' = "gates" => read' = marker \/ read' = Bare("ok")
  BY DEF GetRequest, NoAnswer, Fail, Go
<1>3. Bare("ok").format = 0
  BY DEF Bare, NoMarker
<1>4. MarkerKept'
  <2>1. ~States(Bare("ok"), INDEX_FORMAT_VERSION)
    BY <1>3 DEF States, INDEX_FORMAT_VERSION
  <2>2. marker' = marker
    BY DEF GetRequest, index
  <2>3. QED
    BY <1>2, <2>1, <2>2 DEF MarkerKept
<1>5. LocalGates' /\ VersionSeen'
  BY <1>1 DEF LocalGates, VersionSeen
<1>6. QED
  BY <1>1, <1>4, <1>5, ReaderInv DEF GetRequest, ReadersInv, ReadersTypeOK, Labels

LEMMA GatesInv ==
  ASSUME ReadersInv, Gates
  PROVE  ReadersInv'
<1> USE DEF ReadersInv
<1>1. pc = "gates" /\ pc' \in {"end", "scan"}
  BY DEF Gates, Fail, Go
<1>2. LocalGates' /\ VersionSeen' /\ MarkerKept'
  BY <1>1 DEF LocalGates, VersionSeen, MarkerKept
<1>3. ASSUME pc' = "scan" PROVE Passed'
  <2>1. States(read, INDEX_FORMAT_VERSION) /\ said' = MarkerCompletionWarning(read)
    BY <1>3, VersionGate DEF Gates, Fail, Go, Say
  <2>2. ASSUME ~races PROVE Attested /\ (said' = "" => marker.errors <= 0)
    <3>1. read = marker
      BY <1>1, <2>1, <2>2 DEF MarkerKept
    <3>2. QED
      BY <2>1, <3>1, WarningGate DEF Attested, States, ReadersTypeOK
  <2>3. QED
    BY <2>1, <2>2 DEF Passed, Attested, Gates, index
<1>4. QED
  BY <1>1, <1>2, <1>3, ReaderInv DEF Gates, ReadersTypeOK, Labels

\* What is read past the gates is what they attest.
LEMMA ScanInv ==
  ASSUME ReadersInv, NEW p \in Partitions, Scan(p)
  PROVE  ReadersInv'
<1> USE DEF ReadersInv
<1>1. Passed /\ pc = "scan" /\ UNCHANGED <<marker, transport, read, said, races, pc>>
  BY DEF GatesHold, Scan, index
<1>2. UNCHANGED <<holds, claimed, todo, lost, crawling>>
  BY DEF Scan, index
<1>3. holds[p] \in Seen
  BY DEF ReadersTypeOK, Contents, Seen
<1>4. ReadersTypeOK'
  BY <1>1, <1>2, <1>3 DEF ReadersTypeOK, Scan
<1>5. MarkerIsTrue' /\ CrawlIsCounted'
  BY <1>1, <1>2 DEF MarkerIsTrue, CrawlIsCounted, Attested, States
<1>6. LocalGates' /\ VersionSeen' /\ MarkerKept'
  BY <1>1 DEF LocalGates, VersionSeen, MarkerKept
<1>7. GatesHold' /\ ScanIsLate'
  BY <1>1 DEF GatesHold, ScanIsLate, Passed, Attested
<1>8. ASSUME ~races, NEW q \in claimed, scan'[q] # "" PROVE Whole(scan'[q], said = "")
  <2>1. q \in Partitions
    BY DEF ReadersTypeOK
  <2>2. CASE q = p
    <3>1. scan'[q] = holds[q]
      BY <2>1, <2>2 DEF Scan, ReadersTypeOK
    <3>2. Whole(holds[q], marker.errors <= 0) /\ (said = "" => marker.errors <= 0)
      BY <1>1, <1>8 DEF Passed, MarkerIsTrue
    <3>3. QED
      BY <3>1, <3>2 DEF Whole
  <2>3. CASE q # p
    <3>1. scan'[q] = scan[q]
      BY <2>1, <2>3 DEF Scan, ReadersTypeOK
    <3>2. QED
      BY <1>8, <3>1 DEF ScanIsWhole
  <2>4. QED
    BY <2>2, <2>3
<1>9. ScanIsWhole'
  BY <1>1, <1>2, <1>8 DEF ScanIsWhole
<1>10. QED
  BY <1>4, <1>5, <1>6, <1>7, <1>9

LEMMA AnswerInv ==
  ASSUME ReadersInv, Answer
  PROVE  ReadersInv'
<1> USE DEF ReadersInv, index, Answer, Go
<1>1. ReadersTypeOK'
  BY DEF ReadersTypeOK, Labels
<1>2. MarkerIsTrue' /\ CrawlIsCounted'
  BY DEF MarkerIsTrue, CrawlIsCounted, Attested, States
<1>3. LocalGates' /\ VersionSeen' /\ MarkerKept'
  BY DEF LocalGates, VersionSeen, MarkerKept
<1>4. GatesHold' /\ ScanIsLate'
  BY DEF GatesHold, ScanIsLate, Passed, Attested
<1>5. ScanIsWhole'
  BY DEF ScanIsWhole
<1>6. QED
  BY <1>1, <1>2, <1>3, <1>4, <1>5

LEMMA StepInv == ReadersInv /\ [Next]_vars => ReadersInv'
<1> SUFFICES ASSUME ReadersInv, [Next]_vars PROVE ReadersInv'
  OBVIOUS
<1>1. CASE CrawlStep
  BY <1>1, CrawlInv
<1>2. CASE ReaderStep
  BY <1>2, BeginInv, VersionInv, WarningInv, ListInv, HeadInv, GetInv, GatesInv, ScanInv, AnswerInv
     DEF ReaderStep
<1>3. CASE UNCHANGED vars
  BY <1>3 DEF vars, ReadersInv, ReadersTypeOK, MarkerIsTrue, CrawlIsCounted, LocalGates, VersionSeen,
              MarkerKept, GatesHold, ScanIsLate, ScanIsWhole, Passed, Attested
<1>4. QED
  BY <1>1, <1>2, <1>3 DEF Next

-----------------------------------------------------------------------------

\* The invariant of readers and crawls: markers tell the truth, gates that were
\* passed still hold, and chunks are read behind them.
THEOREM ReadersInvariant == Spec => []ReadersInv
<1>1. Init => ReadersInv
  BY InitInv
<1>2. ReadersInv /\ [Next]_vars => ReadersInv'
  BY StepInv
<1>3. QED
  BY <1>1, <1>2, PTL DEF Spec

\* "Two ways an index falls short": a reader that warns of nothing, and in whose time
\* no crawl began, printed every row of what the latest crawl was to rewrite, whatever
\* died or was tolerated before.
THEOREM SilenceIsComplete == Spec => []SilenceMeansComplete
<1>1. ReadersInv => SilenceMeansComplete
  <2> SUFFICES ASSUME ReadersInv, Answered, said = "", ~races, NEW p \in claimed
               PROVE  scan[p] = "all"
    BY DEF SilenceMeansComplete
  <2>1. p \in Partitions /\ scan[p] # ""
    BY DEF ReadersInv, ReadersTypeOK, Answered
  <2>2. QED
    BY <2>1 DEF ReadersInv, ScanIsWhole, Whole
<1>2. QED
  BY <1>1, ReadersInvariant, PTL

\* "no deletion set may come from an unknown layout": a chunk is read only behind a
\* marker of this version, so never one that a crawl replaces or died replacing.
THEOREM UnknownIsRefused == Spec => []UnattestedIsRefused
<1>1. ReadersInv => UnattestedIsRefused
  <2> SUFFICES ASSUME ReadersInv, NEW p \in Partitions, scan[p] # ""
               PROVE  /\ transport = "s3" => States(read, INDEX_FORMAT_VERSION)
                      /\ p \in claimed /\ ~races => scan[p] # "mixed"
    BY DEF UnattestedIsRefused, States
  <2>1. Passed
    BY DEF ReadersInv, GatesHold
  <2>2. QED
    BY <2>1 DEF Passed, ReadersInv, ScanIsWhole, Whole
<1>2. QED
  BY <1>1, ReadersInvariant, PTL

-----------------------------------------------------------------------------
(* xdu-rm.                                                                 *)

\* None is no number.
Constants == RmOK /\ None \notin Int

-----------------------------------------------------------------------------
(* Safe mode.                                                              *)

\* The threshold in force is no later than the one of the present moment.
SinceFits ==
  /\ since \in Int \cup {None}
  /\ phase = "delete" /\ opts.older # None =>
       since # None /\ since <= DaysAgo(opts.older)

\* Files that others left alone since their stat still pass it.
CheckedFits ==
  \A f \in File : step[f] = "checked" =>
    /\ phase = "delete" /\ f \in files
    /\ opts.safe /\ f \notin touched =>
         /\ opts.older # None => disk[f].atime < since
         /\ opts.max # None => disk[f].len <= opts.max

Steps == {"none", "todo", "checked", "skipped", "missing", "failed", "deleted"}

RmTypeOK ==
  /\ now \in Nat
  /\ opts \in Option
  /\ disk \in [File -> Entry]
  /\ step \in [File -> Steps]

SafeInv == RmTypeOK /\ SinceFits /\ CheckedFits

LEMMA OptionFacts ==
  ASSUME Constants, opts \in Option
  PROVE  /\ opts.older # None => opts.older \in Int
         /\ opts.older # None => opts.older >= 0
         /\ opts.max # None => opts.max \in Int
<1>1. opts.older \in Nat \cup {None} /\ opts.max \in Sizes \cup {None}
  BY DEF Option
<1>2. Sizes \subseteq Nat
  BY DEF Constants, RmOK
<1>3. \A n \in Nat : n \in Int /\ n >= 0
  OBVIOUS
<1>4. (opts.older # None => opts.older \in Nat) /\ (opts.max # None => opts.max \in Nat)
  BY <1>1, <1>2, Zenon
<1>5. QED
  BY <1>3, <1>4, Zenon

LEMMA EntryFacts ==
  ASSUME Constants, disk \in [File -> Entry], NEW f \in File
  PROVE  disk[f].atime \in Int /\ disk[f].len \in Int
<1>1. disk[f] \in Entry
  OBVIOUS
<1>2. disk[f].atime \in Time /\ disk[f].len \in Sizes
  BY <1>1 DEF Entry
<1>3. Start \in Nat /\ Seconds \in Nat /\ Sizes \subseteq Nat
  BY DEF Constants, RmOK
<1>4. disk[f].len \in Int
  <2>1. disk[f].len \in Nat
    BY <1>2, <1>3, Zenon
  <2>2. QED
    BY <2>1
<1>5. disk[f].atime \in 0 .. Start + Seconds
  BY <1>2 DEF Time
<1>6. QED
  BY <1>4, <1>5

\* A threshold is a moment, and moves on with the present one.
LEMMA DaysAgoFacts ==
  ASSUME Constants, NEW days \in Int, now \in Int
  PROVE  /\ DaysAgo(days) \in Int
         /\ now' \in Int /\ now <= now' => DaysAgo(days)' \in Int /\ DaysAgo(days) <= DaysAgo(days)'
<1>1. Day \in Int
  BY DEF Constants, RmOK
<1>2. PICK span \in Int : span = days * Day
  BY <1>1
<1>3. DaysAgo(days) = now - span /\ DaysAgo(days)' = now' - span
  BY <1>2 DEF DaysAgo
<1>4. QED
  BY <1>3

LEMMA InitSafe == ASSUME Constants, RmInit PROVE SafeInv
<1>1. RmTypeOK
  BY DEF RmInit, RmTypeOK, Constants, RmOK, Steps
<1>2. SinceFits /\ CheckedFits
  BY DEF RmInit, SinceFits, CheckedFits
<1>3. QED
  BY <1>1, <1>2 DEF SafeInv

\* The end of a run leaves no file that passed.
LEMMA EndsSafe ==
  ASSUME SafeInv, Ends, UNCHANGED <<disk, now, opts>>
  PROVE  SafeInv'
<1>1. RmTypeOK'
  BY DEF SafeInv, RmTypeOK, Ends, Steps
<1>2. SinceFits' /\ CheckedFits'
  BY DEF Ends, SinceFits, CheckedFits
<1>3. QED
  BY <1>1, <1>2 DEF SafeInv

LEMMA SelectSafe == ASSUME Constants, SafeInv, Select PROVE SafeInv'
<1>1. UNCHANGED <<disk, now, opts>>
  BY DEF Select
<1>2. CASE Ends
  BY <1>1, <1>2, EndsSafe
<1>3. CASE \E chosen : /\ phase' = "confirm" /\ since' = since
                       /\ step' = [f \in File |-> IF f \in chosen THEN "todo" ELSE "none"]
  <2>1. RmTypeOK'
    BY <1>1, <1>3 DEF SafeInv, RmTypeOK, Steps
  <2>2. SinceFits' /\ CheckedFits'
    BY <1>3 DEF SafeInv, SinceFits, CheckedFits
  <2>3. QED
    BY <2>1, <2>2 DEF SafeInv
<1>4. QED
  BY <1>2, <1>3 DEF Select

LEMMA DeclineSafe == ASSUME Constants, SafeInv, Decline PROVE SafeInv'
BY EndsSafe DEF Decline

LEMMA ConfirmSafe == ASSUME Constants, SafeInv, Confirm PROVE SafeInv'
<1>1. RmTypeOK'
  BY DEF SafeInv, RmTypeOK, Confirm
<1>2. SinceFits'
  <2>1. CASE opts.older = None
    BY <2>1 DEF Confirm, SinceFits
  <2>2. CASE opts.older # None
    <3>1. opts.older \in Int /\ now \in Int
      BY <2>2, OptionFacts DEF SafeInv, RmTypeOK
    <3>2. DaysAgo(opts.older) \in Int
      BY <3>1, DaysAgoFacts
    <3>3. since' = DaysAgo(opts.older) /\ DaysAgo(opts.older)' = DaysAgo(opts.older) /\ opts' = opts
      BY <2>2 DEF Confirm, DaysAgo
    <3>4. since' # None
      BY <3>2, <3>3 DEF Constants
    <3>5. QED
      BY <3>2, <3>3, <3>4 DEF SinceFits, DaysAgo
  <2>3. QED
    BY <2>1, <2>2
<1>3. CheckedFits'
  BY DEF SafeInv, Confirm, CheckedFits
<1>4. QED
  BY <1>1, <1>2, <1>3 DEF SafeInv

\* A stat that lets a file through has seen that it passes.
LEMMA StatFits ==
  ASSUME Constants, RmTypeOK, SinceFits, phase = "delete",
         NEW f \in File, Stat(f) = "checked"
  PROVE  /\ opts.older # None => disk[f].atime < since
         /\ opts.max # None => disk[f].len <= opts.max
<1>1. disk[f].atime \in Int /\ disk[f].len \in Int
  BY EntryFacts DEF RmTypeOK
<1>2. opts.max # None => opts.max \in Int
  BY OptionFacts DEF RmTypeOK
<1>3. ~(since # None /\ disk[f].atime >= since) /\ ~(opts.max # None /\ disk[f].len > opts.max)
  BY DEF Stat
<1>4. opts.older # None => since # None /\ since \in Int
  BY DEF SinceFits
<1>5. QED
  BY <1>1, <1>2, <1>3, <1>4

LEMMA CheckSafe == ASSUME Constants, SafeInv, NEW f \in File, Check(f) PROVE SafeInv'
<1>1. /\ phase = "delete" /\ f \in files
      /\ step' = [step EXCEPT ![f] = IF opts.safe THEN Stat(f) ELSE "checked"]
      /\ UNCHANGED <<disk, now, opts, phase, since, files, touched>>
  BY DEF Check, Deleting, Settle
<1>2. Stat(f) \in Steps
  BY DEF Stat, Steps
<1>3. RmTypeOK'
  BY <1>1, <1>2 DEF SafeInv, RmTypeOK, Steps
<1>4. SinceFits'
  BY <1>1 DEF SafeInv, SinceFits, DaysAgo
<1>5. CheckedFits'
  <2>1. SUFFICES ASSUME NEW g \in File, step'[g] = "checked"
                 PROVE  /\ phase = "delete" /\ g \in files
                        /\ opts.safe /\ g \notin touched =>
                             /\ opts.older # None => disk[g].atime < since
                             /\ opts.max # None => disk[g].len <= opts.max
    BY <1>1 DEF CheckedFits
  <2>2. CASE g = f
    <3>1. opts.safe => Stat(f) = "checked"
      BY <1>1, <2>1, <2>2 DEF SafeInv, RmTypeOK
    <3>2. QED
      BY <1>1, <2>2, <3>1, StatFits DEF SafeInv
  <2>3. CASE g # f
    BY <1>1, <2>1, <2>3 DEF SafeInv, RmTypeOK, CheckedFits
  <2>4. QED
    BY <2>2, <2>3
<1>6. QED
  BY <1>3, <1>4, <1>5 DEF SafeInv

LEMMA UnlinkSafe == ASSUME Constants, SafeInv, NEW f \in File, Unlink(f) PROVE SafeInv'
<1>1. /\ \E outcome \in {"deleted", "missing", "failed"} : step' = [step EXCEPT ![f] = outcome]
      /\ disk' = disk \/ disk' = [disk EXCEPT ![f].state = "gone"]
      /\ UNCHANGED <<now, opts, phase, since, files, touched>>
  BY DEF Unlink, Settle
<1>2. RmTypeOK'
  BY <1>1 DEF SafeInv, RmTypeOK, Steps, Entry
<1>3. SinceFits'
  BY <1>1 DEF SafeInv, SinceFits, DaysAgo
<1>4. \A g \in File : step'[g] = "checked" => step[g] = "checked" /\ g # f /\ disk'[g] = disk[g]
  BY <1>1 DEF SafeInv, RmTypeOK
<1>5. CheckedFits'
  BY <1>1, <1>4 DEF SafeInv, CheckedFits
<1>6. QED
  BY <1>2, <1>3, <1>5 DEF SafeInv

LEMMA FinishSafe == ASSUME Constants, SafeInv, Finish PROVE SafeInv'
BY EndsSafe DEF Finish

LEMMA RunXduRmSafe == ASSUME Constants, SafeInv, NEW d \in BOOLEAN, RunXduRm(d) PROVE SafeInv'
<1>1. RmTypeOK' /\ SinceFits'
  BY DEF SafeInv, RmTypeOK, SinceFits, RunXduRm
<1>2. \A g \in File : step[g] # "checked"
  BY DEF SafeInv, CheckedFits, RunXduRm
<1>3. CheckedFits'
  BY <1>2 DEF RunXduRm, CheckedFits
<1>4. QED
  BY <1>1, <1>3 DEF SafeInv

\* Time that passes leaves the threshold behind.
LEMMA TickSafe == ASSUME Constants, SafeInv, Tick PROVE SafeInv'
<1>1. now \in Nat /\ now' = now + 1 /\ UNCHANGED <<disk, opts, phase, since, files, step, touched>>
  BY DEF Tick, SafeInv, RmTypeOK
<1>2. RmTypeOK'
  BY <1>1 DEF SafeInv, RmTypeOK
<1>3. SinceFits'
  <2>1. SUFFICES ASSUME phase = "delete", opts.older # None
                 PROVE  since <= DaysAgo(opts.older)'
    BY <1>1 DEF SafeInv, SinceFits
  <2>2. opts.older \in Int /\ now \in Int /\ now' \in Int /\ now <= now'
    BY <1>1, <2>1, OptionFacts DEF SafeInv, RmTypeOK
  <2>3. since \in Int /\ since <= DaysAgo(opts.older)
    BY <2>1 DEF Constants, SafeInv, SinceFits
  <2>4. /\ DaysAgo(opts.older) \in Int /\ DaysAgo(opts.older)' \in Int
        /\ DaysAgo(opts.older) <= DaysAgo(opts.older)'
    <3>1. \A n \in Int : /\ DaysAgo(n) \in Int
                         /\ DaysAgo(n)' \in Int /\ DaysAgo(n) <= DaysAgo(n)'
      BY <2>2, DaysAgoFacts
    <3>2. opts' = opts
      BY <1>1
    <3>3. QED
      BY <2>2, <3>1, <3>2
  <2>5. QED
    BY <2>3, <2>4
<1>4. CheckedFits'
  BY <1>1 DEF SafeInv, CheckedFits
<1>5. QED
  BY <1>2, <1>3, <1>4 DEF SafeInv

LEMMA DisturbSafe == ASSUME Constants, SafeInv, NEW f \in File, Disturb(f) PROVE SafeInv'
<1>1. /\ \E e \in Entry : disk' = [disk EXCEPT ![f] = e]
      /\ touched' = IF step[f] = "checked" THEN touched \cup {f} ELSE touched
      /\ UNCHANGED <<now, opts, phase, since, files, step>>
  BY DEF Disturb
<1>2. RmTypeOK'
  BY <1>1 DEF SafeInv, RmTypeOK
<1>3. SinceFits'
  BY <1>1 DEF SafeInv, SinceFits, DaysAgo
<1>4. \A g \in File : step[g] = "checked" /\ g \notin touched' => disk'[g] = disk[g] /\ g \notin touched
  BY <1>1 DEF SafeInv, RmTypeOK
<1>5. CheckedFits'
  BY <1>1, <1>4 DEF SafeInv, CheckedFits
<1>6. QED
  BY <1>2, <1>3, <1>5 DEF SafeInv

LEMMA NextSafe == ASSUME Constants, SafeInv, [RmNext]_rmVars PROVE SafeInv'
<1>1. CASE UNCHANGED rmVars
  BY <1>1 DEF rmVars, SafeInv, RmTypeOK, SinceFits, CheckedFits, DaysAgo
<1>2. CASE RmNext
  BY <1>2, RunXduRmSafe, SelectSafe, ConfirmSafe, DeclineSafe, CheckSafe, UnlinkSafe, FinishSafe, TickSafe,
     DisturbSafe DEF RmNext
<1>3. QED
  BY <1>1, <1>2

\* The step of a run with --safe that deletes a file finds it old and small enough.
LEMMA StepKeeps == ASSUME Constants, SafeInv, [RmNext]_rmVars PROVE KeepsChangedFiles
<1>1. SUFFICES ASSUME NEW f \in File \ touched, step[f] = "checked", step'[f] = "deleted", opts.safe
               PROVE  /\ opts.older # None => disk[f].atime < DaysAgo(opts.older)
                      /\ opts.max # None => disk[f].len <= opts.max
  BY DEF KeepsChangedFiles
<1>2. /\ phase = "delete"
      /\ opts.older # None => disk[f].atime < since
      /\ opts.max # None => disk[f].len <= opts.max
  BY <1>1 DEF SafeInv, CheckedFits
<1>3. CASE opts.older # None
  <2>1. since \in Int /\ since <= DaysAgo(opts.older)
    BY <1>2, <1>3 DEF Constants, SafeInv, SinceFits
  <2>2. opts.older \in Int /\ now \in Int /\ disk[f].atime \in Int
    BY <1>3, OptionFacts, EntryFacts DEF SafeInv, RmTypeOK
  <2>3. DaysAgo(opts.older) \in Int
    BY <2>2, DaysAgoFacts
  <2>4. QED
    BY <1>2, <1>3, <2>1, <2>2, <2>3
<1>4. QED
  BY <1>2, <1>3

\* With --safe, for any files, workers and changes by others: a file that is no longer
\* old or small enough when its worker looks at it stays (xdu-rm's safe mode).
THEOREM SafeModeKeeps == ASSUME Constants PROVE RmSpec => SafeKeepsChangedFiles
<1>1. RmInit => SafeInv
  BY InitSafe
<1>2. SafeInv /\ [RmNext]_rmVars => SafeInv'
  BY NextSafe
<1>3. SafeInv /\ [RmNext]_rmVars => KeepsChangedFiles
  BY StepKeeps
<1>4. QED
  BY <1>1, <1>2, <1>3, PTL DEF RmSpec, SafeKeepsChangedFiles

-----------------------------------------------------------------------------
(* Dry runs.                                                               *)

\* What a run selects whose options became conditions at t: the rows do not change.
SelectedAt(f, t) ==
  /\ opts.min # None   => rows[f].size >= opts.min
  /\ opts.max # None   => rows[f].size <= opts.max
  /\ opts.older # None => rows[f].atime < t - opts.older * Day
  /\ opts.newer # None => rows[f].atime >= t - opts.newer * Day

ChosenAt(t) ==
  LET matching == {f \in File : SelectedAt(f, t)} IN
  IF opts.limit = None THEN matching
  ELSE {f \in matching : Cardinality({g \in matching : g < f}) < opts.limit}

PreviewTypeOK ==
  /\ now \in Int
  /\ opts \in Option
  /\ \A f \in File : rows[f].atime \in Int

\* A dry run showed what its moment selects, and a run that acts, later, does so too.
PreviewInv ==
  /\ PreviewTypeOK
  /\ preview # None => shown \in Int /\ shown <= now /\ preview = ChosenAt(shown)
  /\ Acting => /\ asof \in Int /\ asof <= now /\ files = ChosenAt(asof)
               /\ preview # None => shown <= asof

LEMMA InitPreview == ASSUME Constants, RmInit PROVE PreviewInv
<1>1. now \in Int /\ opts \in Option
  BY DEF RmInit, Constants, RmOK
<1>2. ASSUME NEW f \in File PROVE rows[f].atime \in Int
  <2>1. disk \in [File -> Entry] /\ rows[f].atime = disk[f].atime
    BY <1>2 DEF RmInit
  <2>2. QED
    BY <1>2, <2>1, EntryFacts
<1>3. preview = None /\ ~Acting
  BY DEF RmInit, Acting
<1>4. QED
  BY <1>1, <1>2, <1>3 DEF PreviewInv, PreviewTypeOK

LEMMA SelectPreview == ASSUME PreviewInv, Select PROVE PreviewInv'
<1>1. UNCHANGED <<rows, opts, now, dry>>
  BY DEF Select
<1>2. ChosenAt(now)' = ChosenAt(now)
  BY <1>1 DEF ChosenAt, SelectedAt
<1>3. PICK chosen \in Limited({f \in File : Selected(f)}) :
        /\ IF dry THEN preview' = chosen /\ shown' = now ELSE UNCHANGED <<preview, shown>>
        /\ IF dry \/ chosen = {} THEN Ends
           ELSE phase' = "confirm" /\ asof' = now /\ files' = chosen
  BY DEF Select
<1>4. chosen = ChosenAt(now)
  BY <1>3 DEF Limited, Selected, ChosenAt, SelectedAt, DaysAgo
<1>5. PreviewTypeOK' /\ now \in Int
  BY <1>1 DEF PreviewInv, PreviewTypeOK
<1>6. CASE dry
  <2>1. preview' = ChosenAt(now)' /\ shown' = now /\ ~Acting'
    BY <1>1, <1>2, <1>3, <1>4, <1>6 DEF Acting
  <2>2. preview' = ChosenAt(shown)'
    BY <1>1, <2>1 DEF ChosenAt, SelectedAt
  <2>3. QED
    BY <1>1, <1>5, <2>1, <2>2 DEF PreviewInv
<1>7. CASE ~dry
  <2>1. UNCHANGED <<preview, shown>>
    BY <1>3, <1>7
  <2>2. ChosenAt(shown)' = ChosenAt(shown)
    BY <1>1, <2>1 DEF ChosenAt, SelectedAt
  <2>3. CASE Ends
    BY <1>1, <1>5, <2>1, <2>2, <2>3 DEF PreviewInv, Ends, Acting
  <2>4. CASE asof' = now /\ files' = chosen
    <3>1. ChosenAt(asof)' = ChosenAt(now)
      BY <1>1, <2>4 DEF ChosenAt, SelectedAt
    <3>2. QED
      BY <1>1, <1>4, <1>5, <2>1, <2>2, <2>4, <3>1 DEF PreviewInv
  <2>5. QED
    BY <1>3, <1>7, <2>3, <2>4
<1>8. QED
  BY <1>6, <1>7

\* The other steps leave what was selected alone, and time does not go back.
LEMMA KeepPreview ==
  ASSUME PreviewInv, UNCHANGED <<rows, opts, preview, shown>>, now' \in Int, now <= now',
         Acting' => Acting /\ UNCHANGED <<asof, files>>
  PROVE  PreviewInv'
<1>1. PreviewTypeOK' /\ now \in Int
  BY DEF PreviewInv, PreviewTypeOK
<1>2. preview' # None => shown' \in Int /\ shown' <= now' /\ preview' = ChosenAt(shown)'
  BY <1>1 DEF PreviewInv, ChosenAt, SelectedAt
<1>3. ASSUME Acting' PROVE /\ asof' \in Int /\ asof' <= now' /\ files' = ChosenAt(asof)'
                           /\ preview' # None => shown' <= asof'
  BY <1>1, <1>3 DEF PreviewInv, ChosenAt, SelectedAt
<1>4. QED
  BY <1>1, <1>2, <1>3 DEF PreviewInv

LEMMA NextPreview == ASSUME PreviewInv, [RmNext]_rmVars PROVE PreviewInv'
<1>1. CASE Select
  BY <1>1, SelectPreview
<1>2. now \in Int
  BY DEF PreviewInv, PreviewTypeOK
<1>3. CASE Tick
  BY <1>2, <1>3, KeepPreview DEF Tick, Acting
<1>4. CASE \E d \in BOOLEAN : RunXduRm(d)
  BY <1>2, <1>4, KeepPreview DEF RunXduRm, Acting
<1>5. CASE Confirm
  BY <1>2, <1>5, KeepPreview DEF Confirm, Acting
<1>6. CASE Decline \/ Finish
  BY <1>2, <1>6, KeepPreview DEF Decline, Finish, Ends, Acting
<1>7. CASE (\E f \in File : Check(f) \/ Unlink(f) \/ Disturb(f)) \/ UNCHANGED rmVars
  BY <1>2, <1>7, KeepPreview DEF Check, Unlink, Disturb, rmVars, Acting
<1>8. QED
  BY <1>1, <1>3, <1>4, <1>5, <1>6, <1>7 DEF RmNext

\* A threshold that moves on lets files come of age and none grow young.
LEMMA ThresholdMoves ==
  ASSUME Constants, PreviewTypeOK, NEW t \in Int, NEW u \in Int, t <= u, NEW f \in File
  PROVE  /\ opts.newer = None /\ SelectedAt(f, t) => SelectedAt(f, u)
         /\ opts.older = None /\ SelectedAt(f, u) => SelectedAt(f, t)
<1>1. Day \in Int /\ rows[f].atime \in Int
  BY DEF Constants, RmOK, PreviewTypeOK
<1>2. opts.older \in Nat \cup {None} /\ opts.newer \in Nat \cup {None}
  BY DEF PreviewTypeOK, Option
<1>3. ASSUME opts.older # None PROVE rows[f].atime < t - opts.older * Day => rows[f].atime < u - opts.older * Day
  <2>1. opts.older \in Nat
    BY <1>2, <1>3
  <2>2. PICK span \in Int : span = opts.older * Day
    BY <1>1, <2>1
  <2>3. QED
    BY <1>1, <2>2
<1>4. ASSUME opts.newer # None PROVE rows[f].atime >= u - opts.newer * Day => rows[f].atime >= t - opts.newer * Day
  <2>1. opts.newer \in Nat
    BY <1>2, <1>4
  <2>2. PICK span \in Int : span = opts.newer * Day
    BY <1>1, <2>1
  <2>3. QED
    BY <1>1, <2>2
<1>5. QED
  BY <1>3, <1>4 DEF SelectedAt

LEMMA PreviewHolds == ASSUME Constants, PreviewInv PROVE PreviewUpToAge
<1>1. SUFFICES ASSUME Acting, preview # None PROVE
        /\ (opts.older = None /\ opts.newer = None) \/ asof = shown => files = preview
        /\ opts.limit = None /\ opts.newer = None => preview \subseteq files
        /\ opts.limit = None /\ opts.older = None => files \subseteq preview
  BY DEF PreviewUpToAge
<1>2. /\ shown \in Int /\ preview = ChosenAt(shown) /\ PreviewTypeOK
      /\ asof \in Int /\ files = ChosenAt(asof) /\ shown <= asof
  BY <1>1 DEF PreviewInv
<1>3. opts.older = None /\ opts.newer = None => ChosenAt(asof) = ChosenAt(shown)
  BY DEF ChosenAt, SelectedAt
<1>4. opts.limit = None => /\ preview = {f \in File : SelectedAt(f, shown)}
                          /\ files = {f \in File : SelectedAt(f, asof)}
  BY <1>2 DEF ChosenAt
<1>5. \A f \in File : /\ opts.newer = None /\ SelectedAt(f, shown) => SelectedAt(f, asof)
                      /\ opts.older = None /\ SelectedAt(f, asof) => SelectedAt(f, shown)
  BY <1>2, ThresholdMoves
<1>6. QED
  BY <1>2, <1>3, <1>4, <1>5

\* For any number of files and runs, any length of a day and whatever others do to the
\* files: without an age a run takes on exactly what the latest dry run printed, as it
\* does within the same second (ORDER BY path); and without a limit what had come of
\* age by the dry run is still taken, and what was too old to be new is still left.
THEOREM DryRunUpToAge == ASSUME Constants PROVE RmSpec => []PreviewUpToAge
<1>1. RmInit => PreviewInv
  BY InitPreview
<1>2. PreviewInv /\ [RmNext]_rmVars => PreviewInv'
  BY NextPreview
<1>3. PreviewInv => PreviewUpToAge
  BY PreviewHolds
<1>4. QED
  BY <1>1, <1>2, <1>3, PTL DEF RmSpec
===============================================================================
