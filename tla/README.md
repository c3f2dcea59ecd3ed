# A TLA+ model of xdu

xdu crawls a directory tree into an index of Parquet files, one directory (or
S3 prefix) per top-level subdirectory, and ships readers over that index:
`xdu-find` prints matching paths, `xdu-view` explores them in a TUI, `xdu-rm`
deletes them. This directory holds TLA+ modules of the parts of xdu whose
correctness depends on order, concurrency or failure, TLC configurations that
check them on small instances, and TLAPS proofs for every instance. Parts that
keep no state but decide something a crawl or a deletion rests on (globs, ages,
modes, settings) are modelled as operators and compared with what they should
compute.

## Running it

    tlc -config CrawlS3.cfg MCCrawl.tla     # or any other .cfg
    tlc -config Browser.cfg MCBrowser.tla
    tlapm CrawlProofs.tla                   # ViewProofs, ...

## The system

| Part | Source | State it keeps | Operations |
|---|---|---|---|
| crawl driver | `src/bin/xdu.rs` | work queue, cancel flag, error tally, one thread per driver | pre-flight, clear marker, drain, join, attest |
| partition buffer | `src/crawl.rs` | rows buffered, next chunk id | add, flush, finalize |
| index sinks | `src/crawl.rs` (`LocalSink`), `src/s3.rs` (`S3Sink`) | the index itself: chunks, `.partial` files, marker | preflight, clear_marker, put_chunk, finalize_partition, write_marker |
| work queue | `src/crawl.rs` (`build_work_queue`) | none | classify top-level entries, refuse or order them |
| marker readers | `src/lib.rs`, `src/s3.rs` | none | read the marker, warn, refuse a format |
| xdu-find | `src/bin/xdu-find.rs` | none | gate, query, print |
| xdu-rm | `src/bin/xdu-rm.rs` | files selected, four counters | gate, select, confirm, re-stat (safe mode), unlink in parallel |
| xdu-view | `src/bin/xdu-view.rs` | mode, path, list or tree columns, filters, preview window | navigation, filters, sorting, reloads, paging |
| view queries | `src/view_query.rs` | none | statements for xdu-view |
| filters and parsers | `src/lib.rs` | `QueryFilters` | sizes, globs, modes, dates, conditions |
| S3 settings | `src/s3.rs` | none | locator, credential, endpoint and trust precedence |
| engine | `src/engine.rs` | none | open DuckDB, load extensions, create secret |

Writers and readers share nothing but the index. The writer's threads share the
queue (a mutex), the cancel flag and the tallies (relaxed atomics), and a sink.
The one promise between writer and readers is the completion marker
`.xdu-complete`: readers warn when it is absent or counts tolerated errors, and
refuse to read when its format version is not theirs.

What is hard here:

- several drivers write one index while a flag, a queue and a tally are read and
  written one atomic step at a time;
- the process may die between any two writes, and what it leaves is what the
  next run starts from: nothing is rolled back and no state but the index
  survives;
- the two sinks reach the same promise in opposite ways: locally chunks are
  invisible until finalize renames them, in S3 each is visible as it is put;
- a request to S3 can fail after it took effect;
- a run may cover part of the index (`--partition`) and its marker then speaks
  for all of it.

What makes each part correct:

- *crawl*: an attested index holds, in each partition the attesting run queued,
  the rows of that run's walk, once each, in whole files, and nothing else; the
  marker never stands while chunks change; only an accepted run takes it away;
  the error count in it is complete; a failure stops the queue; every run ends.
- *requests*: whatever is retried, lost or late, a marker is never seen over an
  index that is not whole.
- *work queue and keys*: what a finished run walked is where readers look for
  it, and nothing is stored in the place of another.
- *readers*: rows printed without a warning are complete; an unattested index is
  refused.
- *xdu-rm*: a dry run prints what the real run deletes, but for files that come of
  age in between; in safe mode no file goes that no longer matches what safe mode
  rechecks.
- *xdu-find*: what is written reads back as the rows it stands for.
- *xdu-view*: each column is the directory selected left of it, the path stays
  under its root, the screen shows what the index holds, the preview is a window
  of the file, and the names fit.
- *settings*: one source gives key, secret and token; writer and readers end at
  one host and trust the same servers; nothing is sent before verification is on.
- *arguments*: a glob, an age, a mode and a size select what they say.

## Modules

| Module | What it is |
|---|---|
| `Crawl` | one run after another over one index: driver threads, both sinks, faults, crashes; the properties |
| `IndexLedger` | the abstract specification: a run as a transaction over the partitions it queues |
| `CrawlInvariant`, `CrawlProofs` | the inductive invariants and their proofs: control, whole files and the tallies, then each of the two sinks |
| `MCCrawl` | `Crawl` for TLC, with the symmetry of the drivers |
| `Requests`, `RequestsProofs` | the requests of an S3 crawl with retries, timeouts and late effects; the invariant and its proof |
| `TopLevel`, `TopLevelProofs` | pre-flight checks, `build_work_queue` and the keys that partitions get and are looked for by |
| `Readers` | the marker gates and the scan of one reader while crawls rewrite the index |
| `Rm` | `xdu-rm`: dry run, prompt, workers, safe mode, over files that others change |
| `CommandProofs` | the proofs about the marker readers, safe mode and dry runs |
| `Find`, `MCFind` | what `xdu-find` writes row by row; a CSV and a JSON reader to read it back |
| `ViewQuery`, `QueryProofs` | what the statements behind xdu-view compute; the proof that their totals add up |
| `MCViewQuery` | the rows and filters that the queries are checked over |
| `View`, `ViewProofs` | xdu-view's list and tree, prompts and overlay, a key at a time, with queries that fail half way; the proofs about its form, what it shows of the index and what a frame shows of it |
| `Pager`, `PagerProofs` | the preview's window of lines over a file read in chunks; the proof that it is the file's and that G ends |
| `Layout` | which columns of the tree are on the screen, and how names are cut |
| `Ini`, `MCIni` | the parser of the AWS shared files; what a value of one should be |
| `S3Settings` | credentials, region, endpoint and trust from variables and files, the writer's client and the readers' session |
| `Glob`, `MCGlob` | `glob_to_regex`; what a glob should match |
| `Filters`, `MCFilters`, `MCSpecs` | `QueryFilters` and the parsers of its arguments; ages, modes and sizes as written |
| `Clock`, `MCClock` | the civil date of a log stamp; a calendar turned by hand |
| `InputsProofs` | the proofs about settings, shared files, day filters and the clock |
| `MCRuns`, `MCCommands`, `MCInputs`, `MCBrowser` | compositions for TLC: one part at a time is looked at, chosen by `scene`, and the rest stands still |

### How Crawl corresponds to the code

State. `final[p]` is what a reader's glob `*/*.parquet` matches in partition
`p`; `partial[p]` the `.partial` files of a local index; `marker` is
`.xdu-complete`, with the run that wrote it and its error count. `phase` is
where the main thread is: `"stopped"` (no process), `"clear"` (checks passed,
marker not yet cleared), `"drive"` (the thread scope). `todo`, `cancel`, `errs`
are the mutexed queue, the `AtomicBool` and `global_errors`. `pc[d]` is where
driver `d` is in `drain_queue`; `job[d]` is its partition, its `PartitionBuffer`
(rows buffered, next chunk id) and the position of the finalize loop.

A chunk is `[id, run, rows, whole]`: its number, the run that wrote it, which
rows of that run's walk of the partition it holds, and whether its bytes are all
there. Rows are numbered in the order the walk yields them, so "once each, none
lost" can be said without modelling paths.

Steps. A step is one thing another thread, a reader or a crash could come
between: the load of the flag, the pop under the lock, one walk entry with
everything `PartitionBuffer::add` does for it (the flush and the put included),
one rename, one removal, one LIST, one DELETE, the fold of the tallies, the
store of the flag, the marker's removal and its writing. Pre-flight only reads,
so acceptance or refusal is one step (`AcceptRun`, `RefuseRun`); what refuses is
a reserved or unrepresentable top-level name, a `--partition` that is not there,
an empty queue. Partition 0 is `__root__`; the queue's order (`__root__`, then
names ascending) is the order of the numbers.

Faults (`Faults` says which are allowed in a run):

| Fault | What the code can meet | Outcome |
|---|---|---|
| `put` | a chunk cannot be written | local: nothing or a torn `.partial`; S3: nothing, or the object although the answer was lost |
| `finalize` | a rename, removal, LIST or DELETE fails | nothing, or a DELETE that worked |
| `report` | the terminal cannot be written after a partition finished | the driver fails with its tallies folded |
| `clear` | the marker cannot be removed | nothing, or (S3) a DELETE that worked |
| `attest` | the marker cannot be written | local: none or a torn one; S3: none or the marker |
| `walk` | an entry or a directory cannot be read | a hard error, counted |
| `crash` | the process dies | memory is lost, the index stays |

Abstracted: row contents, Parquet encoding, progress and statistics that only
feed the summary (`files`, `bytes`, `vanished`, `lossy_paths`). A crash is the
death of the process: writes that returned are kept. The code calls no fsync, so
a power loss may keep less; that is not modelled. Two runs at once over one
index are not modelled: the code takes no lock, and the documents say nothing of them.

History variables (`queued`, `walked`, `hard`, `late`) are read by no guard.
They hold the claim of the latest run and are emptied when a run ends
unattested, which makes no claim.

### IndexLedger

A run is a transaction over the partitions it queues: `Begin` revokes the
attestation, `Rewrite` changes which runs own rows of a partition in its scope,
`Commit` restores the attestation only when each partition in scope is owned by
this run alone, `Abandon` leaves the index unattested, `Revoke` is a run that
failed at its very first request after all. `Ledger` in `Crawl` is the
refinement mapping: the scope is `queued` while drivers run, the owners of a
partition are the runs its chunks come from. An S3 crawl implements it; a local
one does not, because its prune stops at a gap (below).

### How the other modules correspond

*Requests* opens the step that `Crawl` takes for a request into `Send`, then
`Answer`, `GiveUp` (connection lost, or `REQUEST_TIMEOUT`), or `Refuse`. An
attempt that was given up is `loose`: it may `Land` at the store at any later
time, after its own retry or after the run, or `Vanish`. `retry_config` bounds
the attempts (`MaxRetries`). One partition and one run after another; `Settled`
says whether a run starts only when nothing of earlier ones is under way.

*TopLevel* runs `main` of `xdu.rs` from the parse of the locator to the marker,
over a directory whose entries have types, links among them, and names, two of
which are not UTF-8 and are stored as the same text. A `--partition` is any text:
`Elsewhere` are those that lead to a directory which is no entry, as `a/b` and `.` do. `Encoded` is what the
object-store client makes of a segment, `Expands` what a reader's glob makes of
it; both are external and given as tables.

*Readers* keeps of a crawl what a reader can tell apart (`CrawlClears`,
`CrawlStarts`, `CrawlFinishes`, `CrawlAttests`, `CrawlDies`). A local reader
reads the marker once for each gate (`Version`, `Warning`); over S3 it lists,
asks for size and then content (`List`, `HeadRequest`, `GetRequest`), and the
gates judge that. `Scan(p)` reads a partition at the moment its chunks are
opened.

*Rm*: `RunXduRm` (gates and options), `Select` (the statement, with its order and
limit), `Confirm`, then `Check(f)` and `Unlink(f)` for each worker's file: the
stat and the unlink are two steps, since the file may change in between
(`Disturb`). Time is in seconds, and a threshold is so many days of them before
the second in which a run computes it: a dry run and the real one after it have two.

*Find* writes one row a step; the scan and the pipe may fail between two.

*View* is one action per key and input mode. A handler is the set of its
outcomes, for every statement it sends can fail and `?` leaves `app` as it then
is. `ViewQuery` says what each statement computes from the rows, with `LIKE`'s
underscore and the shortest path as the code has them. *Pager* works on bytes:
a file is a sequence of letters, line ends, halves of a two-byte character and
a byte that is no text, and its lines are counted by its newlines. *Layout* computes panes from the five counts the code
uses and cuts names by bytes where the code does; its trees are those that
`ColumnsAreAChain` allows, with any file's preview still loaded, since Left keeps it.

*S3Settings* is a chain of steps, each of which resolves one setting or fails
the run: profile, keys, region, endpoint, trust, then the readers' session
(load httpfs, pin TLS, create the secret, request). A credential is known by
where it comes from, so that a mixed pair shows. What httpfs, OpenSSL and the
writer's TLS stack do is external, modelled from how the code works around it.

*Glob* translates a pattern character by character into a sequence of characters,
escaped or not, which is all that RE2 gets; what RE2 makes of it (`Compiles`,
`RegexMatches`, external) is read from that sequence anew, ranges and named classes
(`[:alpha:]`) among it. `MCGlob` types every short pattern and compares it with what
the documentation says a glob matches, over every short path. `Filters`, `Clock` and `Ini` are checked the
same way: `MC` modules hold the reference definition. Words have a sign bit, so
that `as i64` wraps. A nested block of a shared file is a set of at most one key, so
that a key may be empty, as `Option<String>` lets it.

## Runs

| Run | Configuration | Shows |
|---|---|---|
| `crawl_s3` | `CrawlS3.cfg`: 2 drivers, 2 partitions, chunks of 1 row, 2 entries per walk, 2 runs over up to 2 old chunks, all faults, `--partition` | `AttestedExact`, `MarkerCountsEveryError`, `IndexFixedUnderMarker`, `CrawlIsATransaction`, and the inductive invariant `CrawlInv` |
| `crawl_local` | `CrawlLocal.cfg`: 1 driver, 2 partitions, chunks of 2 rows, 3 entries, 2 runs over up to 3 old chunks, all faults, `--partition` | `AttestedPresent`, `FinalsWhole`, `OnlyAcceptedRunRevokes`, `TypeOK`, `CrawlInv` |
| `runs_end` | `Runs.cfg`: 2 drivers, 3 partitions, failing writes; the requests of 3 runs of up to 2 chunks, 2 retries, none of which outlives its run; fairness | `CancelStopsTheQueue`, `EveryRunEnds`, `WholeWhenMarked`, `RunEnds` |
| `crawl_local_gap` | `CrawlLocalGap.cfg` | `AttestedExact` fails on a local index |
| `crawl_scoped_after_crash` | `CrawlScopedAfterCrash.cfg`: 2 partitions and `__root__` of a tree that stays (`SteadySpec`), one crash | `AttestedUnmixed` fails |
| `crawl_old_format` | `CrawlOldFormat.cfg` | `AttestedOneFormat` fails |
| `commands` | `Commands.cfg`: readers over 2 partitions, 2 crawls, 2 tolerated errors; `xdu-rm` on 2 files, with `--safe`, with `--limit` and with ages, 2 workers, two runs, dry or real, one change by others, a day of 2 seconds of which one passes; `xdu-find` with 2 rows of paths up to 3 characters | `SilenceMeansComplete`, `UnattestedIsRefused`, `SafeKeepsChangedFiles`, `PreviewUpToAge`, `OutputReadsBack` |
| `rm_preview_drift` | `RmPreview.cfg`: the same | `PreviewIsExact` fails |
| `inputs` | `Inputs.cfg`: settings from variables and two files, CA files; shared files up to 5 lines; globs up to 5 characters, up to 6 that open a class and up to 9 that begin with `[[:`; day filters over an 8-bit word; modes up to 6 characters, sizes up to 5; every day to 2410 | `OneKeyPair`, `SameEndpoint`, `VerifiedFirst`, `WriterIsReadable`, `IniMeaning`, `MeansTheGlob`, `AgeDecides`, `ReadsAsWritten`, `StampIsCivil` |
| `browser` | `Browser.cfg`: a directory of up to three entries crawled over local and S3 locators; queries over sets of files in two partitions; the list and the tree over four files, queries that succeed with two sort orders and two filters, queries that fail, from the start in a partition, over an index crawled once meanwhile; the pager over texts up to 8 bytes, and over files that change once; screens 30 to 140 wide | `EveryItemFound`, `ScopedToOne`, `TotalsAddUp`, `ShownIsCurrent`, `ModesApart`, `ColumnsAreAChain`, `PathUnderRoot`, `ToggleKeepsPlace`, `WindowIsTheFile`, `NeverSpins`, `ActiveAndPreviewShown`, `RowsLineUp` |
| `view_panic` | `ViewPanic.cfg` | `KeysNeverPanic` fails |
| `requests_late` | `RequestsLate.cfg`: the requests of `runs_end`, which may outlive their run | `RerunIsClean` fails |

The bounds of the crawl. Two runs are enough for every claim about what a run finds: a run
over what an earlier, finished run left (run 0, in the initial states), and a
run over what a failed or killed one left. Old chunks outnumber what a run
writes, so prunes of no, one and several chunks happen, and in `crawl_local` a
kill inside a prune leaves a gap. Chunks of one row make every row a put, so
chunk ids and faults vary most; chunks of two rows over walks of up to three
give empty, exactly filled and tail flushes. Two drivers over two partitions
give every interleaving of two threads with the main thread, and one of them
idle or late; three partitions give the driver that passes the flag's check too
early something to take. `crawl_local` has one driver because drivers meet only
in the queue, the flag and the tally, which do not depend on the sink and have
two drivers in `crawl_s3` and `runs_end`. The proofs remove all these bounds for the
properties they cover.

The bounds of the other runs.

- *requests*: an attempt can be overtaken by its retry and by the retry of that;
  with three runs a request of the first can meet the marker, the chunks and the
  prune of the second and what the third makes of them; two chunks shrink to one
  or none, so a prune has one and two to delete. The proof removes these bounds.
- *readers*: two crawls put one before the gates and one between them, or between
  gates and scan; two partitions are in and out of a `--partition` run.
- *rm*: two files and two workers give every order of stat, unlink and a change;
  of two files a limit of one has to leave out the right one; two runs are a dry one
  and the real one after it, in the same second or the next, in which a file comes of
  age. The proofs remove these bounds.
- *work queue*: names that a key or a glob changes, reserved ones, two that are stored
  alike, next to an entry of every type, under prefixes good and bad; `.` and a name's
  lossy text given to `--partition`. The proof
  removes these bounds, and that of one run.
- *settings*: each source has, lacks or half has a pair, is absent or unreadable;
  the endpoint has every shape the parser tells apart; the CA file every set of
  the certificates that the two TLS stacks judge differently.
- *globs*: a class with a range, a negation and a quote needs five characters
  after its bracket; longer globs are sequences of these, but for what RE2 reads as a
  name, which reaches over the end of a class: nine characters that begin with `[[:`
  hold one, known or not, and a second class behind it.
- *ages*: a word of 8 bits and a day of 3 seconds keep what a 64-bit word and
  86400 seconds do: day counts whose seconds just fit and are zero, and
  rows on both sides of the threshold and in the future. TLC's own integers have
  32 bits; for the same reason the clock counts days and seconds apart. 2410 is
  past one era of 400 years from the epoch.
- *modes and sizes*: all short arguments, digits out of range and suffixes that
  end in one another among them.
- *view*: two partitions, a directory in one, a file in the crawled directory
  itself. Three columns, a path that failed loads let grow past the tree, and an
  order by name and one by a total occur; the handlers look at the order only to
  sort. Failures are explored with one filter and one order, since they do not
  look at either, and from a start in a partition, one key below the list of them.
- *pager*: a chunk is 3 bytes, the window 4 lines and the sniffed prefix 4 bytes,
  so a file of 8 bytes spans several chunks, a line or a character lies across a
  boundary, and the window drops its front.
- *layout*: widths on both sides of each threshold of the code, seven columns over
  at most five panes, names shorter, equal and longer than their cells, of one
  to three bytes a character.

Deadlock is checked in the crawl's runs: a stopped system can always be asked for
a run it refuses, so a state without a successor would be a thread or a join
stuck. In `runs_end` it is checked of requests, too: a client that has ended its
last run may rest (`RequestsEnd`), and any other can go on. In the other runs
commands end and arguments reach their bound, so it is not checked there.

Fairness. `EveryRunEnds` assumes weak fairness of the main thread (`Main`) and
of each driver (`Driver(d)`): they are OS threads, none waits on another while
it holds the queue's lock, and the join waits for all. Every walk is finite
(`MaxEntries`). Nothing obliges an operator to start a run, nor a crash to
happen. The run has no crash: a crash ends the run and would only help.
`RunEnds` assumes weak fairness of the client's steps together (`Run`): each
wait is bounded by `REQUEST_TIMEOUT`, so an answer, a refusal or the end of the
wait comes. It does not assume that a request lands or that an answer arrives.

### What fails, and where the documents say otherwise

- `crawl_local_gap`: a run killed between two removals of the local prune has
  deleted the lower stale chunks and not the higher. The next run's prune stops
  at the gap and its marker covers the stale rows beyond. `crawl.rs` calls the
  numbering gap-free and the manual promises stale chunks are pruned.
  `AttestedPresent` is what does hold: the attested run's own chunks are there,
  complete, whole, numbered from 0, and anything else lies beyond a gap.
- `crawl_scoped_after_crash`: a run over two partitions is killed while it rewrites
  the second, and a `--partition` run over others attests the whole index, the
  half-rewritten partition with it.
- `crawl_old_format`: a run over part of an index of an older format marks all of
  it with the current format version, and readers read the old chunks as new.

- `view_panic`: a filter that matches nothing leaves the selection where it was,
  and Enter indexes the empty list with it.
- `rm_preview_drift`: a dry run with `--limit` and `--older-than`, and the real run a
  second later: a file has come of age and takes the place of one that was listed. The
  manual promises the same files. `PreviewUpToAge` is what does hold.
- `requests_late`: a PUT given up by a failed run may land after the next run
  pruned the partition, which then has a marker over a stale chunk.

Some properties that hold name an exception in their formula or comment; each is
a place where the code does something else than its documents say. With those
met while modelling and excluded by no run they are:

| Where | What the code does |
|---|---|
| `view_query.rs:185` | A partition's root is the directory of its shortest path, which need not contain the others. |
| `view_query.rs:115` | With filters, a partition's age is the latest of its rows with 0 for each that they leave out: before 1970 it shows another than the listing does (excluded in `TotalsAddUp`). |
| `view_query.rs:240` | The directory goes into `LIKE` unescaped: `_` in its name matches any character. |
| `xdu-view.rs:1400` | Toggled to the tree while a filter hides the open partition, the view ends up in another (`KeepsPlace` is said of no filters). |
| `xdu-view.rs:1361` | Left does not clear the file preview: after it, Right focuses the pager instead of entering the directory. |
| `xdu-view.rs:921` | Enter sets the partition before its load: when that fails, the list is still the partitions', and the next Enter takes a subdirectory's branch. |
| `xdu-view.rs:609` | `loading` stays set after a failed load (the flag is left out of `View`). |
| `xdu-view.rs:1268` | Any read error, the first line that is not UTF-8 among them, is shown as the end of the file. |
| `xdu-view.rs:1177` | A first chunk that ends inside a character is dropped whole while the offset stands after it (excluded in `WindowIsTheFile`). |
| `xdu-view.rs:91` | A UTF-8 file whose 8192nd byte is inside a character is taken for binary. |
| `xdu-view.rs:2030` | On a terminal under 40 columns the preview is shown and the active column is not (excluded in `ActiveAndPreviewShown`). |
| `xdu-view.rs:1974` | The list and the tree cut names by bytes and panic inside a character (`RowsLineUp` is said of ASCII names there). |
| `xdu-view.rs:2234`, `:2418` | The pager's scroll indicator falls below the pane; in the tree the status bar never shows the status. |
| `xdu-rm.rs:162`, `:176` | Safe mode rechecks only `--older-than` and `--max-size`, the latter against the length although the index has disk usage: sparse files are skipped. |
| `xdu.rs:720` | A `--partition` run writes its own error count over that of the whole index (no property covers it: `SilenceMeansComplete` speaks of the partitions of the latest crawl). |
| `xdu-find.rs:66` | A crawl that starts between the gates and the scan goes unseen (`races`). |
| `lib.rs:400` | The version gate refuses an index without a marker before the warning that a comment promises for one. |
| `lib.rs:312` | A marker deleted between HEAD and GET is reported as a missing bucket. |
| `s3.rs:741` | A CA file with an intermediate, without its own root but with that of another authority, is accepted; the readers then refuse servers that the writer took (excluded in `WriterIsReadable`). |
| `lib.rs:162` | A local partition name with glob characters selects others too (excluded in `ScopedToOne`). |
| `crawl.rs:373` | The chunks of a top-level directory that is gone stay in the index and are attested. |
| `lib.rs:677` | A quoted `-` in a class is written bare, and is a range (excluded in `MeansTheGlob`); a range with a quoted end is not checked (excluded in `DatabaseAccepts`). |
| `lib.rs:730` | Neither `[` nor `:` is escaped in a class, and RE2 reads `[:` there as the beginning of a name, which ends at the next `:]` wherever it is: an accepted glob matches something else, or the database refuses it (excluded in `MeansTheGlob` and `DatabaseAccepts`). |
| `xdu.rs:641` | `--partition` takes whatever leads to a directory, `.` and `a/b` and links among it; beside a real top-level directory the queue drops them in silence, and the run succeeds (`EveryItemFound` speaks of top-level directories). |
| `xdu-find.rs:212`, `:258` | A CSV path with a line break is not quoted; a JSON path with another control character is not escaped (excluded in `OutputReadsBack`). |
| `lib.rs:1139` | Days whose seconds exceed an `i64` wrap (`AgeDecides` is said of those that do not). |
| `s3.rs:1615` | A marker whose PUT is given up may be stored although the run failed; its index is whole all the same. |

## Proofs

The theorems about the crawl are for any finite non-empty set of drivers and any
values of the other constants that `ConstantsOK` allows, any faults among them;
those about requests for any number of runs, chunks and retries, those about
`xdu-rm` for any constants that `RmOK` allows and a `None` that is no number, those
about readers for any that `ReadersOK` allows, those about the work queue for any
that `TopLevelOK` allows, those about settings for any worlds (variables, shared
files, CA files), regions and URLs, and those about xdu-view for any finite indexes,
however often they change, with queries that fail or not (`ViewOK`), and for any
terminal (`LayoutOK`). Those about the pager are for any file, and any chunk and
window that `PagerOK` allows.

| Theorem | States |
|---|---|
| `CrawlProofs!TypeCorrect` | `TypeOK` |
| `CrawlProofs!ControlCorrect` | `ControlInv` |
| `CrawlProofs!FixedUnderMarker` | `IndexFixedUnderMarker` |
| `CrawlProofs!RevokedByAcceptedRun` | `OnlyAcceptedRunRevokes` |
| `CrawlProofs!WholeCorrect` | `FinalsWhole` |
| `CrawlProofs!S3AttestedExact` | `AttestedExact`, for an S3 sink |
| `CrawlProofs!S3CrawlIsATransaction` | `CrawlIsATransaction`, for an S3 sink |
| `CrawlProofs!LocalAttestedPresent` | `AttestedPresent`, for a local sink |
| `CrawlProofs!CancelStops` | `CancelStopsTheQueue` |
| `CrawlProofs!MarkerErrorsComplete` | `MarkerCountsEveryError` |
| `CrawlProofs!CrawlCorrect` | `CrawlInv`, the whole inductive invariant, for either sink |
| `RequestsProofs!SettledInvariant` | `RequestsInv`, when no request outlives its run |
| `RequestsProofs!MarkedIsWhole` | `WholeWhenMarked`, under the same condition |
| `CommandProofs!SafeModeKeeps` | `SafeKeepsChangedFiles` |
| `CommandProofs!DryRunUpToAge` | `PreviewUpToAge` |
| `CommandProofs!ReadersInvariant` | `ReadersInv` |
| `CommandProofs!SilenceIsComplete` | `SilenceMeansComplete` |
| `CommandProofs!UnknownIsRefused` | `UnattestedIsRefused` |
| `TopLevelProofs!TopLevelInvariant` | `TopLevelInv` |
| `TopLevelProofs!ItemsAreFound` | `EveryItemFound` |
| `TopLevelProofs!ScopeIsOne` | `ScopedToOne` |
| `InputsProofs!SettingsInvariant` | `SettingsInv` |
| `InputsProofs!KeysAreOfOneSource` | `OneKeyPair` |
| `InputsProofs!ReadersFollowWriter` | `SameEndpoint`, and that an endpoint is a bare URL or a region's |
| `InputsProofs!NoSecretUnverified` | `VerifiedFirst` |
| `InputsProofs!TrustIsShared` | `WriterIsReadable` |
| `InputsProofs!StampsAreCivil` | `StampIsCivil` |
| `InputsProofs!AgesDecide` | `AgeDecides` |
| `InputsProofs!IniIsRead` | `IniMeaning` |
| `ViewProofs!ViewInvariant` | `ViewInv` |
| `ViewProofs!ModesStayApart` | `ModesApart` |
| `ViewProofs!ColumnsStayAChain` | `ColumnsAreAChain` |
| `ViewProofs!PathStaysUnderRoot` | `PathUnderRoot` |
| `QueryProofs!TotalsAlwaysAddUp` | `TotalsAddUp` |
| `ViewProofs!WhatIsShownIsCurrent` | `ShownIsCurrent` |
| `ViewProofs!ActiveIsShown` | `ActiveAndPreviewShown`, any terminal, tree and column limit of two or more |
| `PagerProofs!PagerStays` | `PagerIInv` |
| `PagerProofs!WindowIsAlwaysTheFile` | `WindowIsTheFile` |
| `PagerProofs!LoadingEnds` | `NeverSpins` |

The argument, in `CrawlInvariant`:

- `PhaseInv`: while drivers run there is no marker, outside a run no driver
  exists. This alone gives the two action properties: whoever changes chunks is
  a driver, and whoever changes the marker is the main thread when none runs.
- `ClaimInv`: a partition is queued or on one driver. Without it a chunk put by
  another driver could undo what one has established of its partition.
- `DrainInv`: the queue is left unfinished only after a failure. Without it
  "all drivers are done" would not mean all partitions are.
- `WholeInv`: the `.partial` files numbered below a driver's next chunk are whole.
  A torn file of an earlier run may lie beyond them, and is renamed only after
  this run has overwritten it.
- `S3Inv`: of each driver's partition, how far it is (`Progress`): the chunks
  numbered below its next are this run's, disjoint, and hold with the buffer
  every row walked; after the LIST, everything else is among the stale ids still
  to delete (`Listed`); and each queued partition nobody is on holds exactly its
  rows (`Settled`). A driver leaves `Settled` only by `S3Finalized`, when no
  stale id is left.
- `LocalInv`, the local counterpart of `S3Inv`: the chunks of a driver's walk,
  renamed already or still to be (`Mine`), are this run's, whole, disjoint and
  numbered from 0 without a gap; nothing else in the partition is of this run,
  and what the prune has passed is empty (`LocalProgress`). `Untouched` says
  queued partitions hold no chunk of the run; it starts so because no chunk is of
  a later run than the latest. A driver
  leaves `Settled` by `LocalFinalized`, when the renames are through and the next
  number is a gap; `NumberedChunks` then counts the chunks.
- `LateInv`: once the flag is up, the partitions taken since and the drivers that
  are past the check (`Taking`) are together fewer than the drivers, for the one
  that raised it is neither. A take moves a driver from one side to the other.
- `ErrorsInv`: while no driver has failed, the errors met are those in the run's
  tally and those numbered on drivers (`Unfolded`). Numbering them makes the sum
  over drivers the size of a set, so that a fold removes as many elements as it
  adds to the tally.

`DriverShape` and `DriverFrame` say once, for all eighteen steps of a driver,
what they leave alone; the other lemmas treat only the steps that matter to
them. `NextStaleIsLeast` uses the library's well-founded order on the naturals
for the least stale id.

The argument for requests, `RequestsInv` in `Requests`:

- `SentFits`: whatever is under way is of the current run (that is where
  `Settled` is needed), puts only chunks the run has and deletes only those it
  has not, so that landing late or twice changes nothing it has established; a
  PUT of the marker is under way only over a whole partition.
- `WaitingFits`: the attempt that is waited for is the step's.
- `Progress`: how many of the run's chunks are there, and which stale ones are
  left to delete.
- `OldMarker`: the marker of an earlier run is there only until this run has
  removed it, and nothing but that removal was asked for before. Without it a
  step of this run could spoil the index under the earlier marker.

`EffectFits` says once what any such request does at the store, on time or late;
`AnswerInv` and `LandInv` rest on it.

The argument for safe mode, `SafeInv` in `CommandProofs`: the threshold in force is no
later than the present one (`SinceFits`; it was computed once, and seconds only
move the present one on), and a file whose stat let it through still passes
unless others have touched it since (`CheckedFits`, with `StatFits` for the step
that establishes it). For dry runs, `PreviewInv`: rows and options do not
change, so every selection of one second is the same set, `ChosenAt`, of which the dry
run's and this run's are two; the second is no earlier than the first, and a threshold
that is later admits more to `--older-than` and less to `--newer-than`.

The argument for readers, `ReadersInv` in `CommandProofs`:

- `MarkerIsTrue`: a marker of this version stands only while no crawl runs, and over
  partitions that are whole; with an error count of 0 they hold every row.
  `CrawlIsCounted` is what a crawl that runs must keep for that: there is no marker,
  and what it has finished is whole, complete unless it lost something.
- `VersionSeen`, `MarkerKept`, `GatesHold`: what a gate saw is still so at the next
  gate and at the scan, or a crawl has begun meanwhile and `races` says it. Without
  `MarkerKept` the marker that was listed, the one whose size was asked and the one
  that was read could be three.
- `ScanIsWhole`: what was read so far is what `MarkerIsTrue` says of it, or the
  reader has warned. A crawl that begins later does not spoil it, nor one before.

The argument for the work queue, `TopLevelInv` in `TopLevelProofs`:

- `ChecksHold`: a run that goes on has passed every check, over the directory it
  walks. It says so until the next run begins, because what was walked is judged by
  the checks of the run that did.
- `ChunksAreFound`: the directory of a chunk is the name of its partition under the
  prefix as it was given (`DirectoryIs`: nothing of it changes in a key). So two
  partitions have two directories, a walk replaces no chunk of another, and the last
  segment tells whose a chunk is, whichever run left it.
- `WorkIsSplit`: what was walked and what is queued are together the work items, and
  only a run that walks has any. A walk of the one that is left ends with all.

`TopLevelOK` assumes of the S3 client and of globs that they leave `__root__` as it
is: letters and underscores are neither encoded nor wild.

The argument for settings, `SettingsInv` in `InputsProofs`: `resolve` is a chain,
and each step's part (`ProfileIsDefined`, `KeysAreChosen`, `EndpointIsBare`,
`TrustIsUsable`) says what it decided in terms of the sources alone, from that step
on (`Past`). `KeysAreChosen` is that the keys are the whole ones of the first source
that has an id. `ConnFollows` is that a connection has been told a prefix of one
script, whose first statements are the pins: a secret or a request further on in it
is therefore behind them, whichever statement failed and was the last. `KeysAreNamed`
is no claim about the code but the model's convention for telling sources apart: a
credential is known by the name of the source it is in.

The argument for the clock: the calendar and the stamp agree at the epoch
(`EpochIsCivil`) and a step keeps them so (`ClockStep`). A day is one of a year of its
era (`InYear`), for which `YearOfEra` is shown to be that year whatever its leap days,
and the months from March on are a table of twelve lines (`MonthTable`); the last day
of a month, of February and of an era are the cases of the day after (`DayAfterDay`).
Quotients enter as bounds (`Quotient`, `TheQuotient`), for the provers cannot compute
with them.

The argument for ages, `AgesInv`: the thresholds in force are those of the counts asked
for, at the second of the command (`ThresholdsStand`). `ThresholdIs` takes the three
casts out of `days_ago_epoch`, which is where `AgesOK` is needed: days whose seconds are
an `i64`, and a clock that is. The footer needs less: a cast never makes a number larger
(`AtMostI64`), so the days it shows are over even after they have wrapped.

The argument for shared files, `IniInv`: the section and the block that the parser is in
are those of the next line, by what stands above it (`SectionNext`, `OpenNext`). The
block is that only inside a section that has a name; after a header that cannot be read
the parser keeps no count of blocks, and need not, for no pair gives a value until the
next header. Lines are found by `CHOOSE`, so the invariant holds their existence
(`LinesFind`) and needs no induction over the text: it is the parser's own.

The argument for xdu-view, `ViewInv` in `ViewProofs`. A handler is a set of outcomes,
and one that fails stops half way, so every lemma is about each outcome and not about
the last:

- `AppOK` is what a key of the list or the tree finds: the fields are there (`Shape`),
  the path is below its root (`PathOK`), the columns are a chain and the active one
  exists (`Chain`, `ActiveOK`), and the pager has no focus. `Handled` is that every
  outcome of a handler is such an app in the modes it started from.
- `Chain` says of each column that its selection is on an entry and that it is the
  child of its left neighbour (`ChildOf`). A cut keeps it (`ChainCut`); a selection that
  moves keeps it only because the columns beyond are cut at once (`ChainSelects`); a
  column joins it as the child of the last one's selection (`ChainGrows`), which is what
  `TreeUpdatePreview` loads (`PreviewUpdates`).
- `ActiveOK` allows a tree without columns, which a failed first load leaves, and an
  active column beyond them once the program has panicked.
- The walk down to the list's path starts beside the columns when the partition is
  hidden by a filter; `WalkOK` is what its steps keep, and the panic or the last
  preview brings `ActiveOK` back. Its fold is shown to exist, and each of its sets of
  outcomes to be `WalkOK`, by the least step that would break it
  (`NatMin`): the library's induction takes an operator and cannot be used.
- Paths are compared element by element (`PrefixIsElementwise`), so that `Front` of a
  path that is not its root is still below it (`PrefixFacts`): this is why going up
  stops at the root.
- For the frame (`ActiveIsShown`), `WantedIsVisible`: the panes on the screen are the
  last of those up to the active column and its preview, and two of them where there
  are two, since the terminal holds two (`TwoFit`) and the limit does (`LayoutOK`).

The argument for the pager, `PagerIInv` in `PagerProofs`:

- `Booked` is what holds of every preview, whatever becomes of the file: the first
  line's number and the length of the window add up to the lines loaded, and what is
  not text is at its end. A load keeps it (`LoadKeeps`), and drops no line from
  `Ahead` above the last on, for it reads no more lines than a chunk has bytes
  (`TakenIs`) and the window is a chunk and `Ahead` long (`SizesOK`). So a key that
  loads because the cursor is near the end does not drop the cursor's line (`Framed`).
- `Shown` is that the window is lines of the file, and that the offset is the end of
  the last one loaded. Without the offset it would not last: it is what makes the
  lines of the rest those that follow (`RestRead`). Where the k-th line ends in the
  beginning of a text, and in what comes after a line, are the lemmas `EndsInCut` and
  `EndsInRest`; that a line of UTF-8 is UTF-8, so that reading goes on to the last,
  is `LinesAreUtf8`.
- G: a pass that does not end moves the offset on by a byte or more, and leaves it
  within the file (`LoadKeeps`), so after one pass more than there are bytes the end has
  been reported (`LoadToEofEnds`). That the passes exist as a function, and that each of
  them is well formed, is shown by the least one that would not (`Least`).

`FreshInv` is what makes the screen current (`ShownIsCurrent`) last from key to key. The
screen alone would not do: a reload of the list must find its directory again, so the
list's partition, and that of every column, is one that can be read (`Loadable`), and
there is an index. The lemmas named `...Fresh` go through the handlers once more, under
`Calm`: no statement fails, so that no handler stops half way but by a panic, after which
nothing is shown. A column stays fresh when others are cut (`CutFresh`) or another entry
of it is selected (`SelectionFresh`); it joins fresh, for what is opened at the top is a
partition that has rows (`TopDirsAreLoadable`). `KeyShows` is then one fact a key: what
is beside the screen may change freely (`Aside`), and the filters and the order only with
a reload (`ReloadShows`).

The argument for the totals, `TotalsAlwaysAddUp` in `QueryProofs`: the rows below an
entry are parted by the entries of the listing it opens, each row by the component of its
path that comes next (`DirectoryAddsUp`, `PartitionIsItsListing`), and the sum or the greatest
value over the parts is that over the whole (`PiecesAddUp`). A file and a directory of one
name would be two parts with one row between them; `IndexOK` rules that out. Sums are
folds of the community modules, and what a fold gives for one element more is shown by the
smallest set for which it would be wrong. That the answers can be sorted at all, by a
`CHOOSE` of an order, is shown for every finite set of entries.

`ViewOK` assumes of an index what one crawl makes of a directory (`IndexOK`): finitely many
rows with a partition and a path that begins with it, sizes that are no less than 0, times
that are any integer as the code's `i64` are, and no file whose path is that of a directory
of another, since a crawl reads each directory once and an entry of it is one or the other.
Chunks that two crawls left beside each other, as in `crawl_local_gap`, can break the last.
Of names it assumes that they can be told apart and put in an order (`NamesOK`).

Proved is so every safety property that the crawl's passing runs check, those of the
readers, of the work queue, of the settings, of shared files, of ages and of the clock,
those of `xdu-rm`, those of the pager, and those of xdu-view but the two below. Only
model-checked are:

- `EveryRunEnds` and `RunEnds`: liveness is beyond this prover.
- `MeansTheGlob`, `ReadsAsWritten`, `OutputReadsBack`, `RowsLineUp`: each compares what a
  fold over the characters of a text computes with another reading of the same text, and
  needs induction over data.
- `ToggleKeepsPlace`: it does not hold for every index. With several paths equally short,
  `partition_root` may pick one root for the list and another for the tree; over the run's
  index it has one answer.

## What is left

1. A statement of `ToggleKeepsPlace` for the indexes in which each partition has one
   shortest directory, and its proof.
2. `Readers` composed with `Crawl` itself instead of the crawl cut down to what a
   reader tells apart.

## Not modelled

- The command line and completions (`cli.rs`): declarations for the argument
  parser, and no state.
- Packaging, CI and documentation.
- DuckDB, httpfs, the object-store client and the TLS stacks beyond what the code
  relies on; the text of statements other than what they compute.
- In globs, paths with a line break, which RE2's `.` does not match, and RE2's escapes
  of one letter, which the translation never writes.
- The rows of the pager and of the status bar, file-type names beyond text or
  not, escape stripping, colours; progress bars and log wording.
- Power loss: the code calls no fsync, and a crash here is the death of the
  process.
- Two crawls at once over one index: the code takes no lock, and the documents say
  nothing of them. Every property of a pair fails at once.
