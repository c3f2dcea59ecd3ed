----------------------------- MODULE TopLevelProofs -----------------------------
(***************************************************************************)
(* For any names, links, lists of partitions, prefixes and number of runs: *)
(* what a finished run walked is where readers look for it, and nothing    *)
(* else is found in its place.                                             *)
(*                                                                         *)
(* The argument: a run that goes on has passed every check over the very   *)
(* directory it walks, and then the directory of a partition is its name   *)
(* under the prefix as it was given.  So the directories of two partitions *)
(* are different, a later walk replaces no chunk of an earlier one, and    *)
(* the last segment tells whose a chunk is.                                *)
(***************************************************************************)
EXTENDS TopLevel, SequenceTheorems, WellFoundedInduction, TLAPS

Labels == {"idle", "connect", "filter", "preflight", "names", "queue", "clear", "walk", "refused"}

TypeOK ==
  /\ transport \in {"local", "s3"}
  /\ prefix \in Seq(DOMAIN Encoded)
  /\ transport = "local" => prefix = <<>>
  /\ source \in Sources
  /\ \A n \in filter \cap EntryNames : Lossy[n] = n
  /\ pc \in Labels

-----------------------------------------------------------------------------
(* The checks that are behind the run.                                     *)

PrefixSurvives == \A i \in 1 .. Len(prefix) : Encoded[prefix[i]] = prefix[i]
FilterIsThere  == \A n \in filter : LeadsToDir(n)
DirsAreKeys    == transport = "s3" => \A n \in Dirs : NamesAPartition(n)

AfterConnect ==
  \/ pc \in {"filter", "preflight", "names", "queue", "clear", "walk"}
  \/ index # {} \/ walked # {}
AfterFilter == pc \in {"preflight", "names", "queue", "clear", "walk"} \/ walked # {}
AfterNames  == pc \in {"queue", "clear", "walk"} \/ walked # {}
AfterQueue  == pc \in {"clear", "walk"} \/ walked # {}

ChecksHold ==
  /\ AfterConnect => PrefixSurvives
  /\ AfterFilter => FilterIsThere
  /\ AfterNames => DirsAreKeys
  /\ AfterQueue => Queueable

-----------------------------------------------------------------------------
(* What has been walked and is still to walk, and what is stored.          *)

WorkIsSplit ==
  /\ pc \notin {"walk", "idle"} => walked = {}
  /\ pc \notin {"clear", "walk"} => queue = {}
  /\ AfterQueue => walked \cup queue = WorkItems

Chunk(item) == [of |-> item, dir |-> Append(prefix, item.partition)]

ChunksAreFound ==
  /\ \A item \in walked : Chunk(item) \in index
  /\ \A c \in index : c = Chunk(c.of)

TopLevelInv == TypeOK /\ ChecksHold /\ WorkIsSplit /\ ChunksAreFound

-----------------------------------------------------------------------------
(* Directories.                                                            *)

\* Append(s, x) is x behind s, and says so.
LEMMA AppendParts ==
  ASSUME NEW S, NEW s \in Seq(S), NEW x
  PROVE  /\ Append(s, x) = s \o <<x>>
         /\ Len(Append(s, x)) = Len(s) + 1
         /\ SubSeq(Append(s, x), 1, Len(s)) = s
         /\ Last(Append(s, x)) = x
<1> DEFINE T == S \cup {x}
<1>1. s \in Seq(T) /\ x \in T
  BY SeqMonotonic
<1>2. <<x>> \in Seq(T)
  BY <1>1
<1> HIDE DEF T
<1>3. Append(s, x) = s \o <<x>>
  BY <1>1, AppendIsConcat
<1>4. /\ Append(s, x) \in Seq(T) /\ Len(Append(s, x)) = Len(s) + 1
      /\ \A i \in 1 .. Len(s) : Append(s, x)[i] = s[i]
      /\ Append(s, x)[Len(s) + 1] = x
  BY <1>1, AppendProperties
<1>5. Len(s) \in Nat /\ \A i \in 1 .. Len(s) : s[i] \in T
  BY <1>1, LenProperties, ElementOfSeq
<1>6. SubSeq(Append(s, x), 1, Len(s)) = s
  <2>1. /\ SubSeq(Append(s, x), 1, Len(s)) \in Seq(T)
        /\ Len(SubSeq(Append(s, x), 1, Len(s))) = IF 1 <= Len(s) THEN Len(s) - 1 + 1 ELSE 0
        /\ \A i \in 1 .. Len(s) - 1 + 1 :
             SubSeq(Append(s, x), 1, Len(s))[i] = Append(s, x)[1 + i - 1]
    <3>1. \A i \in 1 .. Len(s) : Append(s, x)[i] \in T
      BY <1>4, <1>5
    <3>2. 1 \in Int /\ Len(s) \in Int
      BY <1>5
    <3>3. QED
      BY <3>1, <3>2, SubSeqProperties
  <2>2. Len(SubSeq(Append(s, x), 1, Len(s))) = Len(s)
    BY <1>5, <2>1
  <2>3. \A i \in 1 .. Len(s) : SubSeq(Append(s, x), 1, Len(s))[i] = s[i]
    BY <1>4, <1>5, <2>1
  <2>4. QED
    BY <1>1, <2>1, <2>2, <2>3, SeqEqual
<1>7. Last(Append(s, x)) = x
  BY <1>4 DEF Last
<1>8. QED
  BY <1>3, <1>4, <1>6, <1>7

\* Once the prefix has passed its check, a partition is stored under its own name.
LEMMA DirectoryIs ==
  ASSUME TypeOK, PrefixSurvives, NEW text, transport = "s3" => Encoded[text] = text
  PROVE  ChunkDirectory(text) = Append(prefix, text)
<1>1. CASE transport = "s3"
  <2>1. [i \in 1 .. Len(prefix) |-> Encoded[prefix[i]]] = prefix
    <3>1. prefix = [i \in 1 .. Len(prefix) |-> prefix[i]]
      BY DEF TypeOK
    <3>2. QED
      BY <3>1 DEF PrefixSurvives
  <2>2. ChunkDirectory(text) = prefix \o <<text>>
    BY <1>1, <2>1 DEF ChunkDirectory
  <2>3. QED
    BY <2>2, AppendParts DEF TypeOK
<1>2. CASE transport = "local"
  BY <1>2 DEF TypeOK, ChunkDirectory
<1>3. QED
  BY <1>1, <1>2 DEF TypeOK

\* What the checks let through keeps its name in a key and in a glob.
LEMMA ItemsKeepTheirNames ==
  ASSUME DirsAreKeys, transport = "s3", NEW item \in WorkItems
  PROVE  Encoded[item.partition] = item.partition /\ ~Globs(item.partition)
<1>1. CASE item = RootItem
  BY <1>1, TopLevelOK DEF RootItem, Item, Globs
<1>2. CASE item \in Selected
  <2>1. PICK n \in Dirs : item = Item(Lossy[n], n)
    BY <1>2 DEF Selected
  <2>2. NamesAPartition(n) /\ item.partition = Lossy[n]
    BY <2>1 DEF DirsAreKeys, Item
  <2>3. QED
    BY <2>2 DEF NamesAPartition, Survives
<1>3. QED
  BY <1>1, <1>2 DEF WorkItems

-----------------------------------------------------------------------------
(* The steps.                                                              *)

LEMMA LastIsThere ==
  ASSUME NEW n \in Nat, NEW kept, kept \subseteq 1 .. n, kept # {}
  PROVE  (CHOOSE i \in kept : \A j \in kept : j <= i) \in kept
<1> DEFINE Rests == {n - i : i \in kept}
<1>0. \A i \in kept : i \in Nat /\ i <= n /\ n - i \in Nat
  OBVIOUS
<1>1. Rests \subseteq Nat /\ Rests # {}
  BY <1>0
<1>2. PICK r \in Rests : \A y \in Rests : ~ (<<y, r>> \in OpToRel(<, Nat))
  BY <1>1, WFMin, NatLessThanWellFounded
<1>3. PICK i \in kept : r = n - i
  OBVIOUS
<1>4. ASSUME NEW j \in kept PROVE j <= i
  <2>1. n - j \in Rests
    OBVIOUS
  <2>2. <<n - j, r>> \in Nat \X Nat /\ ~ (<<n - j, r>> \in {ss \in Nat \X Nat : ss[1] < ss[2]})
    BY <1>1, <1>2, <2>1 DEF OpToRel
  <2>3. ~ (n - j < n - i)
    BY <1>3, <2>2
  <2>4. i \in Nat /\ j \in Nat
    BY <1>0
  <2>5. QED
    BY <2>3, <2>4
<1>5. QED
  BY <1>4

LEMMA TrimmedType == \A p \in Locators : Trimmed(p) \in Seq(DOMAIN Encoded)
<1> SUFFICES ASSUME NEW p \in Locators PROVE Trimmed(p) \in Seq(DOMAIN Encoded)
  OBVIOUS
<1> DEFINE kept == {i \in 1 .. Len(p) : p[i] # ""}
           k    == CHOOSE i \in kept : \A j \in kept : j <= i
<1>1. p \in Seq(DOMAIN Encoded) /\ Len(p) \in Nat
  BY TopLevelOK, LenProperties
<1>2. CASE kept = {}
  <2>1. Trimmed(p) = <<>>
    BY <1>2 DEF Trimmed
  <2>2. QED
    BY <2>1, EmptySeq
<1>3. CASE kept # {}
  <2>1. k \in kept
    <3>1. kept \subseteq 1 .. Len(p)
      OBVIOUS
    <3> HIDE DEF kept
    <3>2. QED
      BY <1>1, <1>3, <3>1, LastIsThere
  <2>2. Trimmed(p) = SubSeq(p, 1, k)
    BY <1>3 DEF Trimmed
  <2>3. k \in 1 .. Len(p)
    BY <2>1
  <2> HIDE DEF k
  <2>4. QED
    BY <1>1, <2>2, <2>3, ElementOfSeq, SubSeqProperties
<1>4. QED
  BY <1>2, <1>3

LEMMA InitInv == Init => TopLevelInv
<1> SUFFICES ASSUME Init PROVE TopLevelInv
  OBVIOUS
<1>1. TypeOK
  <2>1. prefix \in Seq(DOMAIN Encoded) /\ (transport = "local" => prefix = <<>>)
    <3>1. CASE transport = "s3"
      <4>1. PICK p \in Locators : prefix = Trimmed(p)
        BY <3>1 DEF Init
      <4>2. QED
        BY <3>1, <4>1, TrimmedType
    <3>2. CASE transport = "local"
      BY <3>2, EmptySeq DEF Init
    <3>3. QED
      BY <3>1, <3>2 DEF Init
  <2>2. QED
    BY <2>1 DEF Init, TypeOK, Labels
<1>2. ChecksHold
  BY DEF Init, ChecksHold, AfterConnect, AfterFilter, AfterNames, AfterQueue
<1>3. WorkIsSplit /\ ChunksAreFound
  BY DEF Init, WorkIsSplit, AfterQueue, ChunksAreFound
<1>4. QED
  BY <1>1, <1>2, <1>3 DEF TopLevelInv

\* What a step that leaves the run's source and filter keeps.
LEMMA SameRun ==
  ASSUME UNCHANGED <<transport, prefix, source, filter>>
  PROVE  /\ PrefixSurvives' = PrefixSurvives /\ FilterIsThere' = FilterIsThere
         /\ DirsAreKeys' = DirsAreKeys /\ Queueable' = Queueable
         /\ Dirs' = Dirs /\ WorkItems' = WorkItems
         /\ \A item : Chunk(item)' = Chunk(item)
         /\ \A text : ChunkDirectory(text)' = ChunkDirectory(text)
<1>1. Dirs' = Dirs
  BY DEF Dirs
<1>2. WorkItems' = WorkItems
  BY <1>1 DEF WorkItems, Selected
<1>3. QED
  BY <1>1, <1>2
     DEF PrefixSurvives, FilterIsThere, LeadsToDir, DirsAreKeys, Queueable, Chunk, ChunkDirectory,
         NamesAPartition

LEMMA BeginInv == ASSUME TopLevelInv, Begin PROVE TopLevelInv'
<1> USE DEF TopLevelInv
<1>1. /\ pc = "idle" /\ pc' = "connect" /\ walked' = {} /\ queue = {}
      /\ UNCHANGED <<transport, prefix, queue, index>>
  BY DEF Begin, Go, WorkIsSplit
<1>2. TypeOK'
  BY <1>1, TopLevelOK DEF Begin, TypeOK, Labels
<1>3. ChecksHold'
  BY <1>1
     DEF ChecksHold, AfterConnect, AfterFilter, AfterNames, AfterQueue, PrefixSurvives
<1>4. WorkIsSplit'
  BY <1>1 DEF WorkIsSplit, AfterQueue
<1>5. ChunksAreFound'
  BY <1>1 DEF ChunksAreFound, Chunk
<1>6. QED
  BY <1>2, <1>3, <1>4, <1>5

\* A check is passed only by what it looks for.
LEMMA CheckInv ==
  ASSUME TopLevelInv, Connect \/ CheckFilter \/ Preflight \/ CheckTopLevel \/ Refused
  PROVE  TopLevelInv'
<1> USE DEF TopLevelInv, Go, Refuse, Only
<1>1. UNCHANGED <<transport, prefix, source, filter, queue, walked, index>>
  BY DEF Connect, CheckFilter, Preflight, CheckTopLevel, Refused, Checks
<1>2. \/ pc = "connect" /\ pc' \in {"filter", "refused"} /\ (pc' = "filter" => PrefixSurvives)
      \/ pc = "filter" /\ pc' \in {"preflight", "refused"} /\ (pc' = "preflight" => FilterIsThere)
      \/ pc = "preflight" /\ pc' \in {"names", "refused"}
      \/ pc = "names" /\ pc' \in {"queue", "refused"} /\ (pc' = "queue" => DirsAreKeys)
      \/ pc = "refused" /\ pc' = "idle"
  BY DEF Connect, CheckFilter, Preflight, CheckTopLevel, Refused, PrefixSurvives, Survives,
         FilterIsThere, DirsAreKeys
<1>3. TypeOK'
  BY <1>1, <1>2 DEF TypeOK, Labels
<1>4. ChecksHold'
  BY <1>1, <1>2, SameRun DEF ChecksHold, AfterConnect, AfterFilter, AfterNames, AfterQueue
<1>5. WorkIsSplit'
  BY <1>1, <1>2, SameRun DEF WorkIsSplit, AfterQueue
<1>6. ChunksAreFound'
  BY <1>1, SameRun DEF ChunksAreFound
<1>7. QED
  BY <1>3, <1>4, <1>5, <1>6

LEMMA QueueInv ==
  ASSUME TopLevelInv, BuildWorkQueue \/ ClearMarker \/ Attest PROVE TopLevelInv'
<1> USE DEF TopLevelInv, Go, Refuse
<1>1. UNCHANGED <<transport, prefix, source, filter, walked, index>>
  BY DEF BuildWorkQueue, ClearMarker, Attest
<1>2. \/ pc = "queue" /\ pc' = "clear" /\ queue' = WorkItems /\ Queueable
      \/ pc = "queue" /\ pc' = "refused" /\ queue' = queue
      \/ pc = "clear" /\ pc' = "walk" /\ queue' = queue
      \/ pc = "walk" /\ pc' = "idle" /\ queue = {} /\ queue' = queue
  BY DEF BuildWorkQueue, ClearMarker, Attest
<1>3. TypeOK'
  BY <1>1, <1>2 DEF TypeOK, Labels
<1>4. ChecksHold'
  BY <1>1, <1>2, SameRun DEF ChecksHold, AfterConnect, AfterFilter, AfterNames, AfterQueue
<1>5. WorkIsSplit'
  BY <1>1, <1>2, SameRun DEF WorkIsSplit, AfterQueue
<1>6. ChunksAreFound'
  BY <1>1, SameRun DEF ChunksAreFound
<1>7. QED
  BY <1>3, <1>4, <1>5, <1>6

\* The walk of one item replaces the chunk of no other that was walked: their
\* partitions are different, and so are their directories.
LEMMA WalkInv ==
  ASSUME TopLevelInv, NEW item \in queue, Walk(item)
  PROVE  TopLevelInv'
<1> USE DEF TopLevelInv
<1>1. /\ pc = "walk" /\ pc' = "walk"
      /\ UNCHANGED <<transport, prefix, source, filter>>
      /\ queue' = queue \ {item} /\ walked' = walked \cup {item}
      /\ index' = {c \in index : c.dir # ChunkDirectory(item.partition)}
                    \cup {[of |-> item, dir |-> ChunkDirectory(item.partition)]}
  BY DEF Walk
<1>2. /\ PrefixSurvives /\ FilterIsThere /\ DirsAreKeys /\ Queueable
      /\ walked \cup queue = WorkItems
  BY <1>1 DEF ChecksHold, AfterConnect, AfterFilter, AfterNames, AfterQueue, WorkIsSplit
<1>3. ChunkDirectory(item.partition) = Append(prefix, item.partition)
  BY <1>2, DirectoryIs, ItemsKeepTheirNames
<1>4. TypeOK'
  BY <1>1 DEF TypeOK
<1>5. ChecksHold'
  BY <1>1, <1>2, SameRun DEF ChecksHold
<1>6. WorkIsSplit'
  BY <1>1, <1>2, SameRun DEF WorkIsSplit
<1>7. ChunksAreFound'
  <2>1. ASSUME NEW other \in walked, other # item
        PROVE  Chunk(other) \in index'
    <3>1. other.partition # item.partition
      BY <1>2, <2>1 DEF Queueable
    <3>2. Append(prefix, other.partition) # Append(prefix, item.partition)
      BY <3>1, AppendParts DEF TypeOK
    <3>3. Chunk(other) \in index
      BY DEF ChunksAreFound
    <3>4. QED
      BY <1>1, <1>3, <3>2, <3>3 DEF Chunk
  <2>2. Chunk(item) \in index'
    BY <1>1, <1>3 DEF Chunk
  <2>3. \A c \in index' : c = Chunk(c.of)
    BY <1>1, <1>3 DEF ChunksAreFound, Chunk
  <2>4. \A x : Chunk(x)' = Chunk(x)
    BY <1>1, SameRun
  <2>5. QED
    BY <1>1, <2>1, <2>2, <2>3, <2>4 DEF ChunksAreFound
<1>8. QED
  BY <1>4, <1>5, <1>6, <1>7

LEMMA StepInv == TopLevelInv /\ [Next]_vars => TopLevelInv'
<1> SUFFICES ASSUME TopLevelInv, [Next]_vars PROVE TopLevelInv'
  OBVIOUS
<1>1. CASE Begin
  BY <1>1, BeginInv
<1>2. CASE Connect \/ CheckFilter \/ Preflight \/ CheckTopLevel \/ Refused
  BY <1>2, CheckInv
<1>3. CASE BuildWorkQueue \/ ClearMarker \/ Attest
  BY <1>3, QueueInv
<1>4. CASE \E item \in queue : Walk(item)
  BY <1>4, WalkInv
<1>5. CASE UNCHANGED vars
  <2>1. TypeOK'
    BY <1>5 DEF vars, TopLevelInv, TypeOK
  <2>2. ChecksHold'
    BY <1>5, SameRun
       DEF vars, TopLevelInv, ChecksHold, AfterConnect, AfterFilter, AfterNames, AfterQueue
  <2>3. WorkIsSplit' /\ ChunksAreFound'
    BY <1>5, SameRun DEF vars, TopLevelInv, WorkIsSplit, AfterQueue, ChunksAreFound
  <2>4. QED
    BY <2>1, <2>2, <2>3 DEF TopLevelInv
<1>6. QED
  BY <1>1, <1>2, <1>3, <1>4, <1>5 DEF Next

-----------------------------------------------------------------------------
(* What readers find.                                                      *)

\* The invariant of the checks, the work queue and the index.
THEOREM TopLevelInvariant == Spec => []TopLevelInv
<1>1. QED
  BY InitInv, StepInv, PTL DEF Spec

LEMMA ChunkIsUnderPrefix ==
  ASSUME TypeOK, NEW item
  PROVE  /\ Len(Chunk(item).dir) = Len(prefix) + 1
         /\ SubSeq(Chunk(item).dir, 1, Len(prefix)) = prefix
         /\ Last(Chunk(item).dir) = item.partition
<1>1. Chunk(item).dir = Append(prefix, item.partition)
  BY DEF Chunk
<1>2. prefix \in Seq(DOMAIN Encoded)
  BY DEF TypeOK
<1>3. /\ Len(Append(prefix, item.partition)) = Len(prefix) + 1
      /\ SubSeq(Append(prefix, item.partition), 1, Len(prefix)) = prefix
      /\ Last(Append(prefix, item.partition)) = item.partition
  BY <1>2, AppendParts
<1>4. QED
  BY <1>1, <1>3, Zenon

\* "Reject instead of corrupting": what a finished run walked is where readers look for
\* it, in the place of nothing else, and every top-level directory that was named has
\* been walked, whatever links, reserved names or names without a text there are, and
\* whatever else was named.
THEOREM ItemsAreFound == Spec => []EveryItemFound
<1>1. TopLevelInv => EveryItemFound
  <2> SUFFICES ASSUME TopLevelInv, Attested
               PROVE  /\ walked \subseteq {c.of : c \in FoundByAll}
                      /\ walked # {} => filter \cap Dirs \subseteq Indexed
    BY DEF EveryItemFound
  <2> USE DEF TopLevelInv
  <2>1. walked \subseteq {c.of : c \in FoundByAll}
    <3> SUFFICES ASSUME NEW item \in walked
                 PROVE  Chunk(item) \in FoundByAll /\ Chunk(item).of = item
      OBVIOUS
    <3>1. Chunk(item) \in index /\ Chunk(item).of = item
      BY DEF ChunksAreFound, Chunk
    <3>2. QED
      BY <3>1, ChunkIsUnderPrefix DEF FoundByAll
  <2>2. ASSUME walked # {}, NEW n \in filter \cap Dirs
        PROVE  \E item \in walked : n = item.partition
    <3>1. Lossy[n] = n
      BY DEF TypeOK, Dirs
    <3>2. Item(Lossy[n], n) \in WorkItems
      BY <3>1 DEF WorkItems, Selected
    <3>3. walked = WorkItems
      BY <2>2 DEF Attested, WorkIsSplit, AfterQueue
    <3>4. QED
      BY <3>1, <3>2, <3>3 DEF Item
  <2>3. QED
    BY <2>1, <2>2 DEF Indexed
<1>2. QED
  BY <1>1, TopLevelInvariant, PTL

\* "optionally scoped to a single partition": the chunks of that one are found, and no
\* other's, which any earlier run left.
THEOREM ScopeIsOne == Spec => []ScopedToOne
<1>1. TopLevelInv => ScopedToOne
  <2> SUFFICES ASSUME TopLevelInv, Attested, NEW item \in walked,
                      transport = "s3" \/ ~Globs(item.partition)
               PROVE  {c.of.partition : c \in Found(item.partition)} = {item.partition}
    BY DEF ScopedToOne
  <2> USE DEF TopLevelInv
  <2>1. Expands[item.partition] = {item.partition}
    <3>1. item \in WorkItems /\ DirsAreKeys
      BY DEF WorkIsSplit, ChecksHold, AfterNames, AfterQueue
    <3>2. QED
      BY <3>1, ItemsKeepTheirNames DEF Globs
  <2>2. \A c \in Found(item.partition) : c.of.partition = item.partition
    <3> SUFFICES ASSUME NEW c \in Found(item.partition)
                 PROVE  c.of.partition = item.partition
      OBVIOUS
    <3>1. c = Chunk(c.of) /\ Last(c.dir) = item.partition
      BY <2>1 DEF Found, ChunksAreFound
    <3>2. QED
      BY <3>1, ChunkIsUnderPrefix
  <2>3. Chunk(item) \in Found(item.partition) /\ Chunk(item).of = item
    <3>1. Chunk(item) \in index /\ Chunk(item).of = item
      BY DEF ChunksAreFound, Chunk
    <3>2. QED
      BY <2>1, <3>1, ChunkIsUnderPrefix DEF Found
  <2>4. QED
    BY <2>2, <2>3
<1>2. QED
  BY <1>1, TopLevelInvariant, PTL
===============================================================================
