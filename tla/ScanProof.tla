------------------------------- MODULE ScanProof -------------------------------
(***************************************************************************)
(* What a scan may rely on, for any files, pools and ceilings: a parse     *)
(* that was given up adds nothing, a file that is not in the graph shows   *)
(* in the counters, one file that wedges costs no other, an artifact is    *)
(* reused only for the files it was made of, and a repository scanned in   *)
(* slices gives what a serial scan of it gives.                            *)
(***************************************************************************)
EXTENDS ShardedScan, TLAPS, FiniteSetTheorems, SequenceTheorems, WellFoundedInduction

Content == 0 .. MaxEdits
NodeType == File \X Content
SinkType == [nodes : Seq(NodeType), count : [Counters -> Nat], max_claims : Nat]

ParseTypes ==
    /\ nature \in [File -> Natures] /\ yield \in [File -> Nat]
    /\ version \in [File -> Content]
    /\ pool \in [Process -> [thread : [1 .. MaxWorkers -> Task \cup {NoTask}], queue : Seq(Task)]]
    /\ todo \in [Scanner -> Seq(File)]
    /\ asked \in [Scanner -> Task \cup {NoTask}]
    /\ raised \subseteq Scanner
    /\ sink \in [Scanner -> SinkType]

HostTypes ==
    /\ begun \subseteq Scanner
    /\ next \in Nat \ {0}
    /\ on \in [Child -> 0 .. Slices]

\* Only a parse is asked of the pool.
OnlyParses ==
    \A s \in Scanner : asked[s] # NoTask => nature[asked[s].file] \notin {"large", "unreadable"}

\* A scan begins where nothing of an earlier one is under way.
NothingUnderWay ==
    /\ \A s \in Scanner : s \notin begun => Through(s)
    /\ \A c \in Child : on[c] = 0 => Through(c)
    /\ step = "map" => Parent \notin begun
    /\ host = "rescan" => begun \subseteq {Serial}

\* The file a scanner waits for is counted as seen, and as nothing else yet.
Waiting(s) == IF asked[s] = NoTask THEN 0 ELSE 1
SeenAt(s) ==
    LET n == sink[s].count IN
    Len(sink[s].nodes) + n["parse_timeouts"] + n["files_skipped_large"] + Waiting(s)
        <= n["files_seen"]
SeenOnce == \A s \in Scanner : SeenAt(s)

\* What a scan has not counted as lost is in its sink, asked for, or ahead of it.
FilesOf(s) ==
    IF s \in Ingest THEN Share(s)
    ELSE IF s \notin Child THEN Files
    ELSE IF on[s] = 0 THEN <<>> ELSE Slice(on[s])
NodeFiles(k) == {n[1] : n \in ToSet(k.nodes)}
AccountedAt(s) ==
    s \in begun \ raised /\ Complete(sink[s]) =>
        \A f \in ToSet(FilesOf(s)) :
            \/ nature[f] = "swallowed"
            \/ f \in NodeFiles(sink[s])
            \/ f \in ToSet(todo[s])
            \/ asked[s] # NoTask /\ asked[s].file = f
Accounted == \A s \in Scanner : AccountedAt(s)

\* Between a fingerprint and its artifact, files are read no older than the
\* fingerprint saw them.
Between(old, nodes) == \A n \in ToSet(nodes) : old[n[1]] <= n[2] /\ n[2] <= version[n[1]]
SerialReads ==
    /\ Between(current, sink[Serial].nodes)
    /\ asked[Serial] # NoTask =>
           LET n == asked[Serial] IN
           current[n.file] <= n.content /\ n.content <= version[n.file]
ReadAfterFingerprint ==
    /\ host = "rescan" /\ Serial \in begun =>
           /\ current \in [File -> Content]
           /\ \A f \in File : current[f] <= version[f]
           /\ SerialReads
    /\ host = "rescan" => Between(artifact.source_digest, artifact.nodes)
    /\ host # "rescan" => artifact = NoArtifact
    /\ artifact # NoArtifact =>
           artifact.source_digest \in [File -> Content] /\ artifact.nodes \in Seq(NodeType)

ScanInv ==
    /\ ParseTypes /\ HostTypes /\ OnlyParses /\ NothingUnderWay
    /\ SeenOnce /\ Accounted /\ ReadAfterFingerprint

------------------------------------------------------------------------------
\* One file that wedges: a pool has at most one task of it, and once it has one no
\* scanner of its process still has the file ahead.
Wedges(f) == nature[f] = "wedges"
OneWedge == host # "rescan" /\ \A f, g \in File : Wedges(f) /\ Wedges(g) => f = g

InPool(p, f) ==
    \/ \E t \in 1 .. MaxWorkers : pool[p].thread[t] # NoTask /\ pool[p].thread[t].file = f
    \/ \E i \in 1 .. Len(pool[p].queue) : pool[p].queue[i].file = f

OncePerPool ==
    \A p \in Process :
        /\ \A t, u \in 1 .. MaxWorkers : Wedged(p, t) /\ Wedged(p, u) => t = u
        /\ \A t \in 1 .. MaxWorkers, i \in 1 .. Len(pool[p].queue) :
               Wedged(p, t) => ~Wedges(pool[p].queue[i].file)
        /\ \A i, j \in 1 .. Len(pool[p].queue) :
               Wedges(pool[p].queue[i].file) /\ Wedges(pool[p].queue[j].file) => i = j

Upto(i) == i * ChunkFiles
Ahead(s) ==
    ToSet(todo[s])
    \cup (IF s \in Ingest /\ s \notin begun THEN ToSet(Share(s)) ELSE {})
    \cup (IF s \in {Serial, Parent} /\ s \notin begun THEN File ELSE {})
    \cup (IF s \in Child THEN {f \in File : f > Upto(next - 1)} ELSE {})

NotAgain == \A s \in Scanner, f \in File : Wedges(f) /\ InPool(HostOf(s), f) => f \notin Ahead(s)
WedgePart == OneWedge => OncePerPool /\ NotAgain

\* No scanner has a file ahead twice, nor one that is not its own.
Tidy ==
    /\ \A s \in Scanner : IsInjective(todo[s])
    /\ \A w \in Ingest : ToSet(todo[w]) \subseteq ToSet(Share(w))
    /\ \A c \in Child : \A f \in ToSet(todo[c]) : f <= Upto(next - 1)
------------------------------------------------------------------------------
\* The files, the tasks and the slices.
LEMMA FileNumbers ==
    /\ Cardinality(File) \in Nat /\ File = 1 .. Cardinality(File) /\ File \subseteq Nat \ {0}
    /\ Files \in Seq(File) /\ Len(Files) = Cardinality(File)
    /\ \A i \in 1 .. Len(Files) : Files[i] = i
    /\ ToSet(Files) = File /\ MaxEdits \in Nat /\ MaxClaims \in Nat
<1>1. Cardinality(File) \in Nat /\ File = 1 .. Cardinality(File)
    BY ParseAssumption, FS_CardinalityType
<1> QED
    BY <1>1, ParseAssumption DEF Files, ToSet

LEMMA Tasks ==
    /\ NoTask \notin Task
    /\ \A n \in Task : /\ n.scanner \in Scanner /\ n.file \in File /\ n.content \in Content
                      /\ HostOf(n.scanner) \in Process
BY FileNumbers, ParseAssumption DEF Task, NoTask, NoFile, Content

\* Taking from and adding to a sequence.
LEMMA TakeFirst ==
    ASSUME NEW S, NEW s \in Seq(S), s # <<>>
    PROVE  /\ Head(s) \in S /\ Tail(s) \in Seq(S) /\ Len(s) \in Nat \ {0}
           /\ Head(s) = s[1] /\ Len(Tail(s)) = Len(s) - 1
           /\ \A i \in 1 .. Len(Tail(s)) : i + 1 \in 1 .. Len(s) /\ Tail(s)[i] = s[i + 1]
           /\ ToSet(s) = {Head(s)} \cup ToSet(Tail(s))
<1>1. /\ Head(s) \in S /\ Tail(s) \in Seq(S) /\ Len(s) \in Nat \ {0}
      /\ Head(s) = s[1] /\ Len(Tail(s)) = Len(s) - 1
      /\ \A i \in 1 .. Len(Tail(s)) : i + 1 \in 1 .. Len(s) /\ Tail(s)[i] = s[i + 1]
    OBVIOUS
<1>2. DOMAIN s = 1 .. Len(s) /\ DOMAIN Tail(s) = 1 .. Len(Tail(s))
    BY <1>1
<1>3. ASSUME NEW i \in 1 .. Len(s) PROVE i = 1 \/ (i - 1 \in 1 .. Len(Tail(s)) /\ s[i] = Tail(s)[i - 1])
    BY <1>1
<1>4. ToSet(s) \subseteq {Head(s)} \cup ToSet(Tail(s))
    <2> SUFFICES ASSUME NEW i \in 1 .. Len(s) PROVE s[i] \in {Head(s)} \cup ToSet(Tail(s))
        BY <1>2 DEF ToSet
    <2> QED
        BY <1>1, <1>2, <1>3 DEF ToSet
<1>5. {Head(s)} \cup ToSet(Tail(s)) \subseteq ToSet(s)
    BY <1>1, <1>2 DEF ToSet
<1> QED
    BY <1>1, <1>4, <1>5

LEMMA PutLast ==
    ASSUME NEW S, NEW s \in Seq(S), NEW e \in S
    PROVE  /\ Append(s, e) \in Seq(S) /\ Len(s) \in Nat /\ Len(Append(s, e)) = Len(s) + 1
           /\ \A i \in 1 .. Len(s) : Append(s, e)[i] = s[i]
           /\ Append(s, e)[Len(s) + 1] = e
           /\ ToSet(Append(s, e)) = ToSet(s) \cup {e}
<1>1. /\ Append(s, e) \in Seq(S) /\ Len(s) \in Nat /\ Len(Append(s, e)) = Len(s) + 1
      /\ \A i \in 1 .. Len(s) : Append(s, e)[i] = s[i]
      /\ Append(s, e)[Len(s) + 1] = e
    OBVIOUS
<1>2. DOMAIN s = 1 .. Len(s) /\ DOMAIN Append(s, e) = 1 .. Len(s) + 1
    BY <1>1
<1> QED
    BY <1>1, <1>2 DEF ToSet

LEMMA Nothing == ToSet(<<>>) = {} /\ Len(<<>>) = 0
BY DEF ToSet

LEMMA Division ==
    ASSUME NEW a \in Nat, NEW d \in Nat \ {0}
    PROVE  a \div d \in Nat /\ a = (a \div d) * d + (a % d) /\ a % d \in 0 .. d - 1
OBVIOUS

LEMMA SlicesNumber == Slices \in Nat
<1>1. Len(Files) + ChunkFiles - 1 \in Nat /\ ChunkFiles \in Nat \ {0}
    BY FileNumbers, ShardAssumption
<1> QED
    BY <1>1, Division DEF Slices

LEMMA SliceEnds ==
    /\ Len(Files) <= Slices * ChunkFiles
    /\ Slices >= 1 => (Slices - 1) * ChunkFiles <= Len(Files) - 1
<1> DEFINE n == Len(Files)
<1>1. n \in Nat /\ ChunkFiles \in Nat \ {0}
    BY FileNumbers, ShardAssumption
<1>2. PICK q \in Nat, r \in 0 .. ChunkFiles - 1 :
          q = Slices /\ n + ChunkFiles - 1 = q * ChunkFiles + r
    <2>1. n + ChunkFiles - 1 \in Nat /\ Slices = (n + ChunkFiles - 1) \div ChunkFiles
        BY <1>1 DEF Slices
    <2>2. /\ Slices \in Nat /\ (n + ChunkFiles - 1) % ChunkFiles \in 0 .. ChunkFiles - 1
          /\ n + ChunkFiles - 1 = Slices * ChunkFiles + ((n + ChunkFiles - 1) % ChunkFiles)
        BY <1>1, <2>1, Division
    <2> QED
        BY <2>2
<1>3. q * ChunkFiles \in Nat /\ (q >= 1 => (q - 1) * ChunkFiles = q * ChunkFiles - ChunkFiles)
    BY <1>1, <1>2
<1> QED
    BY <1>1, <1>2, <1>3

\* A slice is in Seq(File); its files lie past those of the slices before it, and
\* follow one another.
LEMMA SliceFacts ==
    ASSUME NEW i \in Nat \ {0}, i <= Slices
    PROVE  /\ Slice(i) \in Seq(File)
           /\ Len(Slice(i)) = (IF i = Slices THEN Len(Files) ELSE Upto(i)) - Upto(i - 1)
           /\ Len(Slice(i)) \in Nat \ {0}
           /\ \A k \in 1 .. Len(Slice(i)) : Slice(i)[k] = Upto(i - 1) + k
           /\ \A f \in ToSet(Slice(i)) : f > Upto(i - 1) /\ f <= Upto(i)
<1> DEFINE n == Len(Files)
           first == (i - 1) * ChunkFiles + 1
           last == IF i = Slices THEN n ELSE i * ChunkFiles
<1>1. n \in Nat /\ ChunkFiles \in Nat \ {0} /\ Slices \in Nat
      /\ n <= Slices * ChunkFiles /\ (Slices - 1) * ChunkFiles <= n - 1
    BY FileNumbers, ShardAssumption, SlicesNumber, SliceEnds
<1>2. i * ChunkFiles \in Nat /\ (i - 1) * ChunkFiles \in Nat
      /\ i * ChunkFiles = (i - 1) * ChunkFiles + ChunkFiles
    BY <1>1
<1>3. i # Slices => i * ChunkFiles <= (Slices - 1) * ChunkFiles
    BY <1>1
<1>4. first \in Nat \ {0} /\ last \in Nat /\ last <= n /\ last <= Upto(i) /\ first = Upto(i - 1) + 1
    BY <1>1, <1>2, <1>3 DEF Upto
<1> HIDE DEF first, last
<1>5. Slice(i) = SubSeq(Files, first, last)
    BY DEF Slice, first, last
<1>6. /\ Slice(i) \in Seq(File)
      /\ Len(Slice(i)) = IF first <= last THEN last - first + 1 ELSE 0
      /\ \A k \in 1 .. Len(Slice(i)) : Slice(i)[k] = Files[first + k - 1]
    <2>1. \A k \in first .. last : Files[k] \in File
        BY <1>1, <1>4, FileNumbers
    <2>2. first \in Int /\ last \in Int
        BY <1>4
    <2>3. /\ SubSeq(Files, first, last) \in Seq(File)
          /\ Len(SubSeq(Files, first, last)) = IF first <= last THEN last - first + 1 ELSE 0
          /\ \A k \in 1 .. last - first + 1 : SubSeq(Files, first, last)[k] = Files[first + k - 1]
        BY <2>1, <2>2, SubSeqProperties
    <2> QED
        BY <1>4, <1>5, <2>3
<1>7. \A k \in 1 .. Len(Slice(i)) : Slice(i)[k] = first + k - 1 /\ first + k - 1 <= last
    <2> SUFFICES ASSUME NEW k \in 1 .. Len(Slice(i))
                 PROVE  Slice(i)[k] = first + k - 1 /\ first + k - 1 <= last
        OBVIOUS
    <2>1. first <= last /\ k \in 1 .. last - first + 1
        BY <1>4, <1>6
    <2>2. first + k - 1 \in 1 .. n
        BY <1>1, <1>4, <2>1, SMTT(30)
    <2> QED
        BY <1>4, <1>6, <2>1, <2>2, FileNumbers, SMTT(30), ZenonT(40)
<1>8. ASSUME NEW f \in ToSet(Slice(i)) PROVE f > Upto(i - 1) /\ f <= Upto(i)
    <2>1. DOMAIN Slice(i) = 1 .. Len(Slice(i)) /\ Len(Slice(i)) \in Nat
        BY <1>6
    <2>2. PICK k \in 1 .. Len(Slice(i)) : f = Slice(i)[k]
        BY <1>8, <2>1 DEF ToSet
    <2>3. Upto(i - 1) \in Nat /\ Upto(i) \in Nat
        BY <1>2 DEF Upto
    <2> QED
        BY <1>4, <1>7, <2>1, <2>2, <2>3
<1>9. \A k \in 1 .. Len(Slice(i)) : Slice(i)[k] = Upto(i - 1) + k
    BY <1>2, <1>4, <1>7 DEF Upto
<1>10. first <= last
    BY <1>1, <1>2 DEF first, last
<1>11. /\ Len(Slice(i)) = (IF i = Slices THEN n ELSE Upto(i)) - Upto(i - 1)
       /\ Len(Slice(i)) \in Nat \ {0}
    BY <1>2, <1>4, <1>6, <1>10 DEF Upto, last
<1> QED
    BY <1>6, <1>8, <1>9, <1>11
------------------------------------------------------------------------------
\* What the loop does to a sink.
LEMMA BumpGives ==
    ASSUME NEW k \in SinkType, NEW counters
    PROVE  /\ Bump(k, counters) \in SinkType
           /\ Bump(k, counters).nodes = k.nodes
           /\ \A c \in Counters :
                  Bump(k, counters).count[c] = k.count[c] + IF c \in counters THEN 1 ELSE 0
BY DEF Bump, SinkType

LEMMA EmitGives ==
    ASSUME ParseTypes, NEW k \in SinkType, NEW n \in Task
    PROVE  /\ Emit(k, n) \in SinkType
           /\ Emit(k, n).nodes = Append(k.nodes, <<n.file, n.content>>)
           /\ \A c \in Counters \ {"claims"} : Emit(k, n).count[c] = k.count[c]
<1>1. <<n.file, n.content>> \in NodeType /\ yield[n.file] \in Nat
    BY Tasks DEF NodeType, ParseTypes
<1>2. Append(k.nodes, <<n.file, n.content>>) \in Seq(NodeType)
    BY <1>1, PutLast DEF SinkType
<1>3. PICK e : e = Emit(k, n)
    OBVIOUS
<1> DEFINE x == Append(k.nodes, <<n.file, n.content>>)
           y == yield[n.file]
<1>4. e = [k EXCEPT !.nodes = x, !.count["claims"] = @ + y]
    BY <1>3 DEF Emit
<1> HIDE DEF x, y
<1>5. /\ e.nodes = x
      /\ e.count = [k.count EXCEPT !["claims"] = @ + y]
      /\ e.max_claims = k.max_claims
      /\ e = [nodes |-> e.nodes, count |-> e.count, max_claims |-> e.max_claims]
    BY <1>4 DEF SinkType
<1>6. /\ e.count \in [Counters -> Nat]
      /\ \A c \in Counters \ {"claims"} : e.count[c] = k.count[c]
    BY <1>1, <1>5, SMTT(30), ZenonT(40) DEF SinkType, Counters, y
<1>7. e.max_claims \in Nat
    BY <1>5 DEF SinkType
<1>8. e \in SinkType
    BY <1>2, <1>5, <1>6, <1>7 DEF SinkType, x
<1> QED
    BY <1>3, <1>5, <1>6, <1>8 DEF x

LEMMA CompleteMeans ==
    ASSUME NEW k
    PROVE  Complete(k) <=> /\ k.count["parse_errors"] = 0 /\ k.count["files_skipped_large"] = 0
                           /\ k.count["parse_timeouts"] = 0 /\ k.count["capped"] = 0
BY DEF Complete

\* What becomes of the sink when the parse it waits for ends.
LEMMA ParsedGives ==
    ASSUME ParseTypes, NEW k \in SinkType, NEW n \in Task,
           nature[n.file] \notin {"large", "unreadable"}
    PROVE  /\ Parsed(k, n) \in SinkType
           /\ \/ Parsed(k, n).nodes = k.nodes
              \/ Parsed(k, n).nodes = Append(k.nodes, <<n.file, n.content>>)
           /\ \A c \in {"files_seen", "parse_timeouts", "files_skipped_large", "capped"} :
                  Parsed(k, n).count[c] = k.count[c]
           /\ Complete(Parsed(k, n)) => Complete(k)
           /\ Complete(Parsed(k, n)) /\ nature[n.file] \notin {"swallowed", "fatal"} =>
                  Parsed(k, n).nodes = Append(k.nodes, <<n.file, n.content>>)
<1>1. nature[n.file] \in Natures
    BY Tasks DEF ParseTypes
<1>2. CASE nature[n.file] \in {"sound", "flawed", "wedges"}
    <2>1. PICK c \in {"files_parsed", "parse_errors"} : Parsed(k, n) = Emit(Bump(k, {c}), n)
        BY <1>2 DEF Parsed
    <2> DEFINE b == Bump(k, {c})
    <2>2. /\ b \in SinkType /\ b.nodes = k.nodes
          /\ \A d \in Counters : b.count[d] = k.count[d] + IF d = c THEN 1 ELSE 0
        BY BumpGives
    <2> HIDE DEF b
    <2>3. /\ Emit(b, n) \in SinkType /\ Emit(b, n).nodes = Append(k.nodes, <<n.file, n.content>>)
          /\ \A d \in Counters \ {"claims"} : Emit(b, n).count[d] = b.count[d]
        BY <2>2, EmitGives
    <2>4. \A d \in {"files_seen", "parse_timeouts", "files_skipped_large", "capped"} :
              Emit(b, n).count[d] = k.count[d]
        <3> SUFFICES ASSUME NEW d \in {"files_seen", "parse_timeouts", "files_skipped_large", "capped"}
                     PROVE  Emit(b, n).count[d] = k.count[d]
            OBVIOUS
        <3>1. d \in Counters \ {"claims"} /\ d # c /\ k.count[d] \in Nat
            BY DEF Counters, SinkType
        <3> QED
            BY <2>2, <2>3, <3>1
    <2>5. Emit(b, n).count["parse_errors"] = 0 => k.count["parse_errors"] = 0
        <3>1. "parse_errors" \in Counters \ {"claims"} /\ k.count["parse_errors"] \in Nat
            BY DEF Counters, SinkType
        <3> QED
            BY <2>2, <2>3, <3>1
    <2> QED
        BY <2>1, <2>3, <2>4, <2>5, CompleteMeans DEF b
<1>4. CASE nature[n.file] = "raises"
    <2>1. Parsed(k, n) = Bump(k, {"parse_errors"})
        BY <1>4 DEF Parsed
    <2>2. /\ \A d \in {"files_seen", "parse_timeouts", "files_skipped_large", "capped"} :
                 Parsed(k, n).count[d] = k.count[d]
          /\ Parsed(k, n).count["parse_errors"] # 0
        <3>1. /\ \A d \in {"files_seen", "parse_timeouts", "files_skipped_large", "capped"} :
                     d \in Counters /\ d \notin {"parse_errors"} /\ k.count[d] \in Nat
              /\ "parse_errors" \in Counters /\ k.count["parse_errors"] \in Nat
            BY DEF Counters, SinkType
        <3> QED
            BY <2>1, <3>1, BumpGives
    <2>3. Parsed(k, n) \in SinkType /\ Parsed(k, n).nodes = k.nodes
        BY <2>1, BumpGives
    <2> QED
        BY <2>2, <2>3, CompleteMeans
<1>5. CASE nature[n.file] \in {"swallowed", "fatal"}
    <2>1. Parsed(k, n) = k
        BY <1>5 DEF Parsed
    <2> QED
        BY <1>5, <2>1
<1> QED
    BY <1>1, <1>2, <1>4, <1>5 DEF Natures

\* A scanner that is at work has begun.
LEMMA AtWork ==
    ASSUME NothingUnderWay, NEW s \in Scanner, ~Through(s)
    PROVE  s \in begun /\ (s \in Child => on[s] # 0)
BY DEF NothingUnderWay

\* The pool as its operations leave it.
LEMMA QueueGrows ==
    ASSUME ParseTypes, NEW p \in Process, NEW n \in Task,
           pool' = [pool EXCEPT ![p].queue = Append(@, n)]
    PROVE  /\ pool' \in [Process -> [thread : [1 .. MaxWorkers -> Task \cup {NoTask}],
                                    queue : Seq(Task)]]
           /\ \A q \in Process : q # p => pool'[q] = pool[q]
           /\ pool'[p].thread = pool[p].thread /\ pool'[p].queue = Append(pool[p].queue, n)
<1>1. pool[p].queue \in Seq(Task)
    BY DEF ParseTypes
<1>2. Append(pool[p].queue, n) \in Seq(Task)
    BY <1>1, PutLast
<1> QED
    BY <1>2 DEF ParseTypes

LEMMA NextFileEffect ==
    ASSUME ScanInv, NEW s \in Scanner, NextFile(s)
    PROVE  /\ ParseTypes' /\ OnlyParses'
           /\ asked[s] = NoTask /\ todo[s] # <<>> /\ todo'[s] = Tail(todo[s])
           /\ sink'[s].nodes = sink[s].nodes
           /\ Complete(sink'[s]) => Complete(sink[s])
           /\ \/ asked'[s] = NoTask /\ ~Complete(sink'[s])
              \/ asked'[s] = [scanner |-> s, file |-> Head(todo[s]), content |-> version[Head(todo[s])]]
           /\ \A c \in {"parse_timeouts", "files_skipped_large", "files_seen"} :
                  sink'[s].count[c] \in Nat /\ sink[s].count[c] \in Nat
           /\ sink'[s].count["parse_timeouts"] = sink[s].count["parse_timeouts"]
           /\ sink'[s].count["files_seen"] = sink[s].count["files_seen"] + 1
           /\ \/ sink'[s].count["files_skipped_large"] = sink[s].count["files_skipped_large"]
              \/ asked'[s] = NoTask /\
                 sink'[s].count["files_skipped_large"] = sink[s].count["files_skipped_large"] + 1
           /\ \A z \in Scanner : z # s => todo'[z] = todo[z] /\ asked'[z] = asked[z] /\ sink'[z] = sink[z]
           /\ UNCHANGED <<inputs, version, raised>>
<1> DEFINE f == Head(todo[s])
           new == [scanner |-> s, file |-> f, content |-> version[f]]
<1>1. ParseTypes /\ OnlyParses
    BY DEF ScanInv
<1>2. todo[s] \in Seq(File) /\ todo[s] # <<>> /\ asked[s] = NoTask /\ sink[s] \in SinkType
    BY <1>1 DEF NextFile, ParseTypes
<1>3. f \in File /\ Tail(todo[s]) \in Seq(File) /\ nature[f] \in Natures
    BY <1>1, <1>2, TakeFirst DEF ParseTypes
<1>4. new \in Task /\ new # NoTask /\ HostOf(s) \in Process /\ new.file = f
    BY <1>1, <1>3, Tasks, ParseAssumption DEF Task, ParseTypes, Content
<1>5. todo' = [todo EXCEPT ![s] = Tail(@)] /\ UNCHANGED <<inputs, version, raised>>
    BY DEF NextFile
<1> DEFINE passed == nature[f] \in {"large", "unreadable"}
           seen == IF passed THEN {"files_seen", IF nature[f] = "large" THEN "files_skipped_large"
                                                                       ELSE "parse_errors"}
                             ELSE {"files_seen"}
<1>6. sink' = [sink EXCEPT ![s] = Bump(sink[s], seen)]
    BY DEF NextFile
<1>7. asked' = [asked EXCEPT ![s] = IF passed THEN NoTask ELSE new]
    BY <1>1, <1>2 DEF NextFile, ParseTypes
<1>8. pool' \in [Process -> [thread : [1 .. MaxWorkers -> Task \cup {NoTask}], queue : Seq(Task)]]
    BY <1>1, <1>4, QueueGrows DEF NextFile, ParseTypes
<1> HIDE DEF new, f
<1>9. /\ Bump(sink[s], seen) \in SinkType /\ Bump(sink[s], seen).nodes = sink[s].nodes
      /\ \A c \in Counters :
             Bump(sink[s], seen).count[c] = sink[s].count[c] + IF c \in seen THEN 1 ELSE 0
    BY <1>2, BumpGives
<1>10. \A c \in Counters : sink[s].count[c] \in Nat
    BY <1>2 DEF SinkType
<1>11. sink'[s] = Bump(sink[s], seen) /\ \A z \in Scanner : z # s => sink'[z] = sink[z]
    BY <1>1, <1>6 DEF ParseTypes
<1>12. ParseTypes'
    BY <1>1, <1>3, <1>4, <1>5, <1>6, <1>7, <1>8, <1>9 DEF ParseTypes, inputs
<1>13. OnlyParses'
    BY <1>1, <1>4, <1>5, <1>7 DEF OnlyParses, ParseTypes, inputs
<1>14. /\ todo'[s] = Tail(todo[s])
       /\ asked'[s] = IF passed THEN NoTask ELSE new
       /\ \A z \in Scanner : z # s => todo'[z] = todo[z] /\ asked'[z] = asked[z]
    BY <1>1, <1>5, <1>7 DEF ParseTypes
<1> DEFINE c0 == sink[s].count
           c1 == sink'[s].count
<1>15. \A c \in Counters : c0[c] \in Nat /\ c1[c] = c0[c] + IF c \in seen THEN 1 ELSE 0
    BY <1>9, <1>10, <1>11
<1> HIDE DEF c0, c1
<1>16. /\ {"files_seen", "parse_timeouts", "files_skipped_large", "parse_errors", "capped"}
              \subseteq Counters
       /\ "files_seen" \in seen /\ "parse_timeouts" \notin seen
       /\ "files_skipped_large" \in seen => passed
       /\ passed => "files_skipped_large" \in seen \/ "parse_errors" \in seen
    BY DEF Counters
<1> HIDE DEF seen
<1>17. /\ c1["files_seen"] = c0["files_seen"] + 1 /\ c1["parse_timeouts"] = c0["parse_timeouts"]
       /\ \/ c1["files_skipped_large"] = c0["files_skipped_large"]
          \/ passed /\ c1["files_skipped_large"] = c0["files_skipped_large"] + 1
    BY <1>15, <1>16
<1>18. /\ \A c \in Counters : c1[c] = 0 => c0[c] = 0
       /\ passed => c1["files_skipped_large"] # 0 \/ c1["parse_errors"] # 0
    BY <1>15, <1>16
<1>19. /\ Complete(sink'[s]) => Complete(sink[s])
       /\ passed => ~Complete(sink'[s])
    BY <1>16, <1>18, CompleteMeans DEF c0, c1
<1>20. \A c \in Counters : c1[c] \in Nat
    BY <1>15
<1> QED
    BY <1>2, <1>5, <1>9, <1>11, <1>12, <1>13, <1>14, <1>15, <1>16, <1>17, <1>19, <1>20 DEF c0, c1, new, f

\* The ceiling and a parse that is given up.
LEMMA StopEffect ==
    ASSUME ScanInv, NEW s \in Scanner, StopAtCap(s)
    PROVE  /\ ParseTypes' /\ OnlyParses'
           /\ ~Through(s) /\ asked' = asked /\ asked[s] = NoTask
           /\ sink'[s].nodes = sink[s].nodes /\ ~Complete(sink'[s])
           /\ \A c \in {"parse_timeouts", "files_skipped_large", "files_seen"} :
                  sink'[s].count[c] = sink[s].count[c]
           /\ \A z \in Scanner : z # s => todo'[z] = todo[z] /\ sink'[z] = sink[z]
           /\ UNCHANGED <<inputs, version, raised>>
<1>1. ParseTypes /\ OnlyParses /\ sink[s] \in SinkType
    BY DEF ScanInv, ParseTypes
<1>2. /\ todo[s] # <<>> /\ asked[s] = NoTask /\ todo' = [todo EXCEPT ![s] = <<>>]
      /\ sink' = [sink EXCEPT ![s] = Bump(sink[s], {"capped"})]
      /\ nature' = nature /\ yield' = yield
      /\ version' = version /\ pool' = pool /\ asked' = asked /\ raised' = raised
    BY DEF StopAtCap, inputs
<1>3. /\ Bump(sink[s], {"capped"}) \in SinkType /\ Bump(sink[s], {"capped"}).nodes = sink[s].nodes
      /\ \A c \in Counters :
             Bump(sink[s], {"capped"}).count[c] = sink[s].count[c] + IF c \in {"capped"} THEN 1 ELSE 0
    BY <1>1, BumpGives
<1>4. /\ sink'[s] = Bump(sink[s], {"capped"})
      /\ \A z \in Scanner : z # s => todo'[z] = todo[z] /\ sink'[z] = sink[z]
    BY <1>1, <1>2 DEF ParseTypes
<1>5. ParseTypes' /\ OnlyParses'
    BY <1>1, <1>2, <1>3 DEF ParseTypes, OnlyParses
<1>6. /\ {"files_seen", "parse_timeouts", "files_skipped_large", "capped"} \subseteq Counters
      /\ \A c \in Counters : sink[s].count[c] \in Nat
    BY <1>1 DEF Counters, SinkType
<1>7. ~Complete(sink'[s])
    BY <1>3, <1>4, <1>6, CompleteMeans
<1>8. \A c \in {"parse_timeouts", "files_skipped_large", "files_seen"} :
          sink'[s].count[c] = sink[s].count[c]
    BY <1>3, <1>4, <1>6
<1> QED
    BY <1>2, <1>3, <1>4, <1>5, <1>7, <1>8 DEF Through, inputs

LEMMA GivesUpEffect ==
    ASSUME ScanInv, NEW s \in Scanner, GivesUp(s)
    PROVE  /\ ParseTypes' /\ OnlyParses'
           /\ ~Through(s) /\ todo' = todo /\ asked[s] # NoTask /\ asked'[s] = NoTask
           /\ sink'[s].nodes = sink[s].nodes /\ ~Complete(sink'[s])
           /\ \A c \in {"files_skipped_large", "files_seen"} :
                  sink'[s].count[c] = sink[s].count[c]
           /\ sink'[s].count["parse_timeouts"] = sink[s].count["parse_timeouts"] + 1
           /\ \A z \in Scanner : z # s => asked'[z] = asked[z] /\ sink'[z] = sink[z]
           /\ UNCHANGED <<inputs, version, raised, pool>>
<1> DEFINE lost == {"parse_errors", "parse_timeouts"}
<1>1. ParseTypes /\ OnlyParses /\ sink[s] \in SinkType
    BY DEF ScanInv, ParseTypes
<1>2. /\ asked[s] # NoTask /\ asked' = [asked EXCEPT ![s] = NoTask]
      /\ sink' = [sink EXCEPT ![s] = Bump(sink[s], lost)]
      /\ nature' = nature /\ yield' = yield
      /\ version' = version /\ pool' = pool /\ todo' = todo /\ raised' = raised
    BY DEF GivesUp, inputs
<1>3. /\ Bump(sink[s], lost) \in SinkType /\ Bump(sink[s], lost).nodes = sink[s].nodes
      /\ \A c \in Counters : Bump(sink[s], lost).count[c] = sink[s].count[c] + IF c \in lost THEN 1 ELSE 0
    BY <1>1, BumpGives
<1>4. /\ sink'[s] = Bump(sink[s], lost) /\ asked'[s] = NoTask
      /\ \A z \in Scanner : z # s => asked'[z] = asked[z] /\ sink'[z] = sink[z]
    BY <1>1, <1>2 DEF ParseTypes
<1>5. ParseTypes'
    BY <1>1, <1>2, <1>3 DEF ParseTypes
<1>6. OnlyParses'
    BY <1>1, <1>2, <1>4 DEF OnlyParses
<1>7. /\ {"files_seen", "parse_timeouts", "files_skipped_large"} \subseteq Counters
      /\ \A c \in Counters : sink[s].count[c] \in Nat
    BY <1>1 DEF Counters, SinkType
<1>8. sink'[s].count["parse_timeouts"] = sink[s].count["parse_timeouts"] + 1
    BY <1>3, <1>4, <1>7
<1>9. ~Complete(sink'[s])
    BY <1>7, <1>8, CompleteMeans
<1>10. \A c \in {"files_skipped_large", "files_seen"} : sink'[s].count[c] = sink[s].count[c]
    BY <1>3, <1>4, <1>7
<1> QED
    BY <1>2, <1>3, <1>4, <1>5, <1>6, <1>8, <1>9, <1>10 DEF Through, inputs

\* The threads of a pool.
LEMMA ThreadTakesEffect ==
    ASSUME ScanInv, NEW p \in Process, NEW t \in 1 .. MaxWorkers, ThreadTakes(p, t)
    PROVE  /\ ParseTypes' /\ OnlyParses'
           /\ pool[p].queue # <<>> /\ pool[p].thread[t] = NoTask
           /\ pool'[p].queue = Tail(pool[p].queue)
           /\ \A u \in 1 .. MaxWorkers : u # t => pool'[p].thread[u] = pool[p].thread[u]
           /\ pool'[p].thread[t] \in {Head(pool[p].queue), NoTask}
           /\ \A q \in Process : q # p => pool'[q] = pool[q]
           /\ UNCHANGED <<inputs, version, todo, asked, raised, sink>>
<1> DEFINE q == pool[p].queue
           new == IF asked[Head(q).scanner] = Head(q) THEN Head(q) ELSE NoTask
<1>1. ParseTypes /\ OnlyParses
    BY DEF ScanInv
<1>2. q \in Seq(Task) /\ q # <<>> /\ pool[p].thread[t] = NoTask
    BY <1>1 DEF ThreadTakes, ParseTypes
<1>3. Head(q) \in Task /\ Tail(q) \in Seq(Task) /\ new \in Task \cup {NoTask}
    BY <1>2, TakeFirst
<1>4. pool' = [pool EXCEPT ![p].queue = Tail(q), ![p].thread[t] = new]
    BY DEF ThreadTakes
<1> HIDE DEF new, q
<1>5. /\ pool'[p].queue = Tail(q) /\ pool'[p].thread = [pool[p].thread EXCEPT ![t] = new]
      /\ \A r \in Process : r # p => pool'[r] = pool[r]
    BY <1>1, <1>4 DEF ParseTypes
<1>6. pool'[p].thread \in [1 .. MaxWorkers -> Task \cup {NoTask}]
    BY <1>1, <1>3, <1>5 DEF ParseTypes
<1>7. pool' \in [Process -> [thread : [1 .. MaxWorkers -> Task \cup {NoTask}], queue : Seq(Task)]]
    <2>1. DOMAIN pool' = Process /\ pool' = [r \in Process |-> pool'[r]]
        BY <1>1, <1>4 DEF ParseTypes
    <2>2. pool'[p] = [thread |-> pool'[p].thread, queue |-> pool'[p].queue]
        BY <1>1, <1>4 DEF ParseTypes
    <2>3. pool'[p] \in [thread : [1 .. MaxWorkers -> Task \cup {NoTask}], queue : Seq(Task)]
        BY <1>3, <1>5, <1>6, <2>2
    <2> QED
        BY <1>1, <1>5, <2>1, <2>3 DEF ParseTypes
<1>8. UNCHANGED <<inputs, version, todo, asked, raised, sink>>
    BY DEF ThreadTakes
<1>9. ParseTypes' /\ OnlyParses'
    BY <1>1, <1>7, <1>8 DEF ParseTypes, OnlyParses, inputs
<1> QED
    BY <1>1, <1>2, <1>5, <1>8, <1>9 DEF ParseTypes, q, new

LEMMA ThreadEndsEffect ==
    ASSUME ScanInv, NEW p \in Process, NEW t \in 1 .. MaxWorkers, ThreadEnds(p, t)
    PROVE  /\ ParseTypes' /\ OnlyParses'
           /\ pool[p].thread[t] \in Task /\ pool'[p].queue = pool[p].queue
           /\ \A u \in 1 .. MaxWorkers : u # t => pool'[p].thread[u] = pool[p].thread[u]
           /\ pool'[p].thread[t] = NoTask
           /\ \A q \in Process : q # p => pool'[q] = pool[q]
           /\ UNCHANGED <<inputs, version>>
           /\ LET n == pool[p].thread[t] s == n.scanner IN
              /\ \A z \in Scanner : z # s => todo'[z] = todo[z] /\ asked'[z] = asked[z] /\ sink'[z] = sink[z]
              /\ ~Waited(n) => UNCHANGED <<todo, asked, raised, sink>>
              /\ Waited(n) => /\ asked[s] = n /\ asked'[s] = NoTask /\ sink'[s] = Parsed(sink[s], n)
                              /\ \/ nature[n.file] # "fatal" /\ todo' = todo /\ raised' = raised
                                 \/ /\ nature[n.file] = "fatal" /\ raised' = raised \cup {s}
                                    /\ todo' = [todo EXCEPT ![s] = <<>>]
<1> DEFINE n == pool[p].thread[t]
           s == n.scanner
<1>1. ParseTypes /\ OnlyParses
    BY DEF ScanInv
<1>2. n \in Task
    BY <1>1, ZenonT(40) DEF ThreadEnds, ParseTypes
<1>3. s \in Scanner /\ sink[s] \in SinkType /\ n # NoTask
    BY <1>1, <1>2, Tasks DEF ParseTypes
<1>4. /\ pool' = [pool EXCEPT ![p].thread[t] = NoTask]
      /\ sink' = [sink EXCEPT ![s] = IF Waited(n) THEN Parsed(sink[s], n) ELSE sink[s]]
      /\ asked' = [asked EXCEPT ![s] = IF Waited(n) THEN NoTask ELSE asked[s]]
      /\ todo' = [todo EXCEPT ![s] = IF Waited(n) /\ nature[n.file] = "fatal" THEN <<>> ELSE todo[s]]
      /\ raised' = IF Waited(n) /\ nature[n.file] = "fatal" THEN raised \cup {s} ELSE raised
      /\ UNCHANGED <<inputs, version>>
    BY DEF ThreadEnds, Deliver
<1> HIDE DEF n, s
<1>5. /\ pool'[p].queue = pool[p].queue /\ pool'[p].thread = [pool[p].thread EXCEPT ![t] = NoTask]
      /\ \A r \in Process : r # p => pool'[r] = pool[r]
    BY <1>1, <1>4 DEF ParseTypes
<1>6. pool' \in [Process -> [thread : [1 .. MaxWorkers -> Task \cup {NoTask}], queue : Seq(Task)]]
    <2>1. DOMAIN pool' = Process /\ pool' = [r \in Process |-> pool'[r]]
        BY <1>1, <1>4 DEF ParseTypes
    <2>2. pool'[p] = [thread |-> pool'[p].thread, queue |-> pool'[p].queue]
        BY <1>1, <1>4 DEF ParseTypes
    <2>3. pool'[p].thread \in [1 .. MaxWorkers -> Task \cup {NoTask}]
        BY <1>1, <1>5 DEF ParseTypes
    <2>4. pool'[p] \in [thread : [1 .. MaxWorkers -> Task \cup {NoTask}], queue : Seq(Task)]
        BY <1>1, <1>5, <2>2, <2>3 DEF ParseTypes
    <2> QED
        BY <1>1, <1>5, <2>1, <2>4 DEF ParseTypes
<1>7. Waited(n) => asked[s] = n /\ nature[n.file] \notin {"large", "unreadable"}
    BY <1>1, <1>3 DEF Waited, OnlyParses, s
<1>8. Waited(n) => Parsed(sink[s], n) \in SinkType
    BY <1>1, <1>2, <1>3, <1>7, ParsedGives
<1>9. /\ sink' \in [Scanner -> SinkType] /\ asked' \in [Scanner -> Task \cup {NoTask}]
      /\ todo' \in [Scanner -> Seq(File)] /\ raised' \subseteq Scanner
    BY <1>1, <1>3, <1>4, <1>8 DEF ParseTypes
<1>10. ParseTypes'
    BY <1>1, <1>4, <1>6, <1>9 DEF ParseTypes, inputs
<1>11. OnlyParses'
    BY <1>1, <1>3, <1>4 DEF OnlyParses, ParseTypes, inputs
<1>12. /\ \A z \in Scanner : z # s => todo'[z] = todo[z] /\ asked'[z] = asked[z] /\ sink'[z] = sink[z]
       /\ Waited(n) => asked'[s] = NoTask /\ sink'[s] = Parsed(sink[s], n)
       /\ ~Waited(n) => UNCHANGED <<todo, asked, raised, sink>>
       /\ Waited(n) => \/ nature[n.file] # "fatal" /\ todo' = todo /\ raised' = raised
                       \/ /\ nature[n.file] = "fatal" /\ raised' = raised \cup {s}
                          /\ todo' = [todo EXCEPT ![s] = <<>>]
    BY <1>1, <1>3, <1>4 DEF ParseTypes
<1>13. /\ \A u \in 1 .. MaxWorkers : u # t => pool'[p].thread[u] = pool[p].thread[u]
       /\ pool'[p].thread[t] = NoTask
    BY <1>1, <1>5 DEF ParseTypes
<1> QED
    BY <1>2, <1>4, <1>5, <1>7, <1>10, <1>11, <1>12, <1>13 DEF n, s

------------------------------------------------------------------------------
\* A step of the parse loop concerns one scanner, and nothing around its scan.
Around == <<host, begun, on, step, current, artifact>>

LEMMA OneScannerMoves ==
    ASSUME ScanInv, NEW s \in Scanner, ~Through(s),
           \A z \in Scanner : z # s => todo'[z] = todo[z] /\ asked'[z] = asked[z] /\ sink'[z] = sink[z],
           UNCHANGED <<Around, inputs, version>>,
           raised' = raised \/ raised' = raised \cup {s},
           SeenAt(s)', AccountedAt(s)',
           s = Serial /\ host = "rescan" /\ SerialReads => SerialReads'
    PROVE  NothingUnderWay' /\ SeenOnce' /\ Accounted' /\ ReadAfterFingerprint'
<1>1. /\ NothingUnderWay /\ SeenOnce /\ Accounted /\ ReadAfterFingerprint
      /\ host' = host /\ begun' = begun /\ on' = on /\ step' = step /\ current' = current
      /\ artifact' = artifact /\ nature' = nature /\ version' = version
    BY DEF ScanInv, Around, inputs
<1>2. s \in begun /\ (s \in Child => on[s] # 0)
    BY <1>1, AtWork
<1>3. Serial \in Scanner /\ Parent \in Scanner /\ Child \subseteq Scanner
    BY ShardAssumption
<1>4. NothingUnderWay'
    BY <1>1, <1>2, <1>3 DEF NothingUnderWay, Through
<1>5. SeenOnce'
    BY <1>1 DEF SeenOnce, SeenAt, Waiting
<1>6. Accounted'
    <2> SUFFICES ASSUME NEW z \in Scanner, z # s PROVE AccountedAt(z)'
        BY DEF Accounted
    <2>1. AccountedAt(z) /\ (z \in raised' <=> z \in raised)
        BY <1>1 DEF Accounted
    <2> QED
        BY <1>1, <1>3, <2>1 DEF AccountedAt, NodeFiles, FilesOf
<1>7. ReadAfterFingerprint'
    <2>1. host = "rescan" /\ Serial \in begun => SerialReads'
        <3>1. CASE s = Serial
            BY <1>1, <3>1 DEF ReadAfterFingerprint
        <3>2. CASE s # Serial
            BY <1>1, <1>3, <3>2 DEF ReadAfterFingerprint, SerialReads, Between
        <3> QED
            BY <3>1, <3>2
    <2> QED
        BY <1>1, <2>1 DEF ReadAfterFingerprint, Between
<1> QED
    BY <1>4, <1>5, <1>6, <1>7

LEMMA NoScannerMoves ==
    ASSUME ScanInv, UNCHANGED <<todo, asked, sink, raised, inputs, version, Around>>
    PROVE  NothingUnderWay' /\ SeenOnce' /\ Accounted' /\ ReadAfterFingerprint'
<1>1. /\ NothingUnderWay /\ SeenOnce /\ Accounted /\ ReadAfterFingerprint
      /\ host' = host /\ begun' = begun /\ on' = on /\ step' = step /\ current' = current
      /\ artifact' = artifact /\ nature' = nature /\ version' = version
    BY DEF ScanInv, Around, inputs
<1>2. NothingUnderWay' /\ SeenOnce'
    BY <1>1 DEF NothingUnderWay, SeenOnce, SeenAt, Waiting, Through
<1>3. Accounted'
    BY <1>1 DEF Accounted, AccountedAt, NodeFiles, FilesOf
<1>4. ReadAfterFingerprint'
    BY <1>1 DEF ReadAfterFingerprint, SerialReads, Between
<1> QED
    BY <1>2, <1>3, <1>4

LEMMA LoopKeeps ==
    ASSUME ScanInv, NEW s \in Scanner, ParseLoop(s), UNCHANGED <<host, shardVars, rescanVars>>
    PROVE  ScanInv'
<1>1. /\ ParseTypes /\ HostTypes /\ SeenAt(s) /\ AccountedAt(s)
      /\ sink[s] \in SinkType /\ Len(sink[s].nodes) \in Nat
      /\ \A c \in Counters : sink[s].count[c] \in Nat
    BY DEF ScanInv, SeenOnce, Accounted, ParseTypes, SinkType
<1>2. UNCHANGED Around /\ HostTypes'
    BY <1>1 DEF Around, shardVars, rescanVars, HostTypes
<1>3. {"files_seen", "parse_timeouts", "files_skipped_large"} \subseteq Counters
    BY DEF Counters
<1>4. nature' = nature /\ begun' = begun
    BY <1>2 DEF Around, ParseLoop, NextFile, StopAtCap, GivesUp, inputs
<1>5. CASE NextFile(s)
    <2>1. ~Through(s)
        BY <1>5 DEF NextFile, Through
    <2>2. SeenAt(s)'
        <3> DEFINE c0 == sink[s].count
                   c1 == sink'[s].count
        <3>1. /\ c0["files_seen"] \in Nat /\ c0["parse_timeouts"] \in Nat /\ c0["files_skipped_large"] \in Nat
              /\ c1["files_seen"] = c0["files_seen"] + 1 /\ c1["parse_timeouts"] = c0["parse_timeouts"]
              /\ \/ c1["files_skipped_large"] = c0["files_skipped_large"]
                 \/ asked'[s] = NoTask /\ c1["files_skipped_large"] = c0["files_skipped_large"] + 1
              /\ sink'[s].nodes = sink[s].nodes /\ asked[s] = NoTask
            BY <1>1, <1>3, <1>5, NextFileEffect
        <3>2. Len(sink[s].nodes) + c0["parse_timeouts"] + c0["files_skipped_large"] <= c0["files_seen"]
            BY <1>1, <3>1 DEF SeenAt, Waiting
        <3> HIDE DEF c0, c1
        <3>3. PICK l \in Nat : l = Len(sink[s].nodes) /\ l = Len(sink'[s].nodes)
            BY <1>1, <3>1
        <3>4. PICK w \in {0, 1} : w = Waiting(s)' /\ (asked'[s] = NoTask => w = 0)
            BY DEF Waiting
        <3>5. PICK a, b, d \in Nat : a = c0["files_seen"] /\ b = c0["parse_timeouts"]
                                    /\ d = c0["files_skipped_large"]
            BY <3>1
        <3>6. l + b + d <= a
            BY <3>2, <3>3, <3>5
        <3>7. PICK e \in {0, 1} : c1["files_skipped_large"] = d + e /\ e + w <= 1
            BY <3>1, <3>4, <3>5
        <3>8. l + b + (d + e) + w <= a + 1
            BY <3>6, <3>7
        <3>9. l + c1["parse_timeouts"] + c1["files_skipped_large"] + w <= c1["files_seen"]
            BY <3>1, <3>5, <3>7, <3>8
        <3> QED
            BY <3>3, <3>4, <3>9 DEF SeenAt, c1
    <2>3. AccountedAt(s)'
        <3> SUFFICES ASSUME s \in begun, s \notin raised, Complete(sink'[s]), NEW f \in ToSet(FilesOf(s))
                     PROVE  \/ nature[f] = "swallowed" \/ f \in NodeFiles(sink[s])
                            \/ f \in ToSet(todo'[s])
                            \/ asked'[s] # NoTask /\ asked'[s].file = f
            BY <1>2, <1>4, <1>5, NextFileEffect DEF AccountedAt, NodeFiles, FilesOf, Around
        <3>1. asked[s] = NoTask /\ Complete(sink[s])
            BY <1>5, NextFileEffect
        <3>2. \/ nature[f] = "swallowed" \/ f \in NodeFiles(sink[s]) \/ f \in ToSet(todo[s])
            BY <1>1, <3>1 DEF AccountedAt
        <3>3. ToSet(todo[s]) = {Head(todo[s])} \cup ToSet(todo'[s])
            <4>1. todo[s] \in Seq(File) /\ todo[s] # <<>> /\ todo'[s] = Tail(todo[s])
                BY <1>1, <1>5, NextFileEffect DEF ParseTypes
            <4> QED
                BY <4>1, TakeFirst
        <3>4. asked'[s] = [scanner |-> s, file |-> Head(todo[s]), content |-> version[Head(todo[s])]]
            BY <1>5, NextFileEffect
        <3>5. asked'[s] # NoTask /\ asked'[s].file = Head(todo[s])
            <4>1. Head(todo[s]) \in File
                BY <1>1, <1>5, NextFileEffect, TakeFirst, ZenonT(40) DEF ParseTypes
            <4>2. NoTask.file = 0 /\ Head(todo[s]) # 0
                BY <4>1, FileNumbers DEF NoTask, NoFile
            <4> QED
                BY <3>4, <4>2
        <3> QED
            BY <3>2, <3>3, <3>5
    <2>4. ASSUME s = Serial, host = "rescan", SerialReads PROVE SerialReads'
        <3>1. /\ current' = current /\ version' = version /\ sink'[Serial].nodes = sink[Serial].nodes
            BY <1>2, <1>5, <2>4, NextFileEffect DEF Around
        <3>2. asked'[s] = NoTask \/ asked'[s] = [scanner |-> s, file |-> Head(todo[s]),
                                                content |-> version[Head(todo[s])]]
            BY <1>5, NextFileEffect
        <3>3. Head(todo[s]) \in File /\ s \in begun
            BY <1>1, <1>5, <2>1, NextFileEffect, TakeFirst, AtWork DEF ParseTypes, ScanInv
        <3>4. current[Head(todo[s])] <= version[Head(todo[s])] /\ version[Head(todo[s])] \in Nat
            BY <1>1, <2>4, <3>3, FileNumbers DEF ScanInv, ReadAfterFingerprint, ParseTypes, Content
        <3> QED
            BY <2>4, <3>1, <3>2, <3>4 DEF SerialReads, Between
    <2> QED
        BY <1>2, <1>5, <2>1, <2>2, <2>3, <2>4, NextFileEffect, OneScannerMoves DEF ScanInv
<1>6. CASE StopAtCap(s)
    <2>1. SeenAt(s)'
        BY <1>1, <1>6, StopEffect DEF SeenAt, Waiting
    <2>2. AccountedAt(s)'
        BY <1>6, StopEffect DEF AccountedAt
    <2>3. s = Serial /\ SerialReads => SerialReads'
        BY <1>2, <1>6, StopEffect DEF SerialReads, Between, Around
    <2>4. /\ ~Through(s) /\ UNCHANGED <<Around, inputs, version>> /\ raised' = raised
          /\ \A z \in Scanner : z # s => todo'[z] = todo[z] /\ asked'[z] = asked[z] /\ sink'[z] = sink[z]
          /\ ParseTypes' /\ OnlyParses'
        BY <1>2, <1>6, StopEffect
    <2>5. NothingUnderWay' /\ SeenOnce' /\ Accounted' /\ ReadAfterFingerprint'
        BY <2>1, <2>2, <2>3, <2>4, OneScannerMoves
    <2> QED
        BY <1>2, <2>4, <2>5 DEF ScanInv
<1>7. CASE GivesUp(s)
    <2>1. SeenAt(s)'
        <3> DEFINE c0 == sink[s].count
                   c1 == sink'[s].count
        <3>1. /\ c0["files_seen"] \in Nat /\ c0["parse_timeouts"] \in Nat /\ c0["files_skipped_large"] \in Nat
              /\ c1["files_seen"] = c0["files_seen"] /\ c1["parse_timeouts"] = c0["parse_timeouts"] + 1
              /\ c1["files_skipped_large"] = c0["files_skipped_large"]
              /\ sink'[s].nodes = sink[s].nodes /\ asked[s] # NoTask /\ asked'[s] = NoTask
            BY <1>1, <1>3, <1>7, GivesUpEffect
        <3>2. Len(sink[s].nodes) + c0["parse_timeouts"] + c0["files_skipped_large"] + 1 <= c0["files_seen"]
            BY <1>1, <3>1 DEF SeenAt, Waiting
        <3> HIDE DEF c0, c1
        <3>3. Len(sink'[s].nodes) + c1["parse_timeouts"] + c1["files_skipped_large"] + 0 <= c1["files_seen"]
            BY <1>1, <3>1, <3>2, SMTT(30)
        <3> QED
            BY <3>1, <3>3 DEF SeenAt, Waiting, c1
    <2>2. AccountedAt(s)'
        BY <1>7, GivesUpEffect DEF AccountedAt
    <2>3. s = Serial /\ SerialReads => SerialReads'
        BY <1>2, <1>7, GivesUpEffect DEF SerialReads, Between, Around
    <2> QED
        BY <1>2, <1>7, <2>1, <2>2, <2>3, GivesUpEffect, OneScannerMoves DEF ScanInv
<1> QED
    BY <1>5, <1>6, <1>7 DEF ParseLoop

\* The parse that a scanner waits for ends.
LEMMA WaitedParse ==
    ASSUME ScanInv, NEW n \in Task, NEW s \in Scanner, s = n.scanner, asked[s] = n, asked'[s] = NoTask,
           sink'[s] = Parsed(sink[s], n), UNCHANGED <<Around, inputs, version>>,
           \A z \in Scanner : z # s => todo'[z] = todo[z] /\ asked'[z] = asked[z] /\ sink'[z] = sink[z],
           \/ nature[n.file] # "fatal" /\ todo' = todo /\ raised' = raised
           \/ nature[n.file] = "fatal" /\ raised' = raised \cup {s}
    PROVE  NothingUnderWay' /\ SeenOnce' /\ Accounted' /\ ReadAfterFingerprint'
<1> DEFINE k == sink[s]
           e == <<n.file, n.content>>
<1>1. n # NoTask /\ n.file \in File /\ e \in NodeType
    BY Tasks DEF NodeType
<1>2. /\ k \in SinkType /\ nature[n.file] \notin {"large", "unreadable"} /\ ~Through(s) /\ ParseTypes
      /\ SeenAt(s) /\ AccountedAt(s) /\ k.nodes \in Seq(NodeType)
    BY <1>1 DEF ScanInv, ParseTypes, OnlyParses, Through, SeenOnce, Accounted, SinkType
<1> HIDE DEF k, e
<1>3. /\ sink'[s].nodes = k.nodes \/ sink'[s].nodes = Append(k.nodes, e)
      /\ \A c \in {"files_seen", "parse_timeouts", "files_skipped_large", "capped"} :
             sink'[s].count[c] = k.count[c]
      /\ Complete(sink'[s]) => Complete(k)
      /\ Complete(sink'[s]) /\ nature[n.file] \notin {"swallowed", "fatal"} =>
             sink'[s].nodes = Append(k.nodes, e)
    <2>1. sink'[s] = Parsed(k, n)
        BY DEF k
    <2> QED
        BY <1>2, <2>1, ParsedGives DEF e
<1>4. /\ Len(k.nodes) \in Nat /\ Len(Append(k.nodes, e)) = Len(k.nodes) + 1
      /\ ToSet(Append(k.nodes, e)) = ToSet(k.nodes) \cup {e}
    BY <1>1, <1>2, PutLast
<1>5. SeenAt(s)'
    <2> DEFINE c1 == sink'[s].count
    <2>1. PICK a, b, d \in Nat : a = k.count["files_seen"] /\ b = k.count["parse_timeouts"]
                               /\ d = k.count["files_skipped_large"]
        BY <1>2 DEF SinkType, Counters
    <2>2. c1["files_seen"] = a /\ c1["parse_timeouts"] = b /\ c1["files_skipped_large"] = d
        BY <1>3, <2>1
    <2>3. PICK l, m \in Nat : l = Len(k.nodes) /\ m = Len(sink'[s].nodes) /\ m <= l + 1
        BY <1>3, <1>4
    <2>4. l + b + d + 1 <= a
        BY <1>1, <1>2, <2>1, <2>3 DEF SeenAt, Waiting, k
    <2>5. m + b + d + 0 <= a
        <3>1. a \in Nat /\ b \in Nat /\ d \in Nat /\ l \in Nat /\ m \in Nat /\ m <= l + 1
            BY <2>1, <2>3
        <3> QED
            BY <2>4, <3>1
    <2> QED
        BY <2>2, <2>3, <2>5 DEF SeenAt, Waiting
<1>6. AccountedAt(s)'
    <2> SUFFICES ASSUME s \in begun, s \notin raised', Complete(sink'[s]), NEW f \in ToSet(FilesOf(s))
                 PROVE  \/ nature[f] = "swallowed" \/ f \in NodeFiles(sink'[s])
                        \/ f \in ToSet(todo'[s])
        BY DEF AccountedAt, FilesOf, Around, NodeFiles, inputs
    <2>1. nature[n.file] # "fatal" /\ todo' = todo /\ s \notin raised /\ Complete(k)
        BY <1>3
    <2>2. nature[n.file] # "swallowed" => sink'[s].nodes = Append(k.nodes, e)
        BY <1>3, <2>1
    <2>3. \/ nature[f] = "swallowed" \/ f \in NodeFiles(k) \/ f \in ToSet(todo[s])
          \/ n.file = f
        BY <1>2, <2>1 DEF AccountedAt, k
    <2>4. NodeFiles(k) \subseteq NodeFiles(sink'[s])
        BY <1>3, <1>4, SMTT(30), ZenonT(40) DEF NodeFiles
    <2>5. sink'[s].nodes = Append(k.nodes, e) => n.file \in NodeFiles(sink'[s])
        <3>1. e[1] = n.file
            BY DEF e
        <3> QED
            BY <1>4, <3>1 DEF NodeFiles
    <2> QED
        BY <2>1, <2>2, <2>3, <2>4, <2>5
<1>7. ASSUME s = Serial, SerialReads PROVE SerialReads'
    <2>1. current' = current /\ version' = version /\ asked[Serial] = n /\ asked'[Serial] = NoTask
        BY <1>7 DEF Around
    <2>2. current[n.file] <= n.content /\ n.content <= version[n.file]
        BY <1>1, <1>7, <2>1 DEF SerialReads
    <2>3. ToSet(sink'[Serial].nodes) \subseteq ToSet(sink[Serial].nodes) \cup {e}
        BY <1>3, <1>4, <1>7 DEF k
    <2>4. e[1] = n.file /\ e[2] = n.content
        BY DEF e
    <2> QED
        BY <1>7, <2>1, <2>2, <2>3, <2>4 DEF SerialReads, Between
<1> QED
    <2>1. raised' = raised \/ raised' = raised \cup {s}
        OBVIOUS
    <2> QED
        BY <1>2, <1>5, <1>6, <1>7, <2>1, OneScannerMoves

LEMMA ThreadsKeep ==
    ASSUME ScanInv, NEW p \in Process, Threads(p), UNCHANGED <<host, shardVars, rescanVars>>
    PROVE  ScanInv'
<1>1. ParseTypes /\ HostTypes /\ OnlyParses
    BY DEF ScanInv
<1>2. UNCHANGED Around /\ HostTypes'
    BY <1>1 DEF Around, shardVars, rescanVars, HostTypes
<1>3. PICK t \in 1 .. MaxWorkers : ThreadTakes(p, t) \/ ThreadEnds(p, t)
    BY <1>1 DEF Threads, ParseTypes
<1>4. CASE ThreadTakes(p, t)
    BY <1>2, <1>4, ThreadTakesEffect, NoScannerMoves DEF ScanInv
<1>5. CASE ThreadEnds(p, t)
    <2>1. PICK n : n = pool[p].thread[t]
        OBVIOUS
    <2>2. PICK s : s = n.scanner
        OBVIOUS
    <2>3. /\ ParseTypes' /\ OnlyParses' /\ n \in Task /\ UNCHANGED <<inputs, version>>
          /\ \A z \in Scanner : z # s => todo'[z] = todo[z] /\ asked'[z] = asked[z] /\ sink'[z] = sink[z]
          /\ ~Waited(n) => UNCHANGED <<todo, asked, raised, sink>>
          /\ Waited(n) => /\ asked[s] = n /\ asked'[s] = NoTask /\ sink'[s] = Parsed(sink[s], n)
                          /\ \/ nature[n.file] # "fatal" /\ todo' = todo /\ raised' = raised
                             \/ nature[n.file] = "fatal" /\ raised' = raised \cup {s}
        BY <1>5, <2>1, <2>2, ThreadEndsEffect, SMTT(30), ZenonT(40)
    <2>4. s \in Scanner
        BY <2>2, <2>3, Tasks
    <2>5. NothingUnderWay' /\ SeenOnce' /\ Accounted' /\ ReadAfterFingerprint'
        <3>1. CASE ~Waited(n)
            BY <1>2, <2>3, <3>1, NoScannerMoves
        <3>2. CASE Waited(n)
            BY <1>2, <2>2, <2>3, <2>4, <3>2, WaitedParse
        <3> QED
            BY <3>1, <3>2
    <2> QED
        BY <1>2, <2>3, <2>5 DEF ScanInv
<1> QED
    BY <1>3, <1>4, <1>5

\* A file is saved: what was read of it is no younger than it is now.
LEMMA EditKeeps ==
    ASSUME ScanInv, NEW f \in File, Edit(f), UNCHANGED <<host, shardVars, rescanVars>>
    PROVE  ScanInv'
<1>1. /\ ParseTypes /\ HostTypes /\ OnlyParses /\ NothingUnderWay /\ SeenOnce /\ Accounted
      /\ ReadAfterFingerprint
    BY DEF ScanInv
<1>2. /\ UNCHANGED <<Around, HostTypes>> /\ nature' = nature /\ yield' = yield /\ pool' = pool /\ todo' = todo
      /\ asked' = asked /\ raised' = raised /\ sink' = sink
    BY <1>1 DEF Edit, inputs, Around, shardVars, rescanVars, HostTypes
<1>3. /\ version' \in [File -> Content]
      /\ \A g \in File : version[g] \in Nat /\ version'[g] \in Nat /\ version[g] <= version'[g]
    <2>1. version \in [File -> Content] /\ version[f] \in 0 .. MaxEdits /\ MaxEdits \in Nat
        BY <1>1, FileNumbers DEF ParseTypes, Content
    <2>2. version[f] + 1 \in Content /\ version' = [version EXCEPT ![f] = version[f] + 1]
        BY <2>1 DEF Edit, Content
    <2>3. version' \in [File -> Content]
        BY <2>1, <2>2
    <2>4. \A g \in File : version'[g] = IF g = f THEN version[f] + 1 ELSE version[g]
        BY <2>1, <2>2
    <2> QED
        BY <2>1, <2>3, <2>4 DEF Content
<1>4. ParseTypes' /\ OnlyParses'
    BY <1>1, <1>2, <1>3 DEF ParseTypes, OnlyParses
<1>5. NothingUnderWay' /\ SeenOnce'
    BY <1>1, <1>2 DEF Around, NothingUnderWay, Through, SeenOnce, SeenAt, Waiting
<1>6. Accounted'
    BY <1>1, <1>2 DEF Around, Accounted, AccountedAt, NodeFiles, FilesOf
<1>7. ASSUME NEW nodes \in Seq(NodeType), NEW old, Between(old, nodes)
      PROVE  \A n \in ToSet(nodes) : old[n[1]] <= n[2] /\ n[2] <= version'[n[1]]
    <2> SUFFICES ASSUME NEW n \in ToSet(nodes) PROVE old[n[1]] <= n[2] /\ n[2] <= version'[n[1]]
        OBVIOUS
    <2>1. n \in NodeType
        BY DEF ToSet
    <2>2. n[1] \in File /\ n[2] \in Nat
        BY <2>1, FileNumbers DEF NodeType, Content
    <2>3. old[n[1]] <= n[2] /\ n[2] <= version[n[1]]
        BY <1>7 DEF Between
    <2> QED
        BY <1>3, <2>2, <2>3
<1>8. ReadAfterFingerprint'
    <2>1. Serial \in Scanner /\ sink[Serial].nodes \in Seq(NodeType)
        BY <1>1, ShardAssumption DEF ParseTypes, SinkType
    <2>2. SerialReads => SerialReads'
        <3> SUFFICES ASSUME SerialReads PROVE SerialReads'
            OBVIOUS
        <3>1. Between(current, sink[Serial].nodes)'
            BY <1>2, <1>7, <2>1 DEF SerialReads, Between, Around
        <3>2. ASSUME asked[Serial] # NoTask
              PROVE  LET n == asked[Serial] IN
                     current[n.file] <= n.content /\ n.content <= version'[n.file]
            <4>1. asked[Serial] \in Task
                BY <1>1, <2>1, <3>2 DEF ParseTypes
            <4>2. asked[Serial].file \in File /\ asked[Serial].content \in Nat
                BY <4>1, Tasks, FileNumbers DEF Content
            <4> QED
                BY <1>3, <3>2, <4>2 DEF SerialReads
        <3> QED
            BY <1>2, <3>1, <3>2 DEF SerialReads, Around
    <2>3. host = "rescan" => Between(artifact.source_digest, artifact.nodes)'
        <3> SUFFICES ASSUME host = "rescan" PROVE Between(artifact.source_digest, artifact.nodes)'
            OBVIOUS
        <3>1. artifact.nodes \in Seq(NodeType)
            <4>1. NoArtifact.nodes = <<>> /\ <<>> \in Seq(NodeType)
                BY DEF NoArtifact
            <4> QED
                BY <1>1, <4>1 DEF ReadAfterFingerprint
        <3>2. Between(artifact.source_digest, artifact.nodes)
            BY <1>1 DEF ReadAfterFingerprint
        <3> QED
            BY <1>2, <1>7, <3>1, <3>2 DEF Between, Around
    <2>4. host = "rescan" /\ Serial \in begun =>
              current \in [File -> Content] /\ \A g \in File : current[g] <= version'[g]
        <3> SUFFICES ASSUME host = "rescan", Serial \in begun
                     PROVE  current \in [File -> Content] /\ \A g \in File : current[g] <= version'[g]
            OBVIOUS
        <3>1. current \in [File -> Content] /\ \A g \in File : current[g] <= version[g]
            BY <1>1 DEF ReadAfterFingerprint
        <3>2. \A g \in File : current[g] \in Nat
            BY <3>1, FileNumbers DEF Content
        <3> QED
            BY <1>3, <3>1, <3>2
    <2> QED
        BY <1>1, <1>2, <2>2, <2>3, <2>4 DEF ReadAfterFingerprint, Around
<1>9. HostTypes'
    BY <1>1, <1>2
<1> QED
    BY <1>4, <1>5, <1>6, <1>8, <1>9 DEF ScanInv

------------------------------------------------------------------------------
\* A scan begins on a scanner that is through.
LEMMA BeginEffect ==
    ASSUME ScanInv, NEW s \in Scanner, NEW files \in Seq(File), NEW limit \in Nat,
           Through(s), Begin(s, files, limit)
    PROVE  /\ ParseTypes' /\ OnlyParses' /\ SeenOnce'
           /\ \A z \in Scanner : z # s => todo'[z] = todo[z] /\ sink'[z] = sink[z]
           /\ asked' = asked /\ todo'[s] = files /\ sink'[s] = EmptySink(limit) /\ asked[s] = NoTask
           /\ begun' = begun \cup {s} /\ raised' = raised \ {s}
           /\ nature' = nature /\ yield' = yield /\ version' = version /\ pool' = pool
<1>1. ParseTypes /\ OnlyParses /\ SeenOnce
    BY DEF ScanInv
<1>2. /\ todo' = [todo EXCEPT ![s] = files] /\ sink' = [sink EXCEPT ![s] = EmptySink(limit)]
      /\ begun' = begun \cup {s} /\ raised' = raised \ {s}
      /\ nature' = nature /\ yield' = yield /\ version' = version /\ pool' = pool /\ asked' = asked
    BY DEF Begin, inputs
<1>3. EmptySink(limit) \in SinkType
    BY DEF EmptySink, SinkType
<1>4. ParseTypes' /\ OnlyParses'
    BY <1>1, <1>2, <1>3 DEF ParseTypes, OnlyParses
<1>5. /\ todo'[s] = files /\ sink'[s] = EmptySink(limit) /\ asked[s] = NoTask
      /\ \A z \in Scanner : z # s => todo'[z] = todo[z] /\ sink'[z] = sink[z]
    BY <1>1, <1>2 DEF ParseTypes, Through
<1>6. SeenAt(s)'
    <2>1. /\ EmptySink(limit).nodes = <<>>
          /\ \A c \in Counters : EmptySink(limit).count[c] = 0
          /\ {"files_seen", "parse_timeouts", "files_skipped_large"} \subseteq Counters
        BY DEF EmptySink, Counters
    <2>2. /\ Len(sink'[s].nodes) = 0 /\ sink'[s].count["parse_timeouts"] = 0 /\ Waiting(s)' = 0
          /\ sink'[s].count["files_skipped_large"] = 0 /\ sink'[s].count["files_seen"] = 0
        BY <1>2, <1>5, <2>1, Nothing DEF Waiting
    <2> QED
        BY <2>2 DEF SeenAt
<1>7. SeenOnce'
    BY <1>1, <1>2, <1>5, <1>6 DEF SeenOnce, SeenAt, Waiting
<1> QED
    BY <1>2, <1>4, <1>5, <1>7

LEMMA BeginKeeps ==
    ASSUME ScanInv, NEW s \in Scanner, NEW files \in Seq(File), NEW limit \in Nat,
           Through(s), Begin(s, files, limit), host' = host,
           files = FilesOf(s)', \A z \in Child : z # s => on'[z] = on[z]
    PROVE  /\ Accounted'
           /\ current' = current /\ s # Serial /\ SerialReads => SerialReads'
           /\ s = Serial => SerialReads'
<1>1. Accounted /\ Serial \in Scanner
    BY ShardAssumption DEF ScanInv
<1>2. ASSUME NEW z \in Scanner PROVE AccountedAt(z)'
    <2>1. CASE z = s
        <3>1. todo'[s] = FilesOf(s)'
            BY BeginEffect
        <3> QED
            BY <2>1, <3>1 DEF AccountedAt
    <2>2. CASE z # s
        <3>1. /\ todo'[z] = todo[z] /\ sink'[z] = sink[z] /\ asked'[z] = asked[z] /\ nature' = nature
              /\ (z \in begun' <=> z \in begun) /\ (z \in raised' <=> z \in raised)
            BY <1>1, <2>2, BeginEffect
        <3>2. AccountedAt(z)
            BY <1>1 DEF Accounted
        <3> QED
            BY <2>2, <3>1, <3>2 DEF AccountedAt, NodeFiles, FilesOf
    <2> QED
        BY <2>1, <2>2
<1>3. ASSUME current' = current, s # Serial, SerialReads PROVE SerialReads'
    <2>1. sink'[Serial] = sink[Serial] /\ asked' = asked /\ version' = version
        BY <1>1, <1>3, BeginEffect
    <2> QED
        BY <1>3, <2>1 DEF SerialReads, Between
<1>4. ASSUME s = Serial PROVE SerialReads'
    <2>1. sink'[s] = EmptySink(limit) /\ asked' = asked /\ asked[s] = NoTask
        BY BeginEffect
    <2>2. sink'[Serial].nodes = <<>> /\ asked'[Serial] = NoTask
        BY <1>4, <2>1 DEF EmptySink
    <2> QED
        BY <2>2, Nothing DEF SerialReads, Between
<1> QED
    BY <1>2, <1>3, <1>4 DEF Accounted

\* The hosts begin scans and take what comes of them.
LEMMA ServerKeeps ==
    ASSUME ScanInv, NEW w \in Ingest, IngestScans(w)
    PROVE  ScanInv'
<1>1. HostTypes /\ NothingUnderWay /\ ReadAfterFingerprint
    BY DEF ScanInv
<1>2. /\ w \in Scanner /\ Share(w) \in Seq(File) /\ MaxClaims \in Nat
      /\ Share(w) = FilesOf(w)' /\ w # Serial /\ w # Parent /\ w \notin Child
    BY ShardAssumption, ParseAssumption DEF FilesOf
<1>3. /\ host = "server" /\ w \notin begun /\ Through(w) /\ Begin(w, Share(w), MaxClaims)
      /\ host' = host /\ next' = next /\ on' = on /\ step' = step /\ current' = current
      /\ artifact' = artifact
    BY <1>1, <1>2 DEF IngestScans, NothingUnderWay, rescanVars
<1>4. ParseTypes' /\ OnlyParses' /\ SeenOnce' /\ Accounted'
    BY <1>2, <1>3, BeginEffect, BeginKeeps
<1>5. HostTypes' /\ NothingUnderWay'
    <2>1. /\ asked' = asked /\ begun' = begun \cup {w}
          /\ \A z \in Scanner : z # w => todo'[z] = todo[z]
        BY <1>2, <1>3, BeginEffect
    <2> QED
        BY <1>1, <1>2, <1>3, <2>1, ShardAssumption DEF HostTypes, NothingUnderWay, Through
<1>6. ReadAfterFingerprint'
    BY <1>1, <1>3 DEF ReadAfterFingerprint
<1> QED
    BY <1>4, <1>5, <1>6 DEF ScanInv

LEMMA SerialKeeps ==
    ASSUME ScanInv, SerialScans
    PROVE  ScanInv'
<1>1. HostTypes /\ NothingUnderWay /\ ReadAfterFingerprint
    BY DEF ScanInv
<1>2. /\ Serial \in Scanner /\ Files \in Seq(File) /\ MaxClaims \in Nat
      /\ Files = FilesOf(Serial)' /\ Serial # Parent /\ Serial \notin Child
    BY ShardAssumption, FileNumbers DEF FilesOf
<1>3. /\ host = "sharded" /\ Serial \notin begun /\ Through(Serial) /\ Begin(Serial, Files, MaxClaims)
      /\ host' = host /\ next' = next /\ on' = on /\ step' = step /\ current' = current
      /\ artifact' = artifact
    BY <1>1, <1>2 DEF SerialScans, NothingUnderWay, rescanVars
<1>4. ParseTypes' /\ OnlyParses' /\ SeenOnce' /\ Accounted'
    BY <1>2, <1>3, BeginEffect, BeginKeeps
<1>5. HostTypes' /\ NothingUnderWay'
    <2>1. /\ asked' = asked /\ begun' = begun \cup {Serial}
          /\ \A z \in Scanner : z # Serial => todo'[z] = todo[z]
        BY <1>2, <1>3, BeginEffect
    <2> QED
        BY <1>1, <1>2, <1>3, <2>1, ShardAssumption DEF HostTypes, NothingUnderWay, Through
<1>6. ReadAfterFingerprint'
    BY <1>1, <1>3 DEF ReadAfterFingerprint
<1> QED
    BY <1>4, <1>5, <1>6 DEF ScanInv

LEMMA SlicesKeep ==
    ASSUME ScanInv, NEW c \in Child, TakesSlice(c)
    PROVE  ScanInv'
<1>1. HostTypes /\ NothingUnderWay /\ ReadAfterFingerprint
    BY DEF ScanInv
<1>2. c \in Scanner /\ c \notin Ingest /\ c # Parent /\ Serial \notin Child
    BY ShardAssumption
<1>3. /\ host = "sharded" /\ Through(c) /\ Begin(c, Slice(next), 0) /\ next <= Slices
      /\ next \in Nat \ {0} /\ Slice(next) \in Seq(File)
      /\ host' = host /\ next' = next + 1 /\ on' = [on EXCEPT ![c] = next] /\ step' = step
      /\ current' = current /\ artifact' = artifact
    BY <1>1, SliceFacts DEF TakesSlice, NothingUnderWay, rescanVars, HostTypes
<1>4. ParseTypes' /\ OnlyParses' /\ SeenOnce' /\ Accounted'
    <2>1. on'[c] = next /\ \A d \in Child : d # c => on'[d] = on[d]
        BY <1>1, <1>3 DEF HostTypes
    <2>2. Slice(next) = FilesOf(c)'
        BY <1>2, <1>3, <2>1 DEF FilesOf
    <2> QED
        BY <1>2, <1>3, <2>1, <2>2, BeginEffect, BeginKeeps
<1>5. HostTypes'
    <2>1. next \in 0 .. Slices /\ begun' \subseteq Scanner
        BY <1>1, <1>2, <1>3, BeginEffect DEF HostTypes
    <2> QED
        BY <1>1, <1>3, <2>1 DEF HostTypes
<1>6. NothingUnderWay'
    <2>1. /\ asked' = asked /\ begun' = begun \cup {c}
          /\ \A z \in Scanner : z # c => todo'[z] = todo[z]
        BY <1>2, <1>3, BeginEffect
    <2>2. next # 0 /\ on' \in [Child -> Nat \cup {next}] /\ \A d \in Child : on'[d] = IF d = c THEN next ELSE on[d]
        BY <1>1, <1>3 DEF HostTypes
    <2> QED
        BY <1>1, <1>2, <1>3, <2>1, <2>2, ShardAssumption DEF NothingUnderWay, Through
<1>7. ReadAfterFingerprint'
    BY <1>1, <1>3 DEF ReadAfterFingerprint
<1> QED
    BY <1>4, <1>5, <1>6, <1>7 DEF ScanInv

\* What the parent of a sharded scan does with the slices leaves the scans alone.
LEMMA ParentKeeps ==
    ASSUME ScanInv, UNCHANGED <<parseVars, host, begun, next, rescanVars>>,
           on' \in [Child -> 0 .. Slices],
           \A c \in Child : on'[c] = on[c] \/ (on'[c] = 0 /\ Through(c)),
           step' = "map" => step = "map"
    PROVE  ScanInv'
<1>1. /\ nature' = nature /\ yield' = yield /\ version' = version /\ pool' = pool /\ todo' = todo
      /\ asked' = asked /\ raised' = raised /\ sink' = sink /\ host' = host /\ begun' = begun
      /\ next' = next /\ current' = current /\ artifact' = artifact
    BY DEF parseVars, inputs, rescanVars
<1>2. ParseTypes' /\ HostTypes' /\ OnlyParses'
    BY <1>1 DEF ScanInv, ParseTypes, HostTypes, OnlyParses
<1>3. NothingUnderWay'
    BY <1>1 DEF ScanInv, NothingUnderWay, Through
<1>4. SeenOnce'
    BY <1>1 DEF ScanInv, SeenOnce, SeenAt, Waiting
<1>5. Accounted'
    <2> SUFFICES ASSUME NEW s \in Scanner PROVE AccountedAt(s)'
        BY DEF Accounted
    <2>1. AccountedAt(s)
        BY DEF ScanInv, Accounted
    <2>2. FilesOf(s)' = FilesOf(s) \/ FilesOf(s)' = <<>>
        BY DEF FilesOf
    <2> QED
        BY <1>1, <2>1, <2>2, Nothing DEF AccountedAt, NodeFiles
<1>6. ReadAfterFingerprint'
    BY <1>1 DEF ScanInv, ReadAfterFingerprint, SerialReads, Between
<1> QED
    BY <1>2, <1>3, <1>4, <1>5, <1>6 DEF ScanInv

LEMMA MergeKeeps ==
    ASSUME ScanInv, Merge
    PROVE  ScanInv'
<1>1. HostTypes /\ NothingUnderWay /\ ReadAfterFingerprint
    BY DEF ScanInv
<1>2. CASE UNCHANGED <<parseVars, begun>> /\ step' = "done"
    BY <1>1, <1>2, ParentKeeps DEF Merge, HostTypes
<1>3. CASE Begin(Parent, Files, MaxClaims) /\ step' = "rerun"
    <2>1. /\ Parent \in Scanner /\ Files \in Seq(File) /\ MaxClaims \in Nat
          /\ Files = FilesOf(Parent)' /\ Serial # Parent /\ Parent \notin Child
        BY ShardAssumption, FileNumbers DEF FilesOf
    <2>2. /\ host = "sharded" /\ Parent \notin begun /\ Through(Parent)
          /\ host' = host /\ next' = next /\ on' = on /\ current' = current /\ artifact' = artifact
        BY <1>1, <2>1 DEF Merge, NothingUnderWay, rescanVars
    <2>3. ParseTypes' /\ OnlyParses' /\ SeenOnce' /\ Accounted'
        BY <1>3, <2>1, <2>2, BeginEffect, BeginKeeps
    <2>4. HostTypes' /\ NothingUnderWay'
        <3>1. /\ asked' = asked /\ begun' = begun \cup {Parent}
              /\ \A z \in Scanner : z # Parent => todo'[z] = todo[z]
            BY <1>3, <2>1, <2>2, BeginEffect
        <3> QED
            BY <1>1, <1>3, <2>1, <2>2, <3>1, ShardAssumption DEF HostTypes, NothingUnderWay, Through
    <2>5. ReadAfterFingerprint'
        BY <1>1, <2>2 DEF ReadAfterFingerprint
    <2> QED
        BY <2>3, <2>4, <2>5 DEF ScanInv
<1> QED
    BY <1>2, <1>3 DEF Merge

LEMMA FingerprintKeeps ==
    ASSUME ScanInv, Fingerprint
    PROVE  ScanInv'
<1>1. ParseTypes /\ HostTypes /\ NothingUnderWay /\ ReadAfterFingerprint
    BY DEF ScanInv
<1>2. /\ host = "rescan" /\ Serial \notin begun /\ current' = version
      /\ host' = host /\ next' = next /\ on' = on /\ step' = step /\ artifact' = artifact
    BY DEF Fingerprint
<1>3. /\ Serial \in Scanner /\ Files \in Seq(File) /\ MaxClaims \in Nat
      /\ Files = FilesOf(Serial)' /\ Serial # Parent /\ Serial \notin Child
    BY ShardAssumption, FileNumbers DEF FilesOf
<1>4. CASE UNCHANGED <<parseVars, begun>>
    <2>1. /\ nature' = nature /\ yield' = yield /\ version' = version /\ pool' = pool /\ todo' = todo
          /\ asked' = asked /\ raised' = raised /\ sink' = sink /\ begun' = begun
        BY <1>4 DEF parseVars, inputs
    <2>2. ParseTypes' /\ HostTypes' /\ OnlyParses'
        BY <1>2, <2>1 DEF ScanInv, ParseTypes, HostTypes, OnlyParses
    <2>3. NothingUnderWay'
        BY <1>1, <1>2, <2>1 DEF NothingUnderWay, Through
    <2>4. SeenOnce' /\ Accounted'
        BY <1>2, <2>1 DEF ScanInv, SeenOnce, SeenAt, Waiting, Accounted, AccountedAt, NodeFiles, FilesOf
    <2>5. ReadAfterFingerprint'
        BY <1>1, <1>2, <2>1 DEF ReadAfterFingerprint, Between
    <2> QED
        BY <2>2, <2>3, <2>4, <2>5 DEF ScanInv
<1>5. CASE Begin(Serial, Files, MaxClaims)
    <2>1. Through(Serial)
        BY <1>1, <1>2, <1>3 DEF NothingUnderWay
    <2>2. ParseTypes' /\ OnlyParses' /\ SeenOnce' /\ Accounted' /\ SerialReads'
        BY <1>2, <1>3, <1>5, <2>1, BeginEffect, BeginKeeps
    <2>3. HostTypes' /\ NothingUnderWay'
        <3>1. /\ asked' = asked /\ begun' = begun \cup {Serial}
              /\ \A z \in Scanner : z # Serial => todo'[z] = todo[z]
            BY <1>3, <1>5, <2>1, BeginEffect
        <3> QED
            BY <1>1, <1>2, <1>3, <3>1, ShardAssumption DEF HostTypes, NothingUnderWay, Through
    <2>4. version' = version /\ version \in [File -> Content] /\ \A f \in File : version[f] <= version[f]
        <3>1. version \in [File -> Content] /\ Content \subseteq Nat
            BY <1>1, FileNumbers DEF ParseTypes, Content
        <3>2. version' = version
            BY <1>3, <1>5, <2>1, BeginEffect
        <3>3. \A f \in File : version[f] \in Nat
            BY <3>1
        <3> QED
            BY <3>1, <3>2, <3>3
    <2>5. ReadAfterFingerprint'
        BY <1>1, <1>2, <2>2, <2>4 DEF ReadAfterFingerprint, Between
    <2> QED
        BY <2>2, <2>3, <2>5 DEF ScanInv
<1> QED
    BY <1>4, <1>5 DEF Fingerprint

LEMMA ArtifactKeeps ==
    ASSUME ScanInv, WriteArtifact
    PROVE  ScanInv'
<1>1. ParseTypes /\ HostTypes /\ NothingUnderWay /\ ReadAfterFingerprint /\ Serial \in Scanner
    BY ShardAssumption DEF ScanInv
<1>2. /\ nature' = nature /\ yield' = yield /\ version' = version /\ pool' = pool /\ todo' = todo
      /\ asked' = asked /\ raised' = raised /\ sink' = sink /\ host' = host /\ begun' = {}
      /\ next' = next /\ on' = on /\ step' = step /\ current' = current
      /\ host = "rescan" /\ Serial \in begun /\ Through(Serial)
    BY DEF WriteArtifact, parseVars, inputs
<1>3. ParseTypes' /\ HostTypes' /\ OnlyParses'
    BY <1>2 DEF ScanInv, ParseTypes, HostTypes, OnlyParses
<1>4. NothingUnderWay'
    BY <1>1, <1>2 DEF NothingUnderWay, Through
<1>5. SeenOnce' /\ Accounted'
    BY <1>2 DEF ScanInv, SeenOnce, SeenAt, Waiting, Accounted, AccountedAt
<1>6. ReadAfterFingerprint'
    <2>1. CASE artifact' = artifact
        BY <1>1, <1>2, <2>1 DEF ReadAfterFingerprint, Between
    <2>2. CASE artifact' = [source_digest |-> current, nodes |-> sink[Serial].nodes]
        <3>1. artifact'.source_digest = current /\ artifact'.nodes = sink[Serial].nodes
            BY <2>2
        <3>2. current \in [File -> Content] /\ Between(current, sink[Serial].nodes)
            BY <1>1, <1>2 DEF ReadAfterFingerprint, SerialReads
        <3>3. sink[Serial].nodes \in Seq(NodeType)
            BY <1>1 DEF ParseTypes, SinkType
        <3> QED
            BY <1>2, <3>1, <3>2, <3>3 DEF ReadAfterFingerprint, Between
    <2> QED
        BY <2>1, <2>2 DEF WriteArtifact, Digest
<1> QED
    BY <1>3, <1>4, <1>5, <1>6 DEF ScanInv

------------------------------------------------------------------------------
LEMMA InitHasScanInv ==
    ASSUME ScanInit PROVE ScanInv
<1>1. PICK k \in Cases : nature = k.nature /\ yield = k.yield
    BY DEF ScanInit, ParseInit
<1>2. nature \in [File -> Natures] /\ yield \in [File -> Nat]
    BY <1>1, ShardAssumption
<1>3. /\ version = [f \in File |-> 0] /\ pool = [p \in Process |-> AfterFork]
      /\ asked = [s \in Scanner |-> NoTask] /\ raised = {} /\ sink = [s \in Scanner |-> EmptySink(0)]
      /\ todo = [s \in Scanner |-> <<>>] /\ begun = {} /\ next = 1 /\ on = [c \in Child |-> 0]
      /\ artifact = NoArtifact
    BY DEF ScanInit, ParseInit
<1>4. EmptySink(0) \in SinkType /\ EmptySink(0).nodes = <<>> /\ \A c \in Counters : EmptySink(0).count[c] = 0
    BY DEF EmptySink, SinkType
<1>5. AfterFork \in [thread : [1 .. MaxWorkers -> Task \cup {NoTask}], queue : Seq(Task)]
    BY DEF AfterFork, NewPool
<1>6. 0 \in Content
    BY FileNumbers DEF Content
<1>7. ParseTypes
    BY <1>2, <1>3, <1>4, <1>5, <1>6 DEF ParseTypes
<1>8. HostTypes
    BY <1>3, SlicesNumber DEF HostTypes
<1>9. OnlyParses /\ NothingUnderWay
    BY <1>3, ShardAssumption DEF OnlyParses, NothingUnderWay, Through
<1>10. SeenOnce
    <2> SUFFICES ASSUME NEW s \in Scanner PROVE SeenAt(s)
        BY DEF SeenOnce
    <2>1. sink[s] = EmptySink(0) /\ Waiting(s) = 0
        BY <1>3 DEF Waiting
    <2>2. {"files_seen", "parse_timeouts", "files_skipped_large"} \subseteq Counters
        BY DEF Counters
    <2>3. /\ Len(sink[s].nodes) = 0 /\ sink[s].count["parse_timeouts"] = 0
          /\ sink[s].count["files_skipped_large"] = 0 /\ sink[s].count["files_seen"] = 0
        BY <1>4, <2>1, <2>2, Nothing
    <2> QED
        BY <2>1, <2>3 DEF SeenAt
<1>11. Accounted
    BY <1>3 DEF Accounted, AccountedAt
<1>12. ReadAfterFingerprint
    BY <1>3, Nothing DEF ReadAfterFingerprint, NoArtifact, Between
<1> QED
    BY <1>7, <1>8, <1>9, <1>10, <1>11, <1>12 DEF ScanInv

LEMMA NextKeepsScanInv ==
    ASSUME ScanInv, [ScanNext]_scanVars PROVE ScanInv'
<1>1. ASSUME UNCHANGED scanVars PROVE ScanInv'
    <2>1. /\ UNCHANGED <<parseVars, host, begun, next, rescanVars>> /\ on' = on /\ step' = step
        BY <1>1 DEF scanVars, shardVars
    <2>2. on \in [Child -> 0 .. Slices]
        BY DEF ScanInv, HostTypes
    <2> QED
        BY <2>1, <2>2, ParentKeeps
<1>2. ASSUME NEW s \in Scanner, Parsing(ParseLoop(s)) PROVE ScanInv'
    BY <1>2, LoopKeeps DEF Parsing
<1>3. ASSUME NEW p \in Process, Parsing(Threads(p)) PROVE ScanInv'
    BY <1>3, ThreadsKeep DEF Parsing
<1>4. ASSUME NEW f \in File, Parsing(Edit(f)) PROVE ScanInv'
    BY <1>4, EditKeeps DEF Parsing
<1>5. ASSUME NEW c \in Child, SliceBack(c) PROVE ScanInv'
    <2>1. /\ UNCHANGED <<parseVars, host, begun, next, rescanVars>> /\ on' = [on EXCEPT ![c] = 0]
          /\ step' = step /\ Through(c)
        BY <1>5 DEF SliceBack
    <2>2. on \in [Child -> 0 .. Slices] /\ Slices \in Nat
        BY SlicesNumber DEF ScanInv, HostTypes
    <2>3. on' \in [Child -> 0 .. Slices] /\ \A d \in Child : on'[d] = IF d = c THEN 0 ELSE on[d]
        BY <2>1, <2>2
    <2> QED
        BY <2>1, <2>3, ParentKeeps
<1>6. ASSUME NEW c \in Child, SliceRaises(c) PROVE ScanInv'
    <2>1. /\ UNCHANGED <<parseVars, host, begun, next, rescanVars>> /\ on' = on /\ step' = "raised"
        BY <1>6 DEF SliceRaises
    <2>2. on \in [Child -> 0 .. Slices]
        BY DEF ScanInv, HostTypes
    <2> QED
        BY <2>1, <2>2, ParentKeeps
<1>7. ASSUME Rerun PROVE ScanInv'
    <2>1. /\ UNCHANGED <<parseVars, host, begun, next, rescanVars>> /\ on' = on
          /\ step' = "raised" \/ step' = "done"
        BY <1>7 DEF Rerun
    <2>2. on \in [Child -> 0 .. Slices]
        BY DEF ScanInv, HostTypes
    <2> QED
        BY <2>1, <2>2, ParentKeeps
<1> QED
    BY <1>1, <1>2, <1>3, <1>4, <1>5, <1>6, <1>7, ServerKeeps, SerialKeeps, SlicesKeep, MergeKeeps,
       FingerprintKeeps, ArtifactKeeps
    DEF ScanNext, Over

\* The inductive invariant of the scans holds in every state.
THEOREM ScanInvariant == ScanSpec => []ScanInv
<1>1. ScanInit => ScanInv
    BY InitHasScanInv
<1>2. ScanInv /\ [ScanNext]_scanVars => ScanInv'
    BY NextKeepsScanInv
<1> QED
    BY <1>1, <1>2, PTL DEF ScanSpec

\* A file whose parse was given up, or that was too large, is counted as seen and is
\* not in the graph, when its parse ends after all as well (parse_budget.py).
THEOREM GivenUpFilesStayOut == ScanSpec => []GivenUpStaysOut
<1>1. ScanInv => GivenUpStaysOut
    <2> SUFFICES ASSUME ScanInv, NEW s \in Scanner
                 PROVE  LET n == sink[s].count IN
                        Len(sink[s].nodes) + n["parse_timeouts"] + n["files_skipped_large"] <= n["files_seen"]
        BY DEF GivenUpStaysOut
    <2> DEFINE n == sink[s].count
    <2>1. SeenAt(s) /\ sink[s] \in SinkType
        BY DEF ScanInv, SeenOnce, ParseTypes
    <2>2. PICK a, b, d \in Nat : a = n["files_seen"] /\ b = n["parse_timeouts"] /\ d = n["files_skipped_large"]
        BY <2>1 DEF SinkType, Counters
    <2>3. PICK l \in Nat, w \in {0, 1} : l = Len(sink[s].nodes) /\ w = Waiting(s)
        BY <2>1 DEF SinkType, Waiting
    <2>4. l + b + d + w <= a
        BY <2>1, <2>2, <2>3 DEF SeenAt
    <2>5. l + b + d <= a
        BY <2>2, <2>3, <2>4, SMTT(30)
    <2> QED
        BY <2>2, <2>3, <2>5
<1> QED
    BY <1>1, ScanInvariant, PTL

\* A scan that is through and says it is complete has its files.
LEMMA ThroughCovers ==
    ASSUME ScanInv, NEW s \in Scanner, s \in begun \ raised, Through(s), Complete(sink[s])
    PROVE  Covers(sink[s], FilesOf(s))
<1>1. AccountedAt(s)
    BY DEF ScanInv, Accounted
<1> QED
    BY <1>1, Nothing DEF AccountedAt, Through, Covers, NodeFiles

\* What a scan of a whole repository or share has not counted as lost is in its sink
\* when it is through (absence.py:52-61).
THEOREM ScansNameLosses == ScanSpec => []ScansNameTheirLosses
<1>1. ScanInv => ScansNameTheirLosses
    <2>1. ASSUME ScanInv, NEW w \in Ingest, w \in begun \ raised, Through(w), Complete(sink[w])
          PROVE  Covers(sink[w], Share(w))
        BY <2>1, ThroughCovers, ShardAssumption DEF FilesOf
    <2>2. ASSUME ScanInv, Compared, Serial \notin raised, Complete(sink[Serial])
          PROVE  Covers(sink[Serial], Files)
        <3>1. FilesOf(Serial) = Files
            BY ShardAssumption DEF FilesOf
        <3> QED
            BY <2>2, <3>1, ThroughCovers, ShardAssumption DEF Compared
    <2> QED
        BY <2>1, <2>2 DEF ScansNameTheirLosses
<1> QED
    BY <1>1, ScanInvariant, PTL

\* An artifact that is reused holds every file as it is now, whatever was saved while
\* it was made (scan_if_changed).
THEOREM ReuseStaysFresh == ScanSpec => ReuseIsFresh
<1>1. ASSUME ScanInv, [ScanNext]_scanVars, scans' # scans, reused', NEW n \in ToSet(artifact.nodes)
      PROVE  n[2] = version[n[1]]
    <2>1. Fingerprint
        BY <1>1 DEF ScanNext, scanVars, rescanVars, Parsing, IngestScans, SerialScans, TakesSlice,
                    SliceBack, SliceRaises, Merge, Rerun, WriteArtifact, Over
    <2>2. host = "rescan" /\ artifact.source_digest = version
        BY <1>1, <2>1 DEF Fingerprint
    <2>3. version[n[1]] <= n[2] /\ n[2] <= version[n[1]]
        BY <1>1, <2>2 DEF ScanInv, ReadAfterFingerprint, Between
    <2>4. artifact.nodes \in Seq(NodeType)
        <3>1. NoArtifact.nodes = <<>> /\ <<>> \in Seq(NodeType)
            BY DEF NoArtifact
        <3> QED
            BY <1>1, <3>1 DEF ScanInv, ReadAfterFingerprint
    <2>5. n \in NodeType
        BY <1>1, <2>4 DEF ToSet
    <2>6. n[2] \in Nat /\ version[n[1]] \in Nat
        BY <1>1, <2>5, FileNumbers DEF NodeType, Content, ScanInv, ParseTypes
    <2> QED
        BY <2>3, <2>6
<1>2. ScanInv /\ [ScanNext]_scanVars =>
          [scans' # scans /\ reused' =>
               \A n \in ToSet(artifact.nodes) : n[2] = version[n[1]]]_scanVars
    BY <1>1
<1> QED
    BY <1>2, ScanInvariant, PTL DEF ScanSpec, ReuseIsFresh

------------------------------------------------------------------------------
\* Induction on the naturals, for a set that is closed under the successor.
LEMMA AllNumbers ==
    ASSUME NEW S, 0 \in S, \A n \in Nat : n \in S => n + 1 \in S
    PROVE  Nat \subseteq S
<1> DEFINE T == Nat \ S
           R == OpToRel(<, Nat)
<1> SUFFICES ASSUME T # {} PROVE FALSE
    OBVIOUS
<1>1. PICK x \in T : \A y \in T : ~(<<y, x>> \in R)
    <2>1. IsWellFoundedOn(R, Nat)
        BY NatLessThanWellFounded
    <2>2. T \subseteq Nat
        OBVIOUS
    <2> HIDE DEF T, R
    <2> QED
        BY <2>1, <2>2, WFMin
<1>2. \A m, n \in Nat : m < n => <<m, n>> \in R
    BY DEF OpToRel
<1>3. x \in Nat /\ x # 0 /\ x - 1 \in Nat /\ x - 1 < x /\ (x - 1) + 1 = x
    OBVIOUS
<1>4. x - 1 \in S
    BY <1>1, <1>2, <1>3
<1> QED
    BY <1>3, <1>4

\* A step that is taken for 1 .. n, one after the other, has its sequence of results.
Unrolled(first, Step, n, g) ==
    g[0] = first /\ \A i \in 1 .. n : g[i] = Step[<<i, g[i - 1]>>]

LEMMA Unrolls ==
    ASSUME NEW S, NEW first \in S, NEW n \in Nat, NEW Step,
           \A i \in 1 .. n, v \in S : Step[<<i, v>>] \in S
    PROVE  \E g \in [0 .. n -> S] : Unrolled(first, Step, n, g)
<1> DEFINE Upto_(k) == \E g \in [0 .. k -> S] : Unrolled(first, Step, k, g)
           T == {k \in Nat : k <= n => Upto_(k)}
<1>1. 0 \in T
    <2>1. Unrolled(first, Step, 0, [i \in 0 .. 0 |-> first])
        BY DEF Unrolled
    <2> QED
        BY <2>1
<1>2. ASSUME NEW k \in Nat, k \in T PROVE k + 1 \in T
    <2> SUFFICES ASSUME k + 1 <= n PROVE Upto_(k + 1)
        OBVIOUS
    <2>1. PICK g \in [0 .. k -> S] : Unrolled(first, Step, k, g)
        BY <1>2
    <2> DEFINE h == [i \in 0 .. k + 1 |-> IF i <= k THEN g[i] ELSE Step[<<k + 1, g[k]>>]]
    <2>2. Step[<<k + 1, g[k]>>] \in S
        BY <2>1
    <2>3. h \in [0 .. k + 1 -> S] /\ (\A i \in 0 .. k : h[i] = g[i]) /\ h[k + 1] = Step[<<k + 1, g[k]>>]
        BY <2>1, <2>2
    <2> HIDE DEF h
    <2>4. ASSUME NEW i \in 1 .. k + 1 PROVE h[i] = Step[<<i, h[i - 1]>>]
        <3>1. CASE i = k + 1
            <4>1. i - 1 = k /\ k \in 0 .. k
                BY <3>1
            <4> QED
                BY <2>3, <3>1, <4>1
        <3>2. CASE i # k + 1
            <4>1. i \in 1 .. k /\ i \in 0 .. k /\ i - 1 \in 0 .. k
                BY <3>2
            <4> QED
                BY <2>1, <2>3, <4>1 DEF Unrolled
        <3> QED
            BY <3>1, <3>2
    <2>5. h[0] = first
        BY <2>1, <2>3 DEF Unrolled
    <2>6. Unrolled(first, Step, k + 1, h)
        BY <2>4, <2>5 DEF Unrolled
    <2> QED
        BY <2>3, <2>6
<1>3. Nat \subseteq T
    <2> HIDE DEF T
    <2> QED
        BY <1>1, <1>2, AllNumbers
<1> QED
    BY <1>3

------------------------------------------------------------------------------
\* What merge_chunk adds, node by node.
LEMMA AddNodeGives ==
    ASSUME NEW S, NEW nodes \in Seq(S), NEW n \in S
    PROVE  AddNode(nodes, n) \in Seq(S) /\ ToSet(AddNode(nodes, n)) = ToSet(nodes) \cup {n}
BY PutLast DEF AddNode

LEMMA AddedUnrolls ==
    ASSUME NEW S, NEW nodes \in Seq(S), NEW others \in Seq(S)
    PROVE  \E g \in [0 .. Len(others) -> Seq(S)] :
              /\ g[0] = nodes /\ Added(nodes, others) = g[Len(others)]
              /\ \A i \in 1 .. Len(others) : g[i] = AddNode(g[i - 1], others[i])
<1> DEFINE n == Len(others)
           Step == [x \in (1 .. n) \X Seq(S) |-> AddNode(x[2], others[x[1]])]
           Grows(f) == f = [i \in 0 .. n |-> IF i = 0 THEN nodes ELSE AddNode(f[i - 1], others[i])]
           grown == CHOOSE f : Grows(f)
<1>1. n \in Nat /\ \A i \in 1 .. n : others[i] \in S
    OBVIOUS
<1>2. \A i \in 1 .. n, v \in Seq(S) : Step[<<i, v>>] = AddNode(v, others[i]) /\ Step[<<i, v>>] \in Seq(S)
    BY <1>1, AddNodeGives
<1>3. Added(nodes, others) = grown[n]
    BY DEF Added
<1> HIDE DEF n, Step
<1>4. PICK g \in [0 .. n -> Seq(S)] : Unrolled(nodes, Step, n, g)
    BY <1>1, <1>2, Unrolls
<1>5. ASSUME NEW i \in 0 .. n PROVE g[i] = IF i = 0 THEN nodes ELSE AddNode(g[i - 1], others[i])
    <2>1. CASE i = 0
        BY <1>4, <2>1 DEF Unrolled
    <2>2. CASE i # 0
        <3>1. i \in 1 .. n /\ i - 1 \in 0 .. n
            BY <1>1, <2>2
        <3>2. g[i] = Step[<<i, g[i - 1]>>] /\ g[i - 1] \in Seq(S)
            BY <1>4, <3>1 DEF Unrolled
        <3> QED
            BY <1>2, <2>2, <3>1, <3>2
    <2> QED
        BY <2>1, <2>2
<1>6. Grows(g)
    BY <1>4, <1>5
<1>7. Grows(grown)
    <2> HIDE DEF Grows
    <2> QED
        BY <1>6
<1> HIDE DEF grown
<1>8. /\ grown[0] = nodes /\ DOMAIN grown = 0 .. n /\ grown = [i \in 0 .. n |-> grown[i]]
      /\ \A i \in 1 .. n : grown[i] = AddNode(grown[i - 1], others[i])
    <2>1. DOMAIN grown = 0 .. n /\ grown = [i \in 0 .. n |-> grown[i]]
        BY <1>7
    <2>2. \A i \in 0 .. n : grown[i] = IF i = 0 THEN nodes ELSE AddNode(grown[i - 1], others[i])
        BY <1>7
    <2> HIDE DEF Grows
    <2>3. 0 \in 0 .. n /\ \A i \in 1 .. n : i \in 0 .. n /\ i # 0
        BY <1>1
    <2> QED
        BY <2>1, <2>2, <2>3
<1>9. \A i \in 0 .. n : grown[i] \in Seq(S)
    <2> DEFINE T == {i \in Nat : i <= n => grown[i] \in Seq(S)}
    <2>1. 0 \in T
        BY <1>8
    <2>2. ASSUME NEW i \in Nat, i \in T PROVE i + 1 \in T
        <3> SUFFICES ASSUME i + 1 <= n PROVE grown[i + 1] \in Seq(S)
            OBVIOUS
        <3>1. i + 1 \in 1 .. n /\ (i + 1) - 1 = i /\ grown[i] \in Seq(S)
            BY <1>1, <2>2
        <3>2. grown[i + 1] = AddNode(grown[i], others[i + 1])
            BY <1>8, <3>1
        <3>3. others[i + 1] \in S
            BY <1>1, <3>1
        <3>4. AddNode(grown[i], others[i + 1]) \in Seq(S)
            BY <3>1, <3>3, AddNodeGives
        <3> QED
            BY <3>2, <3>4
    <2>3. Nat \subseteq T
        <3> HIDE DEF T
        <3> QED
            BY <2>1, <2>2, AllNumbers
    <2> QED
        BY <1>1, <2>3
<1>10. grown \in [0 .. n -> Seq(S)]
    BY <1>8, <1>9
<1> QED
    BY <1>3, <1>8, <1>10 DEF n

\* It keeps what is there and adds all of the others.
LEMMA AddedGives ==
    ASSUME NEW S, NEW nodes \in Seq(S), NEW others \in Seq(S)
    PROVE  /\ Added(nodes, others) \in Seq(S)
           /\ ToSet(Added(nodes, others)) = ToSet(nodes) \cup ToSet(others)
<1>1. PICK g \in [0 .. Len(others) -> Seq(S)] :
          /\ g[0] = nodes /\ Added(nodes, others) = g[Len(others)]
          /\ \A i \in 1 .. Len(others) : g[i] = AddNode(g[i - 1], others[i])
    BY AddedUnrolls
<1> DEFINE n == Len(others)
           First(k) == {others[i] : i \in 1 .. k}
           T == {k \in Nat : k <= n => ToSet(g[k]) = ToSet(nodes) \cup First(k)}
<1>2. n \in Nat /\ (\A i \in 1 .. n : others[i] \in S) /\ First(n) = ToSet(others)
    BY DEF ToSet
<1> HIDE DEF n
<1>3. 0 \in T
    BY <1>1
<1>4. ASSUME NEW k \in Nat, k \in T PROVE k + 1 \in T
    <2> SUFFICES ASSUME k + 1 <= n PROVE ToSet(g[k + 1]) = ToSet(nodes) \cup First(k + 1)
        OBVIOUS
    <2>1. k + 1 \in 1 .. n /\ (k + 1) - 1 = k /\ k \in 0 .. n /\ k <= n
        BY <1>2
    <2>2. g[k + 1] = AddNode(g[k], others[k + 1]) /\ g[k] \in Seq(S) /\ others[k + 1] \in S
        BY <1>1, <1>2, <2>1 DEF n
    <2>3. ToSet(g[k + 1]) = ToSet(g[k]) \cup {others[k + 1]}
        <3> DEFINE v == g[k]
                   e == others[k + 1]
        <3>1. v \in Seq(S) /\ e \in S /\ g[k + 1] = AddNode(v, e)
            BY <2>2
        <3> HIDE DEF v, e
        <3>2. ToSet(AddNode(v, e)) = ToSet(v) \cup {e}
            BY <3>1, AddNodeGives
        <3> QED
            BY <3>1, <3>2 DEF v, e
    <2>4. 1 .. k + 1 = (1 .. k) \cup {k + 1}
        OBVIOUS
    <2>5. First(k + 1) = First(k) \cup {others[k + 1]}
        BY <2>4
    <2>6. ToSet(g[k]) = ToSet(nodes) \cup First(k)
        BY <1>4, <2>1
    <2> HIDE DEF First
    <2> QED
        BY <2>3, <2>5, <2>6
<1>5. Nat \subseteq T
    <2> HIDE DEF T
    <2> QED
        BY <1>3, <1>4, AllNumbers
<1>6. ToSet(g[n]) = ToSet(nodes) \cup First(n)
    <2> HIDE DEF First
    <2> QED
        BY <1>2, <1>5
<1> QED
    BY <1>1, <1>2, <1>6 DEF n

\* What merge_chunks makes of the chunks, one after the other.
LEMMA MergeChunkGives ==
    ASSUME NEW k \in SinkType, NEW chunk \in SinkType
    PROVE  /\ MergeChunk(k, chunk) \in SinkType
           /\ MergeChunk(k, chunk).nodes = Added(k.nodes, chunk.nodes)
           /\ \A c \in Counters : MergeChunk(k, chunk).count[c] = k.count[c] + chunk.count[c]
<1>1. Added(k.nodes, chunk.nodes) \in Seq(NodeType)
    BY AddedGives DEF SinkType
<1> DEFINE both == [c \in Counters |-> k.count[c] + chunk.count[c]]
           all == Added(k.nodes, chunk.nodes)
<1>2. MergeChunk(k, chunk) = [k EXCEPT !.nodes = all, !.count = both]
    BY DEF MergeChunk
<1>3. both \in [Counters -> Nat] /\ \A c \in Counters : both[c] = k.count[c] + chunk.count[c]
    BY DEF SinkType
<1> HIDE DEF both, all
<1>4. all \in Seq(NodeType)
    BY <1>1 DEF all
<1> QED
    BY <1>2, <1>3, <1>4 DEF SinkType, all

MergedTo(m) ==
    /\ m[0] = EmptySink(0) /\ Merged = m[Slices]
    /\ \A i \in 1 .. Slices : m[i] = MergeChunk(m[i - 1], chunks[i])

LEMMA MergedUnrolls ==
    ASSUME chunks \in [1 .. Slices -> SinkType]
    PROVE  \E m \in [0 .. Slices -> SinkType] : MergedTo(m)
<1> DEFINE n == Slices
           Step == [x \in (1 .. n) \X SinkType |-> MergeChunk(x[2], chunks[x[1]])]
           Merges(f) == f = [i \in 0 .. n |-> IF i = 0 THEN EmptySink(0)
                                              ELSE MergeChunk(f[i - 1], chunks[i])]
           merged == CHOOSE f : Merges(f)
<1>1. n \in Nat /\ (\A i \in 1 .. n : chunks[i] \in SinkType) /\ EmptySink(0) \in SinkType
    BY SlicesNumber DEF EmptySink, SinkType
<1>2. \A i \in 1 .. n, v \in SinkType : Step[<<i, v>>] = MergeChunk(v, chunks[i]) /\ Step[<<i, v>>] \in SinkType
    BY <1>1, MergeChunkGives
<1>3. Merged = merged[n]
    BY DEF Merged
<1> HIDE DEF n, Step
<1>4. PICK g \in [0 .. n -> SinkType] : Unrolled(EmptySink(0), Step, n, g)
    BY <1>1, <1>2, Unrolls
<1>5. ASSUME NEW i \in 0 .. n PROVE g[i] = IF i = 0 THEN EmptySink(0) ELSE MergeChunk(g[i - 1], chunks[i])
    <2>1. CASE i = 0
        BY <1>4, <2>1 DEF Unrolled
    <2>2. CASE i # 0
        <3>1. i \in 1 .. n /\ i - 1 \in 0 .. n
            BY <1>1, <2>2
        <3>2. g[i] = Step[<<i, g[i - 1]>>] /\ g[i - 1] \in SinkType
            BY <1>4, <3>1 DEF Unrolled
        <3> QED
            BY <1>2, <2>2, <3>1, <3>2
    <2> QED
        BY <2>1, <2>2
<1>6. Merges(g)
    BY <1>4, <1>5
<1>7. Merges(merged)
    <2> HIDE DEF Merges
    <2> QED
        BY <1>6
<1> HIDE DEF merged
<1>8. /\ merged[0] = EmptySink(0) /\ DOMAIN merged = 0 .. n /\ merged = [i \in 0 .. n |-> merged[i]]
      /\ \A i \in 1 .. n : merged[i] = MergeChunk(merged[i - 1], chunks[i])
    <2>1. DOMAIN merged = 0 .. n /\ merged = [i \in 0 .. n |-> merged[i]]
        BY <1>7
    <2>2. \A i \in 0 .. n : merged[i] = IF i = 0 THEN EmptySink(0) ELSE MergeChunk(merged[i - 1], chunks[i])
        BY <1>7
    <2> HIDE DEF Merges
    <2>3. 0 \in 0 .. n /\ \A i \in 1 .. n : i \in 0 .. n /\ i # 0
        BY <1>1
    <2> QED
        BY <2>1, <2>2, <2>3
<1>9. \A i \in 0 .. n : merged[i] \in SinkType
    <2> DEFINE T == {i \in Nat : i <= n => merged[i] \in SinkType}
    <2>1. 0 \in T
        BY <1>1, <1>8
    <2>2. ASSUME NEW i \in Nat, i \in T PROVE i + 1 \in T
        <3> SUFFICES ASSUME i + 1 <= n PROVE merged[i + 1] \in SinkType
            OBVIOUS
        <3>1. i + 1 \in 1 .. n /\ (i + 1) - 1 = i /\ merged[i] \in SinkType
            BY <1>1, <2>2
        <3>2. merged[i + 1] = MergeChunk(merged[i], chunks[i + 1])
            BY <1>8, <3>1
        <3>3. chunks[i + 1] \in SinkType
            BY <1>1, <3>1
        <3>4. MergeChunk(merged[i], chunks[i + 1]) \in SinkType
            BY <3>1, <3>3, MergeChunkGives
        <3> QED
            BY <3>2, <3>4
    <2>3. Nat \subseteq T
        <3> HIDE DEF T
        <3> QED
            BY <2>1, <2>2, AllNumbers
    <2> QED
        BY <1>1, <2>3
<1>10. merged \in [0 .. n -> SinkType]
    BY <1>8, <1>9
<1> QED
    BY <1>3, <1>8, <1>10 DEF n, MergedTo

\* The merge has every chunk's nodes, and counts no less than any of them.
LEMMA MergedGives ==
    ASSUME chunks \in [1 .. Slices -> SinkType]
    PROVE  /\ Merged \in SinkType
           /\ \A i \in 1 .. Slices : /\ ToSet(chunks[i].nodes) \subseteq ToSet(Merged.nodes)
                                    /\ \A c \in Counters : chunks[i].count[c] <= Merged.count[c]
<1>1. PICK m \in [0 .. Slices -> SinkType] : MergedTo(m)
    BY MergedUnrolls
<1> DEFINE Has(k) == \A i \in 1 .. k : /\ ToSet(chunks[i].nodes) \subseteq ToSet(m[k].nodes)
                                       /\ \A c \in Counters : chunks[i].count[c] <= m[k].count[c]
           T == {k \in Nat : k <= Slices => Has(k)}
<1>2. 0 \in T
    OBVIOUS
<1>3. ASSUME NEW k \in Nat, k \in T PROVE k + 1 \in T
    <2> SUFFICES ASSUME k + 1 <= Slices PROVE Has(k + 1)
        OBVIOUS
    <2> DEFINE v == m[k]
               w == m[k + 1]
               chunk == chunks[k + 1]
    <2>1. k + 1 \in 1 .. Slices /\ (k + 1) - 1 = k /\ k \in 0 .. Slices /\ k <= Slices /\ Has(k)
        BY <1>3, SlicesNumber
    <2>2. v \in SinkType /\ chunk \in SinkType /\ w = MergeChunk(v, chunk)
        BY <1>1, <2>1 DEF MergedTo
    <2>3. ASSUME NEW i \in 1 .. k + 1
          PROVE  /\ ToSet(chunks[i].nodes) \subseteq ToSet(v.nodes) \cup ToSet(chunk.nodes)
                 /\ \A c \in Counters : chunks[i].count[c] <= v.count[c] \/ chunks[i].count[c] = chunk.count[c]
        <3>1. CASE i = k + 1
            BY <3>1
        <3>2. CASE i # k + 1
            <4>1. i \in 1 .. k
                BY <3>2
            <4> QED
                BY <2>1, <4>1
        <3> QED
            BY <3>1, <3>2
    <2>4. \A i \in 1 .. k + 1 : chunks[i] \in SinkType
        BY <2>1, SlicesNumber
    <2> HIDE DEF v, w, chunk
    <2>5. /\ w.nodes = Added(v.nodes, chunk.nodes)
          /\ \A c \in Counters : w.count[c] = v.count[c] + chunk.count[c]
        BY <2>2, MergeChunkGives
    <2>6. ToSet(w.nodes) = ToSet(v.nodes) \cup ToSet(chunk.nodes)
        BY <2>2, <2>5, AddedGives DEF SinkType
    <2>7. ASSUME NEW i \in 1 .. k + 1, NEW c \in Counters PROVE chunks[i].count[c] <= w.count[c]
        <3>1. chunks[i].count[c] \in Nat /\ v.count[c] \in Nat /\ chunk.count[c] \in Nat
            BY <2>2, <2>4 DEF SinkType
        <3> QED
            BY <2>3, <2>5, <3>1
    <2> QED
        BY <2>3, <2>6, <2>7 DEF w
<1>4. Nat \subseteq T
    <2> HIDE DEF T
    <2> QED
        BY <1>2, <1>3, AllNumbers
<1>5. Has(Slices) /\ m[Slices] \in SinkType
    BY <1>4, SlicesNumber
<1> QED
    BY <1>1, <1>5 DEF MergedTo

\* Every file is in a slice.
LEMMA AllSliced ==
    ASSUME NEW f \in ToSet(Files)
    PROVE  \E i \in 1 .. Slices : f \in ToSet(Slice(i))
<1> DEFINE q == (f - 1) \div ChunkFiles
           n == Len(Files)
<1>1. f \in Nat \ {0} /\ f <= n /\ n \in Nat /\ ChunkFiles \in Nat \ {0} /\ Slices \in Nat
    BY FileNumbers, SlicesNumber, ShardAssumption
<1>2. q \in Nat /\ f - 1 = q * ChunkFiles + ((f - 1) % ChunkFiles) /\ (f - 1) % ChunkFiles \in 0 .. ChunkFiles - 1
    <2>1. f - 1 \in Nat
        BY <1>1
    <2> QED
        BY <1>1, <2>1, Division
<1>3. PICK r \in 0 .. ChunkFiles - 1 : f - 1 = q * ChunkFiles + r
    BY <1>2
<1> HIDE DEF q, n
<1>4. q * ChunkFiles \in Nat /\ (q + 1) * ChunkFiles = q * ChunkFiles + ChunkFiles
    BY <1>1, <1>2
<1>5. q + 1 <= Slices
    <2>1. n <= Slices * ChunkFiles
        BY SliceEnds DEF n
    <2>2. q + 1 > Slices => Slices * ChunkFiles <= q * ChunkFiles
        BY <1>1, <1>2
    <2>3. Slices * ChunkFiles \in Nat
        BY <1>1
    <2> QED
        BY <1>1, <1>2, <1>3, <1>4, <2>1, <2>2, <2>3
<1>6. q + 1 \in 1 .. Slices /\ Upto((q + 1) - 1) = q * ChunkFiles /\ Upto(q + 1) = q * ChunkFiles + ChunkFiles
    BY <1>1, <1>2, <1>4, <1>5 DEF Upto
<1>7. q + 1 # Slices => Upto(q + 1) <= n
    <2>1. (Slices - 1) * ChunkFiles <= n
        BY <1>1, <1>5, SliceEnds DEF n
    <2> QED
        BY <1>1, <1>2, <1>5, <1>6, <2>1 DEF Upto
<1>8. /\ Slice(q + 1) \in Seq(File)
      /\ Len(Slice(q + 1)) = (IF q + 1 = Slices THEN n ELSE Upto(q + 1)) - Upto((q + 1) - 1)
      /\ \A k \in 1 .. Len(Slice(q + 1)) : Slice(q + 1)[k] = Upto((q + 1) - 1) + k
    BY <1>1, <1>2, <1>5, SliceFacts DEF n
<1>9. r + 1 \in 1 .. Len(Slice(q + 1)) /\ Slice(q + 1)[r + 1] = f
    <2>1. Len(Slice(q + 1)) = (IF q + 1 = Slices THEN n ELSE q * ChunkFiles + ChunkFiles) - q * ChunkFiles
        BY <1>6, <1>8
    <2>2. r + 1 \in 1 .. Len(Slice(q + 1))
        BY <1>1, <1>3, <1>4, <2>1
    <2>3. Slice(q + 1)[r + 1] = Upto((q + 1) - 1) + (r + 1)
        BY <1>8, <2>2
    <2>4. q * ChunkFiles + (r + 1) = f
        BY <1>1, <1>3, <1>4
    <2> QED
        BY <1>6, <2>2, <2>3, <2>4
<1>10. DOMAIN Slice(q + 1) = 1 .. Len(Slice(q + 1))
    BY <1>8
<1> QED
    BY <1>6, <1>9, <1>10 DEF ToSet
------------------------------------------------------------------------------
\* What the parent of a sharded scan holds: a slice that is handed out and on no
\* child has come back with its files, or shows what it lost.
MergeInv ==
    /\ chunks \in [1 .. Slices -> SinkType]
    /\ \A i \in 1 .. Slices :
           i < next /\ (\A c \in Child : on[c] # i) /\ Complete(chunks[i]) =>
               Covers(chunks[i], Slice(i))
    /\ \A c \in Child : on[c] # 0 => host = "sharded" /\ c \in begun
    /\ step = "rerun" => host = "sharded" /\ Parent \in begun
    /\ step = "done" /\ Complete(result) => Covers(result, Files)

\* Only the steps of a sharded scan's parent concern what it holds.
LEMMA MergeInvStays ==
    ASSUME MergeInv, UNCHANGED <<nature, host, on, chunks, step, result>>,
           next' = next, host = "sharded" => begun \subseteq begun'
    PROVE  MergeInv'
BY DEF MergeInv, Covers, Complete

\* The slice of a child that is through.
LEMMA BackKeepsMerge ==
    ASSUME ScanInv, MergeInv, NEW c \in Child, SliceBack(c)
    PROVE  MergeInv'
<1>1. /\ on[c] # 0 /\ Through(c) /\ c \notin raised /\ chunks' = [chunks EXCEPT ![on[c]] = sink[c]]
      /\ on' = [on EXCEPT ![c] = 0] /\ nature' = nature /\ host' = host /\ begun' = begun
      /\ next' = next /\ step' = step /\ result' = result /\ step = "map"
    BY DEF SliceBack, BackAt, parseVars, inputs
<1>2. /\ c \in Scanner /\ c \notin Ingest /\ on \in [Child -> 0 .. Slices] /\ Slices \in Nat
      /\ chunks \in [1 .. Slices -> SinkType] /\ sink[c] \in SinkType
    BY ShardAssumption, SlicesNumber DEF ScanInv, HostTypes, ParseTypes, MergeInv
<1>3. on[c] \in 1 .. Slices
    BY <1>1, <1>2
<1>4. /\ chunks' \in [1 .. Slices -> SinkType]
      /\ \A i \in 1 .. Slices : chunks'[i] = IF i = on[c] THEN sink[c] ELSE chunks[i]
      /\ \A d \in Child : on'[d] = IF d = c THEN 0 ELSE on[d]
    BY <1>1, <1>2, <1>3
<1>5. Complete(sink[c]) => Covers(sink[c], Slice(on[c]))
    <2>1. FilesOf(c) = Slice(on[c])
        BY <1>1, <1>2 DEF FilesOf
    <2> QED
        BY <1>1, <1>2, <2>1, ThroughCovers DEF MergeInv
<1>6. ASSUME NEW i \in 1 .. Slices, i < next, \A d \in Child : on'[d] # i, Complete(chunks'[i])
      PROVE  Covers(chunks'[i], Slice(i))
    <2>1. CASE i = on[c]
        BY <1>4, <1>5, <1>6, <2>1
    <2>2. CASE i # on[c]
        <3>1. chunks'[i] = chunks[i] /\ \A d \in Child : on[d] # i
            BY <1>4, <1>6, <2>2
        <3> QED
            BY <1>6, <3>1 DEF MergeInv
    <2> QED
        BY <2>1, <2>2
<1>7. \A i \in 1 .. Slices :
          i < next' /\ (\A d \in Child : on'[d] # i) /\ Complete(chunks'[i]) => Covers(chunks[i], Slice(i))'
    BY <1>1, <1>6 DEF Covers
<1> QED
    BY <1>1, <1>4, <1>7 DEF MergeInv

\* A child takes the next slice.
LEMMA TakesKeepsMerge ==
    ASSUME ScanInv, MergeInv, NEW c \in Child, TakesSlice(c)
    PROVE  MergeInv'
<1>1. /\ host = "sharded" /\ on' = [on EXCEPT ![c] = next] /\ next' = next + 1 /\ next <= Slices
      /\ on[c] = 0 /\ step = "map"
      /\ begun' = begun \cup {c} /\ nature' = nature /\ host' = host /\ chunks' = chunks
      /\ step' = step /\ result' = result
    BY DEF TakesSlice, Begin, inputs
<1>2. /\ on \in [Child -> 0 .. Slices] /\ next \in Nat \ {0} /\ Slices \in Nat
    BY SlicesNumber DEF ScanInv, HostTypes
<1>3. \A d \in Child : on'[d] = IF d = c THEN next ELSE on[d]
    BY <1>1, <1>2
<1>4. ASSUME NEW i \in 1 .. Slices, i < next', \A d \in Child : on'[d] # i, Complete(chunks[i])
      PROVE  Covers(chunks[i], Slice(i))'
    <2>1. i # next /\ \A d \in Child : on[d] # i
        BY <1>1, <1>2, <1>3, <1>4
    <2>2. i < next
        BY <1>1, <1>2, <1>4, <2>1
    <2>3. Covers(chunks[i], Slice(i))
        BY <1>4, <2>1, <2>2 DEF MergeInv
    <2> QED
        BY <1>1, <2>3 DEF Covers
<1> QED
    BY <1>1, <1>3, <1>4 DEF MergeInv, Complete

\* The slices are merged, or the scan begins again in the parent.
LEMMA MergeKeepsMerge ==
    ASSUME ScanInv, MergeInv, Merge
    PROVE  MergeInv'
<1>1. /\ host = "sharded" /\ next > Slices /\ (\A c \in Child : on[c] = 0) /\ Slices \in Nat
      /\ next \in Nat /\ next' = next /\ on' = on /\ chunks' = chunks /\ host' = host /\ nature' = nature
    BY SlicesNumber DEF Merge, ScanInv, HostTypes, Begin, parseVars, inputs
<1>2. CASE Begin(Parent, Files, MaxClaims) /\ step' = "rerun" /\ UNCHANGED result
    BY <1>1, <1>2 DEF MergeInv, Covers, Complete, Begin
<1>3. CASE /\ result' = [Merged EXCEPT !.max_claims = MaxClaims]
           /\ step' = "done" /\ UNCHANGED <<parseVars, begun>>
    <2>1. /\ Merged \in SinkType
          /\ \A i \in 1 .. Slices : /\ ToSet(chunks[i].nodes) \subseteq ToSet(Merged.nodes)
                                   /\ \A c \in Counters : chunks[i].count[c] <= Merged.count[c]
        BY MergedGives DEF MergeInv
    <2>2. result'.nodes = Merged.nodes /\ result'.count = Merged.count
        BY <1>3, <2>1 DEF SinkType
    <2>3. ASSUME Complete(result'), NEW f \in ToSet(Files), nature[f] # "swallowed"
          PROVE  f \in {n[1] : n \in ToSet(result'.nodes)}
        <3>1. PICK i \in 1 .. Slices : f \in ToSet(Slice(i))
            BY AllSliced
        <3>2. Complete(chunks[i])
            <4>1. {"parse_errors", "files_skipped_large", "parse_timeouts", "capped"} \subseteq Counters
                BY DEF Counters
            <4>2. \A c \in {"parse_errors", "files_skipped_large", "parse_timeouts", "capped"} :
                      Merged.count[c] = 0
                BY <2>2, <2>3 DEF Complete
            <4>3. \A c \in Counters : chunks[i].count[c] \in Nat /\ chunks[i].count[c] <= Merged.count[c]
                BY <2>1 DEF MergeInv, SinkType
            <4>4. \A c \in {"parse_errors", "files_skipped_large", "parse_timeouts", "capped"} :
                      chunks[i].count[c] = 0
                BY <4>1, <4>2, <4>3
            <4> QED
                BY <4>4 DEF Complete
        <3>3. i < next /\ \A c \in Child : on[c] # i
            BY <1>1
        <3>4. Covers(chunks[i], Slice(i))
            BY <3>2, <3>3 DEF MergeInv
        <3>5. f \in {n[1] : n \in ToSet(chunks[i].nodes)}
            BY <2>3, <3>1, <3>4 DEF Covers
        <3> QED
            BY <2>1, <2>2, <3>5
    <2>4. Complete(result') => Covers(result, Files)'
        BY <1>1, <2>3 DEF Covers
    <2>5. begun' = begun
        BY <1>3
    <2> QED
        BY <1>1, <1>3, <2>4, <2>5 DEF MergeInv, Covers, Complete
<1> QED
    BY <1>2, <1>3 DEF Merge

LEMMA NextKeepsMergeInv ==
    ASSUME ScanInv, MergeInv, [ScanNext]_scanVars
    PROVE  MergeInv'
<1>1. CASE Rerun
    <2>1. /\ step = "rerun" /\ Through(Parent) /\ result' = sink[Parent]
          /\ (step' = "done" <=> Parent \notin raised) /\ step' # "rerun"
          /\ nature' = nature /\ host' = host /\ begun' = begun /\ next' = next /\ on' = on /\ chunks' = chunks
        BY <1>1 DEF Rerun, parseVars, inputs
    <2>2. Parent \in Scanner /\ Parent \in begun /\ FilesOf(Parent) = Files
        BY <2>1, ShardAssumption DEF MergeInv, FilesOf
    <2>3. step' = "done" /\ Complete(result') => Covers(sink[Parent], Files)
        BY <2>1, <2>2, ThroughCovers
    <2> QED
        BY <2>1, <2>3 DEF MergeInv, Covers, Complete
<1>2. ASSUME NEW c \in Child, SliceRaises(c) PROVE MergeInv'
    BY <1>2 DEF SliceRaises, parseVars, inputs, MergeInv, Covers, Complete
<1>3. ASSUME NEW s \in Scanner, Parsing(ParseLoop(s)) PROVE MergeInv'
    BY <1>3, MergeInvStays DEF Parsing, ParseLoop, NextFile, StopAtCap, GivesUp, inputs, shardVars
<1>4. ASSUME NEW p \in Process, Parsing(Threads(p)) PROVE MergeInv'
    <2>1. PICK t \in DOMAIN pool[p].thread : ThreadTakes(p, t) \/ ThreadEnds(p, t)
        BY <1>4 DEF Parsing, Threads
    <2>2. nature' = nature
        BY <2>1 DEF ThreadTakes, ThreadEnds, inputs
    <2> QED
        BY <1>4, <2>2, MergeInvStays DEF Parsing, shardVars
<1>5. ASSUME NEW f \in File, Parsing(Edit(f)) PROVE MergeInv'
    BY <1>5, MergeInvStays DEF Parsing, Edit, inputs, shardVars
<1>6. ASSUME NEW w \in Ingest, IngestScans(w) PROVE MergeInv'
    BY <1>6, MergeInvStays DEF IngestScans, Begin, inputs
<1>7. CASE SerialScans
    BY <1>7, MergeInvStays DEF SerialScans, Begin, inputs
<1>8. CASE Fingerprint
    BY <1>8, MergeInvStays DEF Fingerprint, Begin, inputs, parseVars
<1>9. CASE WriteArtifact
    BY <1>9, MergeInvStays DEF WriteArtifact, inputs, parseVars
<1>10. CASE UNCHANGED scanVars
    BY <1>10, MergeInvStays DEF scanVars, shardVars, parseVars, inputs
<1> QED
    BY <1>1, <1>2, <1>3, <1>4, <1>5, <1>6, <1>7, <1>8, <1>9, <1>10,
       BackKeepsMerge, TakesKeepsMerge, MergeKeepsMerge DEF ScanNext, Over

LEMMA InitHasMergeInv ==
    ASSUME ScanInit PROVE MergeInv
<1>1. EmptySink(0) \in SinkType
    BY DEF EmptySink, SinkType
<1> QED
    BY <1>1 DEF ScanInit, MergeInv, NotBack

\* When the absence report of a scan says it is complete, every file it looked at is
\* in the graph, however it was scanned (absence.py:52-61).
THEOREM EveryLossIsNamed == ScanSpec => []LossesAreNamed
<1>1. ScanInit => MergeInv
    BY InitHasMergeInv
<1>2. ScanInv /\ MergeInv /\ [ScanNext]_scanVars => MergeInv'
    BY NextKeepsMergeInv
<1>3. ScansNameTheirLosses /\ MergeInv => LossesAreNamed
    BY DEF LossesAreNamed, MergeInv
<1> QED
    BY <1>1, <1>2, <1>3, ScanInvariant, ScansNameLosses, PTL DEF ScanSpec

------------------------------------------------------------------------------
\* What is ahead of a scanner only shrinks.
LEMMA TailInjective ==
    ASSUME NEW S, NEW s \in Seq(S), s # <<>>, IsInjective(s)
    PROVE  IsInjective(Tail(s)) /\ Head(s) \notin ToSet(Tail(s))
<1>1. /\ DOMAIN s = 1 .. Len(s) /\ DOMAIN Tail(s) = 1 .. Len(Tail(s)) /\ Len(s) \in Nat \ {0}
      /\ Len(Tail(s)) = Len(s) - 1 /\ Head(s) = s[1] /\ 1 \in 1 .. Len(s)
      /\ \A i \in 1 .. Len(Tail(s)) : i + 1 \in 1 .. Len(s) /\ Tail(s)[i] = s[i + 1]
    <2>1. Tail(s) \in Seq(S)
        BY TakeFirst
    <2> QED
        BY <2>1, TakeFirst
<1>2. \A i, j \in 1 .. Len(s) : s[i] = s[j] => i = j
    BY <1>1 DEF IsInjective
<1>3. IsInjective(Tail(s))
    <2> SUFFICES ASSUME NEW i \in 1 .. Len(Tail(s)), NEW j \in 1 .. Len(Tail(s)), Tail(s)[i] = Tail(s)[j]
                 PROVE  i = j
        BY <1>1 DEF IsInjective
    <2>1. i + 1 = j + 1
        BY <1>1, <1>2
    <2> QED
        BY <2>1
<1>4. ASSUME NEW i \in 1 .. Len(Tail(s)) PROVE Tail(s)[i] # Head(s)
    <2>1. i + 1 # 1
        OBVIOUS
    <2> QED
        BY <1>1, <1>2, <2>1
<1> QED
    BY <1>1, <1>3, <1>4 DEF ToSet

Moves ==
    /\ next' = next /\ begun' = begun
    /\ \A s \in Scanner : \/ todo'[s] = todo[s] \/ todo'[s] = <<>>
                          \/ todo[s] # <<>> /\ todo'[s] = Tail(todo[s])

LEMMA MovesKeepTidy ==
    ASSUME ParseTypes, Tidy, Moves
    PROVE  Tidy' /\ \A s \in Scanner : Ahead(s)' \subseteq Ahead(s)
<1>1. ASSUME NEW s \in Scanner PROVE IsInjective(todo'[s]) /\ ToSet(todo'[s]) \subseteq ToSet(todo[s])
    <2>1. todo[s] \in Seq(File) /\ IsInjective(todo[s])
        BY DEF ParseTypes, Tidy
    <2>2. CASE todo'[s] = todo[s]
        BY <2>1, <2>2
    <2>3. CASE todo'[s] = <<>>
        BY <2>3 DEF IsInjective, ToSet
    <2>4. CASE todo[s] # <<>> /\ todo'[s] = Tail(todo[s])
        BY <2>1, <2>4, TakeFirst, TailInjective
    <2> QED
        BY <2>2, <2>3, <2>4 DEF Moves
<1>2. Ingest \subseteq Scanner /\ Child \subseteq Scanner
    BY ShardAssumption
<1>3. Tidy'
    BY <1>1, <1>2 DEF Tidy, Moves, Upto
<1>4. ASSUME NEW s \in Scanner PROVE Ahead(s)' \subseteq Ahead(s)
    BY <1>1 DEF Ahead, Moves, Upto
<1> QED
    BY <1>3, <1>4

\* What a scanner is to begin with was ahead of it already.
BeginsOwn(s, files) ==
    /\ s \notin Child => next' = next /\ s \notin begun
    /\ s \in Ingest => files = Share(s)
    /\ s \in {Serial, Parent} => files = Files
    /\ s \in Child => files = Slice(next) /\ next <= Slices /\ next' = next + 1

LEMMA BeginsKeepTidy ==
    ASSUME ParseTypes, HostTypes, Tidy, NEW s \in Scanner, NEW files, BeginsOwn(s, files),
           todo'[s] = files, \A z \in Scanner : z # s => todo'[z] = todo[z],
           begun' = begun \cup {s}
    PROVE  Tidy' /\ \A z \in Scanner : Ahead(z)' \subseteq Ahead(z)
<1>1. /\ Ingest \subseteq Scanner /\ Child \subseteq Scanner /\ Scanner = Ingest \cup {Serial, Parent} \cup Child
      /\ {Serial, Parent} \cap Child = {} /\ Ingest \cap ({Serial, Parent} \cup Child) = {}
    BY ShardAssumption
<1>2. /\ next \in Nat \ {0} /\ Upto(next - 1) \in Nat /\ Upto(next) \in Nat /\ Upto(next - 1) <= Upto(next)
      /\ \A f \in File : f \in Nat
    <2>1. next - 1 \in Nat /\ next \in Nat /\ ChunkFiles \in Nat /\ next \in Nat \ {0}
        BY ShardAssumption DEF HostTypes
    <2>2. next * ChunkFiles = (next - 1) * ChunkFiles + ChunkFiles /\ (next - 1) * ChunkFiles \in Nat
        BY <2>1
    <2> QED
        BY <2>1, <2>2, FileNumbers DEF Upto
<1>3. Upto(next' - 1) >= Upto(next - 1)
    <2>1. CASE next' = next
        BY <1>2, <2>1
    <2>2. CASE next' = next + 1
        <3>1. next' - 1 = next
            BY <1>2, <2>2
        <3> QED
            BY <1>2, <3>1
    <2> QED
        BY <2>1, <2>2 DEF BeginsOwn
<1>4. s \in Child => /\ files \in Seq(File) /\ next' - 1 = next
                     /\ \A k \in 1 .. Len(files) : files[k] = Upto(next - 1) + k
                     /\ \A f \in ToSet(files) : f > Upto(next - 1) /\ f <= Upto(next)
    BY <1>2, SliceFacts DEF BeginsOwn
<1>5. ToSet(files) \subseteq Ahead(s)
    <2>1. CASE s \in Ingest
        BY <1>1, <2>1 DEF BeginsOwn, Ahead
    <2>2. CASE s \in {Serial, Parent}
        BY <1>1, <2>2, FileNumbers DEF BeginsOwn, Ahead
    <2>3. CASE s \in Child
        <3>1. \A f \in ToSet(files) : f \in File
            BY <1>4, <2>3 DEF ToSet
        <3> QED
            BY <1>4, <2>3, <3>1 DEF Ahead
    <2> QED
        BY <1>1, <2>1, <2>2, <2>3
<1>6. IsInjective(files)
    <2>1. CASE s \in Ingest
        BY <2>1, ShardAssumption DEF BeginsOwn
    <2>2. CASE s \in {Serial, Parent}
        BY <2>2, FileNumbers DEF BeginsOwn, IsInjective
    <2>3. CASE s \in Child
        <3>1. DOMAIN files = 1 .. Len(files)
            BY <1>4, <2>3
        <3> SUFFICES ASSUME NEW i \in 1 .. Len(files), NEW j \in 1 .. Len(files), files[i] = files[j]
                     PROVE  i = j
            BY <3>1 DEF IsInjective
        <3>2. Upto(next - 1) + i = Upto(next - 1) + j
            BY <1>4, <2>3
        <3> QED
            BY <1>2, <3>2
    <2> QED
        BY <1>1, <2>1, <2>2, <2>3
<1>7. Tidy'
    <2>1. \A z \in Scanner : IsInjective(todo'[z])
        BY <1>6 DEF Tidy
    <2>2. \A w \in Ingest : ToSet(todo'[w]) \subseteq ToSet(Share(w))
        BY <1>1 DEF Tidy, BeginsOwn
    <2>3. ASSUME NEW c \in Child, NEW f \in ToSet(todo'[c]) PROVE f <= Upto(next' - 1)
        <3>1. CASE c = s
            BY <1>4, <2>3, <3>1
        <3>2. CASE c # s
            <4>1. todo'[c] = todo[c] /\ todo[c] \in Seq(File)
                BY <1>1, <3>2 DEF ParseTypes
            <4>2. f \in Nat /\ f <= Upto(next - 1)
                BY <1>2, <2>3, <4>1 DEF Tidy, ToSet
            <4>3. Upto(next' - 1) \in Nat
                BY <1>2, <1>4 DEF BeginsOwn
            <4> QED
                BY <1>2, <1>3, <4>2, <4>3
        <3> QED
            BY <3>1, <3>2
    <2> QED
        BY <2>1, <2>2, <2>3 DEF Tidy, Upto
<1>8. ASSUME NEW z \in Scanner PROVE Ahead(z)' \subseteq Ahead(z)
    <2>1. {f \in File : f > Upto(next' - 1)} \subseteq {f \in File : f > Upto(next - 1)}
        <3>1. Upto(next' - 1) \in Nat
            BY <1>2, <1>4 DEF BeginsOwn
        <3> QED
            BY <1>2, <1>3, <3>1
    <2>2. ToSet(todo'[z]) \subseteq Ahead(z)
        BY <1>5 DEF Ahead
    <2>3. z \notin begun' => z \notin begun
        OBVIOUS
    <2> QED
        BY <2>1, <2>2, <2>3 DEF Ahead, Upto
<1> QED
    BY <1>7, <1>8

------------------------------------------------------------------------------
\* The pools of a repository with one file that wedges.
WedgeInv == ScanInv /\ Tidy /\ WedgePart

LEMMA PoolTasks ==
    ASSUME ParseTypes, NEW p \in Process
    PROVE  /\ pool[p].queue \in Seq(Task) /\ Len(pool[p].queue) \in Nat
           /\ \A i \in 1 .. Len(pool[p].queue) :
                  pool[p].queue[i] \in Task /\ pool[p].queue[i].file \in File
           /\ \A t \in 1 .. MaxWorkers :
                  pool[p].thread[t] # NoTask => pool[p].thread[t] \in Task /\ pool[p].thread[t].file \in File
<1>1. /\ pool[p].queue \in Seq(Task)
      /\ \A t \in 1 .. MaxWorkers : pool[p].thread[t] \in Task \cup {NoTask}
    BY DEF ParseTypes
<1>2. Len(pool[p].queue) \in Nat /\ \A i \in 1 .. Len(pool[p].queue) : pool[p].queue[i] \in Task
    BY <1>1
<1> QED
    BY <1>1, <1>2, Tasks

\* A pool that is left alone, and one whose tasks become fewer.
LEMMA NoNewTasks ==
    ASSUME WedgeInv, UNCHANGED <<nature, host>>, OneWedge => OncePerPool',
           \A s \in Scanner : Ahead(s)' \subseteq Ahead(s),
           \A p \in Process, f \in File : InPool(p, f)' => InPool(p, f)
    PROVE  WedgePart'
<1>1. OneWedge' <=> OneWedge
    BY DEF OneWedge, Wedges
<1>2. ASSUME NotAgain PROVE NotAgain'
    <2> SUFFICES ASSUME NEW s \in Scanner, NEW f \in File, Wedges(f), InPool(HostOf(s), f)'
                 PROVE  f \notin Ahead(s)'
        BY DEF NotAgain, Wedges
    <2>1. InPool(HostOf(s), f)
        BY ParseAssumption
    <2> QED
        BY <1>2, <2>1 DEF NotAgain
<1> QED
    BY <1>1, <1>2 DEF WedgePart, WedgeInv

LEMMA PoolAlone ==
    ASSUME WedgeInv, UNCHANGED <<nature, host, pool>>, \A s \in Scanner : Ahead(s)' \subseteq Ahead(s)
    PROVE  WedgePart'
<1>1. OneWedge => OncePerPool'
    BY DEF WedgeInv, WedgePart, OncePerPool, Wedged, Wedges
<1>2. \A p \in Process, f \in File : InPool(p, f)' => InPool(p, f)
    BY DEF InPool
<1> QED
    BY <1>1, <1>2, NoNewTasks

LEMMA TakesKeepWedge ==
    ASSUME WedgeInv, NEW p \in Process, NEW t \in 1 .. MaxWorkers, ThreadTakes(p, t),
           UNCHANGED <<host, next, begun>>
    PROVE  Tidy' /\ WedgePart'
<1>1. ParseTypes /\ Tidy /\ ScanInv
    BY DEF WedgeInv, ScanInv
<1>2. PICK q \in Seq(Task) : q = pool[p].queue
    BY <1>1, PoolTasks
<1>3. /\ q # <<>> /\ pool[p].thread[t] = NoTask /\ pool'[p].queue = Tail(q)
      /\ \A u \in 1 .. MaxWorkers : u # t => pool'[p].thread[u] = pool[p].thread[u]
      /\ pool'[p].thread[t] \in {Head(q), NoTask}
      /\ \A r \in Process : r # p => pool'[r] = pool[r]
      /\ todo' = todo /\ nature' = nature
    BY <1>1, <1>2, ThreadTakesEffect DEF inputs
<1>4. /\ Head(q) = q[1] /\ 1 \in 1 .. Len(q) /\ Len(q) \in Nat
      /\ \A i \in 1 .. Len(Tail(q)) : i + 1 \in 1 .. Len(q) /\ Tail(q)[i] = q[i + 1] /\ i + 1 # 1
      /\ \A i, j \in 1 .. Len(Tail(q)) : i + 1 = j + 1 => i = j
    BY <1>3, TakeFirst
<1>5. Tidy' /\ \A s \in Scanner : Ahead(s)' \subseteq Ahead(s)
    BY <1>1, <1>3, MovesKeepTidy DEF Moves
<1>6. \A r \in Process, f \in File : InPool(r, f)' => InPool(r, f)
    <2> SUFFICES ASSUME NEW r \in Process, NEW f \in File, InPool(r, f)' PROVE InPool(r, f)
        OBVIOUS
    <2>1. CASE r # p
        BY <1>3, <2>1 DEF InPool
    <2>2. CASE r = p /\ \E i \in 1 .. Len(Tail(q)) : Tail(q)[i].file = f
        BY <1>2, <1>4, <2>2 DEF InPool
    <2>3. CASE r = p /\ \E u \in 1 .. MaxWorkers : pool'[p].thread[u] # NoTask /\ pool'[p].thread[u].file = f
        <3>1. PICK u \in 1 .. MaxWorkers : pool'[p].thread[u] # NoTask /\ pool'[p].thread[u].file = f
            BY <2>3
        <3>2. CASE u = t
            <4>1. q[1].file = f
                BY <1>3, <1>4, <3>1, <3>2
            <4> QED
                BY <1>2, <1>4, <2>3, <4>1 DEF InPool
        <3>3. CASE u # t
            BY <1>3, <2>3, <3>1, <3>3 DEF InPool
        <3> QED
            BY <3>2, <3>3
    <2> QED
        BY <1>3, <2>1, <2>2, <2>3 DEF InPool
<1>7. ASSUME OneWedge PROVE OncePerPool'
    <2>1. OncePerPool
        BY <1>7 DEF WedgeInv, WedgePart
    <2>2. /\ \A v, u \in 1 .. MaxWorkers : Wedged(p, v) /\ Wedged(p, u) => v = u
          /\ \A v \in 1 .. MaxWorkers, i \in 1 .. Len(q) : Wedged(p, v) => ~Wedges(q[i].file)
          /\ \A i, j \in 1 .. Len(q) : Wedges(q[i].file) /\ Wedges(q[j].file) => i = j
        BY <1>2, <2>1 DEF OncePerPool
    <2>3. ASSUME NEW u \in 1 .. MaxWorkers, Wedged(p, u)'
          PROVE  (u # t /\ Wedged(p, u)) \/ (u = t /\ Wedges(q[1].file))
        <3>1. CASE u = t
            <4>1. pool'[p].thread[t] = q[1]
                BY <1>3, <1>4, <2>3, <3>1 DEF Wedged
            <4> QED
                BY <1>3, <2>3, <3>1, <4>1 DEF Wedged, Wedges
        <3>2. CASE u # t
            <4>1. pool'[p].thread[u] = pool[p].thread[u] /\ nature' = nature
                BY <1>3, <3>2
            <4>2. Wedged(p, u)
                BY <2>3, <4>1 DEF Wedged
            <4> QED
                BY <3>2, <4>2
        <3> QED
            BY <3>1, <3>2
    <2>4. \A v, u \in 1 .. MaxWorkers : Wedged(p, v)' /\ Wedged(p, u)' => v = u
        BY <1>4, <2>2, <2>3
    <2>5. \A v \in 1 .. MaxWorkers, i \in 1 .. Len(Tail(q)) : Wedged(p, v)' => ~Wedges(Tail(q)[i].file)
        BY <1>4, <2>2, <2>3
    <2>6. \A i, j \in 1 .. Len(Tail(q)) : Wedges(Tail(q)[i].file) /\ Wedges(Tail(q)[j].file) => i = j
        BY <1>4, <2>2
    <2>7. \A f : Wedges(f)' <=> Wedges(f)
        BY <1>3 DEF Wedges
    <2>8. \A r \in Process, u \in 1 .. MaxWorkers : r # p => (Wedged(r, u)' <=> Wedged(r, u))
        BY <1>3 DEF Wedged
    <2> QED
        BY <1>3, <2>1, <2>4, <2>5, <2>6, <2>7, <2>8 DEF OncePerPool
<1> QED
    BY <1>3, <1>5, <1>6, <1>7, NoNewTasks

LEMMA EndsKeepWedge ==
    ASSUME WedgeInv, NEW p \in Process, NEW t \in 1 .. MaxWorkers, ThreadEnds(p, t),
           UNCHANGED <<host, next, begun>>
    PROVE  Tidy' /\ WedgePart'
<1>1. ParseTypes /\ Tidy /\ ScanInv
    BY DEF WedgeInv, ScanInv
<1>2. /\ pool'[p].queue = pool[p].queue /\ pool'[p].thread[t] = NoTask
      /\ \A u \in 1 .. MaxWorkers : u # t => pool'[p].thread[u] = pool[p].thread[u]
      /\ \A r \in Process : r # p => pool'[r] = pool[r]
      /\ nature' = nature
    BY <1>1, ThreadEndsEffect DEF inputs
<1>3. \A s \in Scanner : todo'[s] = todo[s] \/ todo'[s] = <<>>
    BY <1>1 DEF ThreadEnds, ParseTypes
<1>4. Tidy' /\ \A s \in Scanner : Ahead(s)' \subseteq Ahead(s)
    BY <1>1, <1>3, MovesKeepTidy DEF Moves
<1>5. \A r \in Process, f \in File : InPool(r, f)' => InPool(r, f)
    BY <1>2 DEF InPool
<1>6. ASSUME OneWedge PROVE OncePerPool'
    <2>1. \A r \in Process, u \in 1 .. MaxWorkers : Wedged(r, u)' => Wedged(r, u)
        BY <1>2 DEF Wedged
    <2>2. \A r \in Process : pool'[r].queue = pool[r].queue
        BY <1>2
    <2>3. OncePerPool
        BY <1>6 DEF WedgeInv, WedgePart
    <2>4. \A g : Wedges(g)' <=> Wedges(g)
        BY <1>2 DEF Wedges
    <2> SUFFICES ASSUME NEW r \in Process
                 PROVE  /\ \A v, u \in 1 .. MaxWorkers : Wedged(r, v)' /\ Wedged(r, u)' => v = u
                        /\ \A u \in 1 .. MaxWorkers, i \in 1 .. Len(pool'[r].queue) :
                               Wedged(r, u)' => nature'[pool'[r].queue[i].file] # "wedges"
                        /\ \A i, j \in 1 .. Len(pool'[r].queue) :
                               /\ nature'[pool'[r].queue[i].file] = "wedges"
                               /\ nature'[pool'[r].queue[j].file] = "wedges"
                               => i = j
        BY DEF OncePerPool, Wedges
    <2>5. \A v, u \in 1 .. MaxWorkers : Wedged(r, v)' /\ Wedged(r, u)' => v = u
        BY <2>1, <2>3 DEF OncePerPool
    <2>6. \A u \in 1 .. MaxWorkers, i \in 1 .. Len(pool[r].queue) :
              Wedged(r, u)' => ~Wedges(pool[r].queue[i].file)
        BY <2>1, <2>3 DEF OncePerPool
    <2>7. \A i, j \in 1 .. Len(pool[r].queue) :
              Wedges(pool[r].queue[i].file) /\ Wedges(pool[r].queue[j].file) => i = j
        BY <2>3 DEF OncePerPool
    <2> QED
        BY <1>2, <2>2, <2>5, <2>6, <2>7 DEF Wedges
<1> QED
    BY <1>2, <1>4, <1>5, <1>6, NoNewTasks

\* A file that wedges joins a pool that has none, and then it is behind everybody.
LEMMA NextKeepsWedge ==
    ASSUME WedgeInv, NEW s \in Scanner, NextFile(s), UNCHANGED <<host, next, begun>>
    PROVE  Tidy' /\ WedgePart'
<1>1. ParseTypes /\ Tidy /\ ScanInv /\ NothingUnderWay
    BY DEF WedgeInv, ScanInv
<1>2. PICK f : f = Head(todo[s])
    OBVIOUS
<1>3. PICK n \in Task : n.file = f /\ n = [scanner |-> s, file |-> f, content |-> version[f]]
    <2>1. todo[s] \in Seq(File) /\ todo[s] # <<>>
        BY <1>1 DEF NextFile, ParseTypes
    <2>2. f \in File /\ version[f] \in Content
        BY <1>1, <1>2, <2>1, TakeFirst DEF ParseTypes
    <2>3. [scanner |-> s, file |-> f, content |-> version[f]] \in Task
        BY <2>2 DEF Task, Content
    <2> QED
        BY <2>3
<1>4. /\ todo[s] \in Seq(File) /\ todo[s] # <<>> /\ todo' = [todo EXCEPT ![s] = Tail(todo[s])]
      /\ nature' = nature /\ f \in File /\ ~Through(s)
      /\ \/ pool' = pool
         \/ pool' = [pool EXCEPT ![HostOf(s)].queue = Append(@, n)]
    BY <1>1, <1>2, <1>3, Tasks DEF NextFile, ParseTypes, Through, inputs
<1>5. /\ todo'[s] = Tail(todo[s]) /\ \A z \in Scanner : z # s => todo'[z] = todo[z]
    BY <1>1, <1>4 DEF ParseTypes
<1>6. Tidy' /\ \A z \in Scanner : Ahead(z)' \subseteq Ahead(z)
    BY <1>1, <1>4, <1>5, MovesKeepTidy DEF Moves
<1>7. CASE pool' = pool
    BY <1>4, <1>6, <1>7, PoolAlone
<1>8. CASE pool' = [pool EXCEPT ![HostOf(s)].queue = Append(@, n)]
    <2> DEFINE p == HostOf(s)
               q == pool[p].queue
    <2>1. p \in Process /\ q \in Seq(Task)
        BY <1>1, PoolTasks, ParseAssumption
    <2>2. /\ \A r \in Process : r # p => pool'[r] = pool[r]
          /\ pool'[p].thread = pool[p].thread /\ pool'[p].queue = Append(q, n)
        BY <1>1, <1>8, <2>1, QueueGrows
    <2> HIDE DEF p, q
    <2>3. /\ Len(q) \in Nat /\ Len(Append(q, n)) = Len(q) + 1
          /\ \A i \in 1 .. Len(q) : Append(q, n)[i] = q[i]
          /\ Append(q, n)[Len(q) + 1] = n
        BY <2>1, PutLast
    <2>4. /\ \A i \in 1 .. Len(q) : q[i].file \in File
          /\ \A t \in 1 .. MaxWorkers : pool[p].thread[t] # NoTask => pool[p].thread[t].file \in File
        BY <1>1, <2>1, PoolTasks DEF q
    <2>5. \A i \in 1 .. Len(Append(q, n)) : \/ i \in 1 .. Len(q) /\ Append(q, n)[i] = q[i]
                                            \/ i = Len(q) + 1 /\ Append(q, n)[i] = n
        BY <2>3
    <2>6. ASSUME OneWedge PROVE OncePerPool'
        <3>1. OncePerPool /\ NotAgain
            BY <2>6 DEF WedgeInv, WedgePart
        <3>2. Wedges(f) => ~InPool(p, f)
            <4>1. f \in Ahead(s)
                BY <1>2, <1>4, TakeFirst DEF Ahead
            <4> QED
                BY <1>4, <3>1, <4>1 DEF NotAgain, p
        <3>3. /\ \A t, u \in 1 .. MaxWorkers : Wedged(p, t) /\ Wedged(p, u) => t = u
              /\ \A t \in 1 .. MaxWorkers, i \in 1 .. Len(q) : Wedged(p, t) => ~Wedges(q[i].file)
              /\ \A i, j \in 1 .. Len(q) : Wedges(q[i].file) /\ Wedges(q[j].file) => i = j
            BY <2>1, <3>1 DEF OncePerPool, q
        <3>4. Wedges(f) => \A t \in 1 .. MaxWorkers : ~Wedged(p, t)
            <4> SUFFICES ASSUME Wedges(f), NEW t \in 1 .. MaxWorkers, Wedged(p, t) PROVE FALSE
                OBVIOUS
            <4>1. pool[p].thread[t].file = f
                BY <1>4, <2>4, <2>6 DEF OneWedge, Wedged, Wedges
            <4> QED
                BY <3>2, <4>1 DEF InPool, Wedged
        <3>5. Wedges(f) => \A i \in 1 .. Len(q) : ~Wedges(q[i].file)
            <4> SUFFICES ASSUME Wedges(f), NEW i \in 1 .. Len(q), Wedges(q[i].file) PROVE FALSE
                OBVIOUS
            <4>1. q[i].file = f
                BY <1>4, <2>4, <2>6 DEF OneWedge
            <4> QED
                BY <3>2, <4>1 DEF InPool, q
        <3>6. \A r \in Process, t \in 1 .. MaxWorkers : Wedged(r, t)' <=> Wedged(r, t)
            BY <1>4, <2>1, <2>2 DEF Wedged
        <3>7. \A t \in 1 .. MaxWorkers, i \in 1 .. Len(Append(q, n)) :
                  Wedged(p, t) => ~Wedges(Append(q, n)[i].file)
            BY <1>3, <2>5, <3>3, <3>4
        <3>8. \A i, j \in 1 .. Len(Append(q, n)) :
                  Wedges(Append(q, n)[i].file) /\ Wedges(Append(q, n)[j].file) => i = j
            <4> SUFFICES ASSUME NEW i \in 1 .. Len(Append(q, n)), NEW j \in 1 .. Len(Append(q, n)),
                                Wedges(Append(q, n)[i].file), Wedges(Append(q, n)[j].file)
                         PROVE  i = j
                OBVIOUS
            <4>1. CASE Wedges(f)
                BY <2>5, <3>5, <4>1
            <4>2. CASE ~Wedges(f)
                BY <1>3, <2>5, <3>3, <4>2
            <4> QED
                BY <4>1, <4>2
        <3>9. \A g : Wedges(g)' <=> Wedges(g)
            BY <1>4 DEF Wedges
        <3> QED
            BY <2>2, <3>1, <3>3, <3>6, <3>7, <3>8, <3>9 DEF OncePerPool
    <2>7. ASSUME OneWedge, NEW z \in Scanner, NEW g \in File, Wedges(g), InPool(HostOf(z), g)'
          PROVE  g \notin Ahead(z)'
        <3>1. NotAgain
            BY <2>7 DEF WedgeInv, WedgePart
        <3>2. CASE InPool(HostOf(z), g)
            BY <1>6, <2>7, <3>1, <3>2 DEF NotAgain
        <3>3. CASE ~InPool(HostOf(z), g)
            <4>1. HostOf(z) \in Process
                BY ParseAssumption
            <4>2. HostOf(z) = p
                BY <2>2, <2>7, <3>3, <4>1 DEF InPool
            <4>3. g = f
                BY <1>3, <2>2, <2>5, <2>7, <3>3, <4>2 DEF InPool, q
            <4>4. z = s \/ {s, z} \subseteq Ingest
                BY <4>2, ShardAssumption DEF p
            <4>5. s \in begun /\ f \notin ToSet(Tail(todo[s])) /\ f \in ToSet(todo[s])
                <5>1. f \notin ToSet(Tail(todo[s])) /\ f \in ToSet(todo[s])
                    BY <1>1, <1>2, <1>4, TakeFirst, TailInjective DEF Tidy
                <5> QED
                    BY <1>1, <1>4, <5>1, AtWork
            <4>6. CASE z = s
                <5>1. s \in Child => ~(f > Upto(next - 1))
                    <6>1. s \in Child => f <= Upto(next - 1)
                        BY <1>1, <4>5 DEF Tidy
                    <6>2. f \in Nat /\ Upto(next - 1) \in Nat
                        <7>1. next - 1 \in Nat /\ ChunkFiles \in Nat
                            BY ShardAssumption DEF WedgeInv, ScanInv, HostTypes
                        <7> QED
                            BY <1>4, <7>1, FileNumbers, SMTT(30) DEF Upto
                    <6> QED
                        BY <6>1, <6>2
                <5> QED
                    BY <1>5, <4>3, <4>5, <4>6, <5>1 DEF Ahead, Upto
            <4>7. CASE z # s /\ {s, z} \subseteq Ingest
                <5>1. ToSet(Share(s)) \cap ToSet(Share(z)) = {} /\ z \notin {Serial, Parent} /\ z \notin Child
                    BY <4>7, ShardAssumption
                <5>2. f \in ToSet(Share(s)) /\ ToSet(todo[z]) \subseteq ToSet(Share(z))
                    BY <1>1, <4>5, <4>7 DEF Tidy
                <5> QED
                    BY <1>5, <4>3, <4>7, <5>1, <5>2 DEF Ahead
            <4> QED
                BY <4>4, <4>6, <4>7
        <3> QED
            BY <3>2, <3>3
    <2>8. (OneWedge' <=> OneWedge) /\ \A g : Wedges(g)' <=> Wedges(g)
        BY <1>4 DEF OneWedge, Wedges
    <2>9. OneWedge => NotAgain'
        BY <2>7, <2>8 DEF NotAgain
    <2> QED
        BY <1>6, <2>6, <2>8, <2>9 DEF WedgePart
<1> QED
    BY <1>4, <1>7, <1>8

\* The steps that add no task to a pool.
LEMMA MovesKeepWedge ==
    ASSUME WedgeInv, Moves, UNCHANGED <<nature, host, pool>>
    PROVE  Tidy' /\ WedgePart'
<1>1. ParseTypes /\ Tidy
    BY DEF WedgeInv, ScanInv
<1>2. Tidy' /\ \A s \in Scanner : Ahead(s)' \subseteq Ahead(s)
    BY <1>1, MovesKeepTidy
<1> QED
    BY <1>2, PoolAlone

LEMMA BeginsKeepWedge ==
    ASSUME WedgeInv, NEW s \in Scanner, NEW files \in Seq(File), NEW limit \in Nat, Through(s),
           Begin(s, files, limit), BeginsOwn(s, files), host' = host
    PROVE  Tidy' /\ WedgePart'
<1>1. ParseTypes /\ HostTypes /\ Tidy /\ ScanInv
    BY DEF WedgeInv, ScanInv
<1>2. /\ todo'[s] = files /\ begun' = begun \cup {s} /\ nature' = nature /\ pool' = pool
      /\ \A z \in Scanner : z # s => todo'[z] = todo[z]
    BY <1>1, BeginEffect
<1>3. Tidy' /\ \A z \in Scanner : Ahead(z)' \subseteq Ahead(z)
    BY <1>1, <1>2, BeginsKeepTidy
<1> QED
    BY <1>2, <1>3, PoolAlone

\* When a repository is scanned again, only the order of the files is left to keep.
LEMMA RescanKeepsWedge ==
    ASSUME WedgeInv, Fingerprint \/ WriteArtifact
    PROVE  Tidy' /\ WedgePart'
<1>1. ParseTypes /\ Tidy /\ host = "rescan" /\ host' = host /\ next' = next
    BY DEF WedgeInv, ScanInv, Fingerprint, WriteArtifact
<1>2. \A s \in Scanner : todo'[s] = todo[s] \/ (s = Serial /\ todo'[s] = Files)
    <2>1. CASE UNCHANGED parseVars
        BY <2>1 DEF parseVars
    <2>2. CASE Begin(Serial, Files, MaxClaims)
        BY <1>1, <2>2 DEF Begin, ParseTypes
    <2> QED
        BY <2>1, <2>2 DEF Fingerprint, WriteArtifact
<1>3. IsInjective(Files)
    BY FileNumbers DEF IsInjective
<1>4. Serial \notin Ingest /\ Serial \notin Child /\ Ingest \subseteq Scanner /\ Child \subseteq Scanner
    BY ShardAssumption
<1>5. Tidy'
    BY <1>1, <1>2, <1>3, <1>4 DEF Tidy, Upto
<1> QED
    BY <1>1, <1>5 DEF WedgePart, OneWedge

LEMMA InitHasWedgeInv ==
    ASSUME ScanInit PROVE WedgeInv
<1>1. /\ pool = [p \in Process |-> AfterFork] /\ todo = [s \in Scanner |-> <<>>]
    BY DEF ScanInit, ParseInit
<1>2. /\ AfterFork.queue = <<>> /\ \A t \in 1 .. MaxWorkers : AfterFork.thread[t] = NoTask
    BY DEF AfterFork, NewPool
<1>3. Tidy
    <2>1. IsInjective(<<>>)
        BY DEF IsInjective
    <2> QED
        BY <1>1, <2>1, Nothing, ShardAssumption DEF Tidy
<1>4. ASSUME NEW p \in Process PROVE /\ Len(pool[p].queue) = 0
                                     /\ \A t \in 1 .. MaxWorkers : pool[p].thread[t] = NoTask
    BY <1>1, <1>2, Nothing
<1>5. OncePerPool
    BY <1>4 DEF OncePerPool, Wedged
<1>6. NotAgain
    BY <1>4, ParseAssumption DEF NotAgain, InPool
<1> QED
    BY <1>3, <1>5, <1>6, InitHasScanInv DEF WedgeInv, WedgePart

LEMMA NextKeepsWedgeInv ==
    ASSUME WedgeInv, [ScanNext]_scanVars PROVE WedgeInv'
<1>1. ScanInv /\ ScanInv'
    BY NextKeepsScanInv DEF WedgeInv
<1>2. ParseTypes /\ HostTypes /\ NothingUnderWay
    BY <1>1 DEF ScanInv
<1> SUFFICES Tidy' /\ WedgePart'
    BY <1>1 DEF WedgeInv
<1>3. ASSUME UNCHANGED <<parseVars, host, begun, next>> PROVE Tidy' /\ WedgePart'
    <2>1. Moves /\ UNCHANGED <<nature, host, pool>>
        BY <1>3 DEF Moves, parseVars, inputs
    <2> QED
        BY <2>1, MovesKeepWedge
<1>4. ASSUME NEW s \in Scanner, Parsing(ParseLoop(s)) PROVE Tidy' /\ WedgePart'
    <2>1. UNCHANGED <<host, next, begun>>
        BY <1>4 DEF Parsing, shardVars
    <2>2. CASE NextFile(s)
        BY <2>1, <2>2, NextKeepsWedge
    <2>3. CASE StopAtCap(s) \/ GivesUp(s)
        <3>1. \A z \in Scanner : todo'[z] = todo[z] \/ todo'[z] = <<>>
            BY <1>2, <2>3 DEF StopAtCap, GivesUp, ParseTypes
        <3>2. UNCHANGED <<nature, host, pool>>
            BY <2>1, <2>3 DEF StopAtCap, GivesUp, inputs
        <3> QED
            BY <2>1, <3>1, <3>2, MovesKeepWedge DEF Moves
    <2> QED
        BY <1>4, <2>2, <2>3 DEF Parsing, ParseLoop
<1>5. ASSUME NEW p \in Process, Parsing(Threads(p)) PROVE Tidy' /\ WedgePart'
    <2>1. UNCHANGED <<host, next, begun>>
        BY <1>5 DEF Parsing, shardVars
    <2>2. PICK t \in 1 .. MaxWorkers : ThreadTakes(p, t) \/ ThreadEnds(p, t)
        BY <1>2, <1>5 DEF Parsing, Threads, ParseTypes
    <2> QED
        BY <2>1, <2>2, TakesKeepWedge, EndsKeepWedge
<1>6. ASSUME NEW f \in File, Parsing(Edit(f)) PROVE Tidy' /\ WedgePart'
    <2>1. Moves /\ UNCHANGED <<nature, host, pool>>
        BY <1>6 DEF Parsing, Edit, Moves, inputs, shardVars
    <2> QED
        BY <2>1, MovesKeepWedge
<1>7. ASSUME NEW w \in Ingest, IngestScans(w) PROVE Tidy' /\ WedgePart'
    <2>1. /\ w \in Scanner /\ Share(w) \in Seq(File) /\ MaxClaims \in Nat
          /\ w \notin Child /\ w \notin {Serial, Parent}
        BY ShardAssumption, ParseAssumption
    <2>2. Begin(w, Share(w), MaxClaims) /\ host' = host /\ next' = next /\ w \notin begun
        BY <1>7 DEF IngestScans
    <2>3. Through(w) /\ BeginsOwn(w, Share(w))
        BY <1>2, <2>1, <2>2 DEF NothingUnderWay, BeginsOwn
    <2> QED
        BY <2>1, <2>2, <2>3, BeginsKeepWedge
<1>8. ASSUME SerialScans PROVE Tidy' /\ WedgePart'
    <2>1. /\ Serial \in Scanner /\ Files \in Seq(File) /\ MaxClaims \in Nat
          /\ Serial \notin Child /\ Serial \notin Ingest
        BY ShardAssumption, FileNumbers
    <2>2. Begin(Serial, Files, MaxClaims) /\ host' = host /\ next' = next /\ Serial \notin begun
        BY <1>8 DEF SerialScans
    <2>3. Through(Serial) /\ BeginsOwn(Serial, Files)
        BY <1>2, <2>1, <2>2 DEF NothingUnderWay, BeginsOwn
    <2> QED
        BY <2>1, <2>2, <2>3, BeginsKeepWedge
<1>9. ASSUME NEW c \in Child, TakesSlice(c) PROVE Tidy' /\ WedgePart'
    <2>1. c \in Scanner /\ c \notin Ingest /\ c \notin {Serial, Parent}
        BY ShardAssumption
    <2>2. /\ Begin(c, Slice(next), 0) /\ host' = host /\ next' = next + 1 /\ next <= Slices
          /\ on[c] = 0
        BY <1>9 DEF TakesSlice
    <2>3. Through(c) /\ BeginsOwn(c, Slice(next)) /\ Slice(next) \in Seq(File)
        BY <1>2, <2>1, <2>2, SliceFacts DEF NothingUnderWay, BeginsOwn, HostTypes
    <2> QED
        BY <2>1, <2>2, <2>3, BeginsKeepWedge
<1>10. ASSUME Merge PROVE Tidy' /\ WedgePart'
    <2>1. CASE UNCHANGED <<parseVars, begun>>
        BY <1>3, <1>10, <2>1 DEF Merge
    <2>2. CASE Begin(Parent, Files, MaxClaims)
        <3>1. /\ Parent \in Scanner /\ Files \in Seq(File) /\ MaxClaims \in Nat
              /\ Parent \notin Child /\ Parent \notin Ingest
            BY ShardAssumption, FileNumbers
        <3>2. host' = host /\ next' = next /\ Parent \notin begun
            BY <1>2, <1>10 DEF Merge, NothingUnderWay
        <3>3. Through(Parent) /\ BeginsOwn(Parent, Files)
            BY <1>2, <3>1, <3>2 DEF NothingUnderWay, BeginsOwn
        <3> QED
            BY <2>2, <3>1, <3>2, <3>3, BeginsKeepWedge
    <2> QED
        BY <1>10, <2>1, <2>2 DEF Merge
<1> QED
    BY <1>3, <1>4, <1>5, <1>6, <1>7, <1>8, <1>9, <1>10, RescanKeepsWedge
    DEF ScanNext, scanVars, shardVars, SliceBack, SliceRaises, Rerun, Over

\* A parse is given up only if its own file wedges.
LEMMA OnlyWedgesOverrun ==
    ASSUME WedgeInv, OneWedge, NEW s \in Scanner, GivesUp(s)
    PROVE  Wedges(asked[s].file)
<1>1. HostOf(s) \in Process /\ OncePerPool /\ ParseTypes /\ Overruns(s)
    BY ParseAssumption DEF WedgeInv, WedgePart, ScanInv, GivesUp
<1>2. DOMAIN pool[HostOf(s)].thread = 1 .. MaxWorkers /\ 1 \in 1 .. MaxWorkers /\ 2 \in 1 .. MaxWorkers
    BY <1>1 DEF ParseTypes, MaxWorkers
<1>3. ~Blocked(HostOf(s))
    BY <1>1, <1>2 DEF Blocked, OncePerPool
<1> QED
    BY <1>1, <1>3 DEF Overruns, Wedged, Wedges

\* Only a parse that is given up is counted as a timeout.
LEMMA OnlyGivenUpCount ==
    ASSUME ScanInv, [ScanNext]_scanVars, NEW s \in Scanner,
           sink'[s].count["parse_timeouts"] > sink[s].count["parse_timeouts"]
    PROVE  GivesUp(s)
<1> DEFINE late(k) == k.count["parse_timeouts"]
           Grows == late(sink'[s]) > late(sink[s])
<1>1. ParseTypes /\ OnlyParses /\ NothingUnderWay /\ late(sink[s]) \in Nat
    BY DEF ScanInv, ParseTypes, SinkType, Counters
<1>2. ASSUME sink'[s] = sink[s] \/ late(sink'[s]) = late(sink[s]) PROVE ~Grows
    BY <1>1, <1>2
<1>3. ASSUME NEW z \in Scanner, NextFile(z) \/ StopAtCap(z) PROVE ~Grows
    <2>1. late(sink'[z]) = late(sink[z]) /\ (z # s => sink'[s] = sink[s])
        BY <1>3, NextFileEffect, StopEffect, ZenonT(40)
    <2> QED
        BY <1>2, <2>1
<1>4. ASSUME NEW z \in Scanner, z # s, GivesUp(z) PROVE ~Grows
    <2>1. sink'[s] = sink[s]
        BY <1>4, GivesUpEffect
    <2> QED
        BY <1>2, <2>1
<1>5. ASSUME NEW p \in Process, Threads(p) PROVE ~Grows
    <2>1. PICK t \in 1 .. MaxWorkers : ThreadTakes(p, t) \/ ThreadEnds(p, t)
        BY <1>1, <1>5 DEF Threads, ParseTypes
    <2>2. CASE ThreadTakes(p, t)
        <3>1. sink' = sink
            BY <2>2 DEF ThreadTakes
        <3> QED
            BY <1>2, <3>1
    <2>3. CASE ThreadEnds(p, t)
        <3>1. PICK n : n = pool[p].thread[t]
            OBVIOUS
        <3>2. /\ n \in Task /\ \A z \in Scanner : z # n.scanner => sink'[z] = sink[z]
              /\ ~Waited(n) => sink' = sink
              /\ Waited(n) => /\ asked[n.scanner] = n
                              /\ sink'[n.scanner] = Parsed(sink[n.scanner], n)
            BY <2>3, <3>1, ThreadEndsEffect
        <3>3. CASE Waited(n)
            <4>1. n.scanner \in Scanner /\ n # NoTask
                BY <3>2, Tasks
            <4>2. sink[n.scanner] \in SinkType /\ nature[n.file] \notin {"large", "unreadable"}
                BY <1>1, <3>2, <3>3, <4>1 DEF ParseTypes, OnlyParses
            <4>3. late(sink'[n.scanner]) = late(sink[n.scanner])
                BY <1>1, <3>2, <3>3, <4>2, ParsedGives
            <4> QED
                BY <1>2, <3>2, <4>3
        <3>4. CASE ~Waited(n)
            BY <1>2, <3>2, <3>4
        <3> QED
            BY <3>3, <3>4
    <2> QED
        BY <2>1, <2>2, <2>3
<1>6. ASSUME NEW z \in Scanner, NEW files, NEW limit, Begin(z, files, limit) PROVE ~Grows
    <2>1. sink'[s] = sink[s] \/ sink'[s] = EmptySink(limit)
        BY <1>1, <1>6 DEF Begin, ParseTypes
    <2>2. late(EmptySink(limit)) = 0
        BY DEF EmptySink, Counters
    <2> QED
        BY <1>1, <1>2, <2>1, <2>2
<1>7. ASSUME sink' = sink PROVE ~Grows
    BY <1>2, <1>7
<1>8. Ingest \subseteq Scanner /\ Child \subseteq Scanner /\ Serial \in Scanner /\ Parent \in Scanner
    BY ShardAssumption
<1>9. Grows
    OBVIOUS
<1> HIDE DEF Grows
<1>10. \/ \E z \in Scanner : ParseLoop(z)
       \/ \E p \in Process : Threads(p)
       \/ \E z \in Scanner : \E files, limit : Begin(z, files, limit)
       \/ sink' = sink
    <2>1. CASE UNCHANGED scanVars
        BY <2>1 DEF scanVars, parseVars
    <2>2. CASE \E z \in Scanner : Parsing(ParseLoop(z))
        BY <2>2 DEF Parsing
    <2>3. CASE \E p \in Process : Parsing(Threads(p))
        BY <2>3 DEF Parsing
    <2>4. CASE \E f \in File : host = "rescan" /\ Parsing(Edit(f))
        BY <2>4 DEF Parsing, Edit
    <2>5. CASE (\E w \in Ingest : IngestScans(w)) \/ SerialScans \/ (\E c \in Child : TakesSlice(c))
        BY <1>8, <2>5 DEF IngestScans, SerialScans, TakesSlice
    <2>6. CASE \E c \in Child : SliceBack(c) \/ SliceRaises(c)
        BY <2>6 DEF SliceBack, SliceRaises, parseVars
    <2>7. CASE Merge
        BY <1>8, <2>7 DEF Merge, parseVars
    <2>8. CASE Rerun \/ WriteArtifact \/ Over
        BY <2>8 DEF Rerun, WriteArtifact, Over, scanVars, parseVars
    <2>9. CASE Fingerprint
        BY <1>8, <2>9 DEF Fingerprint, parseVars
    <2> QED
        BY <2>1, <2>2, <2>3, <2>4, <2>5, <2>6, <2>7, <2>8, <2>9 DEF ScanNext
<1> QED
    BY <1>3, <1>4, <1>5, <1>6, <1>7, <1>9, <1>10 DEF ParseLoop

LEMMA AtMostOne ==
    ASSUME Cardinality({f \in File : nature[f] = "wedges"}) <= 1
    PROVE  \A f, g \in File : Wedges(f) /\ Wedges(g) => f = g
<1> SUFFICES ASSUME NEW f \in File, NEW g \in File, Wedges(f), Wedges(g), f # g PROVE FALSE
    OBVIOUS
<1> DEFINE W == {h \in File : nature[h] = "wedges"}
<1>1. f \in W /\ g \in W /\ W \in SUBSET File /\ IsFiniteSet(File)
    BY ParseAssumption DEF Wedges
<1>2. IsFiniteSet(W) /\ Cardinality(W) \in Nat
    BY <1>1, FS_Subset, FS_CardinalityType
<1>3. Cardinality(W) # 0 /\ Cardinality(W) # 1
    BY <1>1, <1>2, FS_EmptySet, FS_Singleton
<1> QED
    BY <1>2, <1>3

\* One file whose parse wedges costs the scans of a process that file and no other:
\* no other file's parse is given up for it (parse_budget.py:1-16).
THEOREM WedgeCostsItsFile == ScanSpec => OneWedgeCostsOneFile
<1>1. ScanInit => WedgeInv
    BY InitHasWedgeInv
<1>2. WedgeInv /\ [ScanNext]_scanVars => WedgeInv'
    BY NextKeepsWedgeInv
<1>3. ASSUME WedgeInv, [ScanNext]_scanVars, host # "rescan",
             Cardinality({f \in File : nature[f] = "wedges"}) <= 1, NEW s \in Scanner,
             sink'[s].count["parse_timeouts"] > sink[s].count["parse_timeouts"]
      PROVE  nature[asked[s].file] = "wedges"
    <2>1. OneWedge
        BY <1>3, AtMostOne DEF OneWedge
    <2>2. GivesUp(s)
        BY <1>3, OnlyGivenUpCount DEF WedgeInv
    <2> QED
        BY <1>3, <2>1, <2>2, OnlyWedgesOverrun DEF Wedges
<1>4. WedgeInv /\ [ScanNext]_scanVars =>
          [host # "rescan" /\ Cardinality({f \in File : nature[f] = "wedges"}) <= 1 =>
               \A s \in Scanner :
                   sink'[s].count["parse_timeouts"] > sink[s].count["parse_timeouts"] =>
                       nature[asked[s].file] = "wedges"]_scanVars
    BY <1>3
<1> QED
    BY <1>1, <1>2, <1>4, PTL DEF ScanSpec, OneWedgeCostsOneFile

------------------------------------------------------------------------------
\* What becomes of a sink that takes the first files of a repository one after the
\* other, whoever parses them, with no ceiling: the measure of every scan of a
\* sharded repository in which one file wedges at most.
Kept(f) == nature[f] \in {"sound", "flawed"}
Counts(f, c) ==
    \/ c = "files_seen"
    \/ c = "files_parsed" /\ nature[f] = "sound"
    \/ c = "parse_errors" /\ nature[f] \in {"flawed", "raises", "unreadable", "wedges"}
    \/ c = "parse_timeouts" /\ nature[f] = "wedges"
    \/ c = "files_skipped_large" /\ nature[f] = "large"
Gain(f, c) ==
    IF c = "claims" THEN IF Kept(f) THEN yield[f] ELSE 0
    ELSE IF Counts(f, c) THEN 1 ELSE 0
With(k, f) ==
    [nodes |-> IF Kept(f) THEN Append(k.nodes, <<f, 0>>) ELSE k.nodes,
     count |-> [c \in Counters |-> k.count[c] + Gain(f, c)],
     max_claims |-> 0]
IsRun(g) ==
    /\ g \in [0 .. Len(Files) -> SinkType]
    /\ g[0] = EmptySink(0)
    /\ \A f \in 1 .. Len(Files) : g[f] = With(g[f - 1], f)
Run == CHOOSE g : IsRun(g)

LEMMA WithGives ==
    ASSUME ParseTypes, NEW k \in SinkType, NEW f \in File
    PROVE  /\ With(k, f) \in SinkType
           /\ With(k, f).nodes = IF Kept(f) THEN Append(k.nodes, <<f, 0>>) ELSE k.nodes
           /\ \A c \in Counters : Gain(f, c) \in Nat /\ With(k, f).count[c] = k.count[c] + Gain(f, c)
<1>1. <<f, 0>> \in NodeType
    BY FileNumbers DEF NodeType, Content
<1>2. Append(k.nodes, <<f, 0>>) \in Seq(NodeType) /\ k.nodes \in Seq(NodeType)
    BY <1>1, PutLast DEF SinkType
<1>3. yield[f] \in Nat
    BY DEF ParseTypes
<1>4. ASSUME NEW c \in Counters PROVE Gain(f, c) \in Nat /\ k.count[c] \in Nat
    BY <1>3 DEF Gain, SinkType
<1> QED
    BY <1>2, <1>4 DEF With, SinkType

LEMMA RunIs ==
    ASSUME ParseTypes
    PROVE  IsRun(Run)
<1> DEFINE n == Len(Files)
           Step == [x \in (1 .. n) \X SinkType |-> With(x[2], x[1])]
<1>1. n \in Nat /\ File = 1 .. n /\ EmptySink(0) \in SinkType
    BY FileNumbers DEF EmptySink, SinkType
<1>2. \A i \in 1 .. n, v \in SinkType : Step[<<i, v>>] = With(v, i) /\ Step[<<i, v>>] \in SinkType
    BY <1>1, WithGives
<1> HIDE DEF Step
<1>3. PICK g \in [0 .. n -> SinkType] : Unrolled(EmptySink(0), Step, n, g)
    BY <1>1, <1>2, Unrolls
<1>4. ASSUME NEW i \in 1 .. n PROVE g[i] = With(g[i - 1], i)
    <2>1. i - 1 \in 0 .. n /\ g[i - 1] \in SinkType
        BY <1>1
    <2> QED
        BY <1>2, <1>3, <2>1 DEF Unrolled
<1>5. IsRun(g)
    BY <1>3, <1>4 DEF IsRun, Unrolled
<1> QED
    BY <1>5 DEF Run

\* The run, file by file.
LEMMA RunGives ==
    ASSUME ParseTypes
    PROVE  /\ \A k \in 0 .. Len(Files) : Run[k] \in SinkType
           /\ Run[0].nodes = <<>> /\ \A c \in Counters : Run[0].count[c] = 0
           /\ \A f \in 1 .. Len(Files) :
                  /\ Run[f].nodes = IF Kept(f) THEN Append(Run[f - 1].nodes, <<f, 0>>) ELSE Run[f - 1].nodes
                  /\ \A c \in Counters : /\ Gain(f, c) \in Nat
                                         /\ Run[f].count[c] = Run[f - 1].count[c] + Gain(f, c)
<1>1. Run \in [0 .. Len(Files) -> SinkType] /\ Run[0] = EmptySink(0)
    BY RunIs DEF IsRun
<1>2. Run[0].nodes = <<>> /\ \A c \in Counters : Run[0].count[c] = 0
    BY <1>1 DEF EmptySink
<1>3. ASSUME NEW f \in 1 .. Len(Files)
      PROVE  /\ Run[f].nodes = IF Kept(f) THEN Append(Run[f - 1].nodes, <<f, 0>>) ELSE Run[f - 1].nodes
             /\ \A c \in Counters : /\ Gain(f, c) \in Nat
                                    /\ Run[f].count[c] = Run[f - 1].count[c] + Gain(f, c)
    <2>1. f \in File /\ f - 1 \in 0 .. Len(Files)
        BY FileNumbers
    <2>2. Run[f] = With(Run[f - 1], f) /\ Run[f - 1] \in SinkType
        BY <1>1, <2>1, RunIs DEF IsRun
    <2> QED
        BY <2>1, <2>2, WithGives
<1> QED
    BY <1>1, <1>2, <1>3

LEMMA RunStays ==
    ASSUME nature' = nature, yield' = yield
    PROVE  Run' = Run
<1>1. \A g : IsRun(g)' <=> IsRun(g)
    BY DEF IsRun, With, Gain, Counts, Kept
<1> QED
    BY <1>1 DEF Run

\* No node is in it twice, and its claims only grow.
LEMMA RunNodes ==
    ASSUME ParseTypes, NEW k \in 0 .. Len(Files)
    PROVE  IsInjective(Run[k].nodes) /\ \A n \in ToSet(Run[k].nodes) : n[1] <= k
<1> DEFINE Fine(j) == IsInjective(Run[j].nodes) /\ \A n \in ToSet(Run[j].nodes) : n[1] \in Nat /\ n[1] <= j
           T == {j \in Nat : j <= Len(Files) => Fine(j)}
<1>1. 0 \in T
    <2>1. IsInjective(<<>>)
        BY DEF IsInjective
    <2> QED
        BY <2>1, RunGives, Nothing
<1>2. ASSUME NEW j \in Nat, j \in T PROVE j + 1 \in T
    <2> SUFFICES ASSUME j + 1 <= Len(Files) PROVE Fine(j + 1)
        OBVIOUS
    <2> DEFINE s == Run[j].nodes
               t == Run[j + 1].nodes
               e == <<j + 1, 0>>
    <2>1. j + 1 \in 1 .. Len(Files) /\ (j + 1) - 1 = j /\ j <= Len(Files) /\ j \in 0 .. Len(Files)
        BY FileNumbers
    <2>2. Fine(j) /\ s \in Seq(NodeType) /\ e[1] = j + 1 /\ (t = Append(s, e) \/ t = s)
        BY <1>2, <2>1, RunGives DEF SinkType
    <2>3. e \in NodeType
        BY <2>1, FileNumbers DEF NodeType, Content
    <2> HIDE DEF e, t, s
    <2>4. /\ Len(s) \in Nat /\ Len(Append(s, e)) = Len(s) + 1 /\ Append(s, e) \in Seq(NodeType)
          /\ \A i \in 1 .. Len(s) : Append(s, e)[i] = s[i]
          /\ Append(s, e)[Len(s) + 1] = e /\ ToSet(Append(s, e)) = ToSet(s) \cup {e}
        BY <2>2, <2>3, PutLast
    <2>5. IsInjective(s) /\ (\A n \in ToSet(s) : n[1] \in Nat /\ n[1] <= j) /\ e \notin ToSet(s)
        BY <2>2 DEF s
    <2>6. IsInjective(Append(s, e))
        <3>1. DOMAIN s = 1 .. Len(s) /\ DOMAIN Append(s, e) = 1 .. Len(s) + 1
            BY <2>2, <2>4
        <3>2. \A i \in 1 .. Len(s) : s[i] \in ToSet(s)
            BY <3>1 DEF ToSet
        <3>3. \A i \in 1 .. Len(s) + 1 : i \in 1 .. Len(s) \/ i = Len(s) + 1
            BY <2>4
        <3> QED
            BY <2>4, <2>5, <3>1, <3>2, <3>3 DEF IsInjective
    <2>7. \A n \in ToSet(Append(s, e)) : n[1] \in Nat /\ n[1] <= j + 1
        BY <2>2, <2>4, <2>5
    <2>8. \A n \in ToSet(s) : n[1] \in Nat /\ n[1] <= j + 1
        BY <2>5
    <2>9. IsInjective(t) /\ \A n \in ToSet(t) : n[1] \in Nat /\ n[1] <= j + 1
        <3>1. CASE t = s
            BY <2>5, <2>8, <3>1
        <3>2. CASE t = Append(s, e)
            BY <2>6, <2>7, <3>2
        <3> QED
            BY <2>2, <3>1, <3>2
    <2> QED
        BY <2>9 DEF t
<1>3. Nat \subseteq T
    <2> HIDE DEF T
    <2> QED
        BY <1>1, <1>2, AllNumbers
<1>4. k \in Nat /\ k <= Len(Files)
    BY FileNumbers
<1> QED
    BY <1>3, <1>4

LEMMA RunGrows ==
    ASSUME ParseTypes, NEW j \in 0 .. Len(Files), NEW k \in 0 .. Len(Files), j <= k
    PROVE  Run[j].count["claims"] <= Run[k].count["claims"]
<1> DEFINE claims(i) == Run[i].count["claims"]
           T == {i \in Nat : j <= i /\ i <= Len(Files) => claims(j) <= claims(i)}
<1>1. "claims" \in Counters /\ \A i \in 0 .. Len(Files) : claims(i) \in Nat
    BY RunGives DEF SinkType, Counters
<1>2. \A i \in 1 .. Len(Files) : claims(i - 1) <= claims(i)
    <2> SUFFICES ASSUME NEW i \in 1 .. Len(Files) PROVE claims(i - 1) <= claims(i)
        OBVIOUS
    <2>1. i - 1 \in 0 .. Len(Files)
        BY FileNumbers
    <2>2. claims(i) = claims(i - 1) + Gain(i, "claims") /\ Gain(i, "claims") \in Nat
        BY <1>1, RunGives
    <2>3. claims(i - 1) \in Nat
        BY <1>1, <2>1
    <2> HIDE DEF claims
    <2> QED
        BY <2>2, <2>3
<1> HIDE DEF claims
<1>3. 0 \in T
    BY <1>1
<1>4. ASSUME NEW i \in Nat, i \in T PROVE i + 1 \in T
    <2> SUFFICES ASSUME j <= i + 1, i + 1 <= Len(Files) PROVE claims(j) <= claims(i + 1)
        OBVIOUS
    <2>1. CASE j = i + 1
        BY <1>1, <2>1
    <2>2. CASE j # i + 1
        <3>1. j <= i /\ i <= Len(Files) /\ i + 1 \in 1 .. Len(Files) /\ (i + 1) - 1 = i
              /\ i \in 0 .. Len(Files) /\ i + 1 \in 0 .. Len(Files)
            BY <2>2, FileNumbers
        <3>2. claims(j) <= claims(i) /\ claims(i) <= claims(i + 1)
            BY <1>2, <1>4, <3>1
        <3> QED
            BY <1>1, <3>1, <3>2
    <2> QED
        BY <2>1, <2>2
<1>5. Nat \subseteq T
    <2> HIDE DEF T
    <2> QED
        BY <1>3, <1>4, AllNumbers
<1>6. k \in Nat /\ k <= Len(Files)
    BY FileNumbers
<1>7. claims(j) <= claims(k)
    BY <1>5, <1>6
<1> QED
    BY <1>7 DEF claims

\* Where nothing is there twice, merge_chunk puts the chunk's nodes behind the others.
LEMMA AddedConcat ==
    ASSUME NEW S, NEW nodes \in Seq(S), NEW others \in Seq(S), IsInjective(nodes \o others)
    PROVE  Added(nodes, others) = nodes \o others
<1>1. PICK g \in [0 .. Len(others) -> Seq(S)] :
          /\ g[0] = nodes /\ Added(nodes, others) = g[Len(others)]
          /\ \A i \in 1 .. Len(others) : g[i] = AddNode(g[i - 1], others[i])
    BY AddedUnrolls
<1> DEFINE n == Len(others)
           l == Len(nodes)
           all == nodes \o others
           Grown(v, k) == Len(v) = l + k /\ \A j \in 1 .. l + k : v[j] = all[j]
           T == {k \in Nat : k <= n => Grown(g[k], k)}
<1>2. /\ n \in Nat /\ l \in Nat /\ (\A i \in 1 .. n : others[i] \in S) /\ Len(all) = l + n
      /\ all \in Seq(S) /\ (\A i \in 1 .. l : all[i] = nodes[i]) /\ \A i \in 1 .. n : all[l + i] = others[i]
    OBVIOUS
<1>3. IsInjective(all) /\ DOMAIN all = 1 .. l + n
    BY <1>2
<1> HIDE DEF n, l, all
<1>4. 0 \in T
    BY <1>1, <1>2 DEF l
<1>5. ASSUME NEW k \in Nat, k \in T PROVE k + 1 \in T
    <2> SUFFICES ASSUME k + 1 <= n PROVE Grown(g[k + 1], k + 1)
        OBVIOUS
    <2> DEFINE v == g[k]
               e == others[k + 1]
    <2>1. k + 1 \in 1 .. n /\ (k + 1) - 1 = k /\ k \in 0 .. n /\ k <= n
        BY <1>2
    <2>2. g[k + 1] = AddNode(v, e) /\ v \in Seq(S) /\ e \in S /\ e = all[l + (k + 1)] /\ Grown(v, k)
        BY <1>1, <1>2, <1>5, <2>1 DEF n
    <2> HIDE DEF v, e
    <2>3. e \notin ToSet(v)
        <3> SUFFICES ASSUME NEW j \in 1 .. l + k, v[j] = e PROVE FALSE
            BY <2>2 DEF ToSet
        <3>1. all[j] = all[l + (k + 1)] /\ j \in 1 .. l + n /\ l + (k + 1) \in 1 .. l + n
            BY <1>2, <2>1, <2>2
        <3>2. j = l + (k + 1)
            BY <1>3, <3>1 DEF IsInjective
        <3> QED
            BY <1>2, <3>2
    <2>4. g[k + 1] = Append(v, e)
        BY <2>2, <2>3 DEF AddNode
    <2>5. /\ Len(Append(v, e)) = Len(v) + 1 /\ Append(v, e)[Len(v) + 1] = e
          /\ \A i \in 1 .. Len(v) : Append(v, e)[i] = v[i]
        BY <2>2, PutLast
    <2>6. Len(v) = l + k /\ Len(v) + 1 = l + (k + 1)
        BY <1>2, <2>2
    <2>7. \A j \in 1 .. l + (k + 1) : j \in 1 .. l + k \/ j = l + (k + 1)
        BY <1>2
    <2>8. Grown(Append(v, e), k + 1)
        BY <2>2, <2>5, <2>6, <2>7
    <2> QED
        BY <2>4, <2>8
<1>6. Nat \subseteq T
    <2> HIDE DEF T
    <2> QED
        BY <1>4, <1>5, AllNumbers
<1>7. Grown(g[n], n) /\ g[n] \in Seq(S)
    BY <1>1, <1>2, <1>6 DEF n
<1>8. g[n] = all
    <2>1. Len(g[n]) = Len(all) /\ \A j \in 1 .. Len(g[n]) : g[n][j] = all[j]
        BY <1>2, <1>7
    <2> QED
        BY <1>2, <1>7, <2>1, SeqEqual
<1> QED
    BY <1>1, <1>8 DEF n, all

LEMMA AppendAfter ==
    ASSUME NEW S, NEW x \in Seq(S), NEW y \in Seq(S), NEW e \in S
    PROVE  x \o Append(y, e) = Append(x \o y, e)
<1>1. <<e>> \in Seq(S) /\ Append(y, e) = y \o <<e>> /\ x \o y \in Seq(S)
    BY AppendIsConcat, ConcatProperties
<1>2. Append(x \o y, e) = (x \o y) \o <<e>>
    BY <1>1, AppendIsConcat
<1>3. (x \o y) \o <<e>> = x \o (y \o <<e>>)
    BY <1>1, ConcatAssociative
<1> QED
    BY <1>1, <1>2, <1>3

LEMMA Sums ==
    ASSUME NEW i \in Nat, NEW j \in Nat, NEW m \in Nat, NEW n \in Nat, NEW g \in Nat, NEW u \in Nat,
           i + j = m + u, n + u = j + g
    PROVE  i + n = m + g
OBVIOUS

\* A sink that took the files after b up to p, and has w more of them seen.
Extends(k, b, p, w) ==
    /\ Run[b].nodes \o k.nodes = Run[p].nodes
    /\ \A c \in Counters :
           Run[b].count[c] + k.count[c] = Run[p].count[c] + IF c = "files_seen" THEN w ELSE 0

LEMMA EmptyExtends ==
    ASSUME ParseTypes, NEW b \in 0 .. Len(Files), NEW limit
    PROVE  Extends(EmptySink(limit), b, b, 0)
<1>1. Run[b].nodes \in Seq(NodeType) /\ \A c \in Counters : Run[b].count[c] \in Nat
    BY RunGives DEF SinkType
<1>2. EmptySink(limit).nodes = <<>> /\ \A c \in Counters : EmptySink(limit).count[c] = 0
    BY DEF EmptySink
<1>3. Run[b].nodes \o <<>> = Run[b].nodes
    BY <1>1, ConcatEmptySeq
<1> QED
    BY <1>1, <1>2, <1>3 DEF Extends

LEMMA SeenExtends ==
    ASSUME ParseTypes, NEW k \in SinkType, NEW b \in 0 .. Len(Files), NEW p \in 0 .. Len(Files),
           Extends(k, b, p, 0)
    PROVE  Extends(Bump(k, {"files_seen"}), b, p, 1)
<1> DEFINE v == Bump(k, {"files_seen"})
<1>1. /\ v.nodes = k.nodes
      /\ \A c \in Counters : v.count[c] = k.count[c] + IF c = "files_seen" THEN 1 ELSE 0
    BY BumpGives
<1> HIDE DEF v
<1>2. ASSUME NEW c \in Counters
      PROVE  Run[b].count[c] + v.count[c] = Run[p].count[c] + IF c = "files_seen" THEN 1 ELSE 0
    <2>1. Run[b].count[c] \in Nat /\ Run[p].count[c] \in Nat /\ k.count[c] \in Nat
        BY RunGives DEF SinkType
    <2>2. Run[b].count[c] + k.count[c] = Run[p].count[c]
        BY <2>1 DEF Extends
    <2> QED
        BY <1>1, <2>1, <2>2
<1> QED
    BY <1>1, <1>2 DEF Extends, v

\* One file more.
LEMMA FileExtends ==
    ASSUME ParseTypes, NEW k \in SinkType, NEW v \in SinkType, NEW w \in {0, 1},
           NEW b \in 0 .. Len(Files), NEW f \in 1 .. Len(Files), Extends(k, b, f - 1, w),
           v.nodes = IF Kept(f) THEN Append(k.nodes, <<f, 0>>) ELSE k.nodes,
           \A c \in Counters :
               v.count[c] + (IF c = "files_seen" THEN w ELSE 0) = k.count[c] + Gain(f, c)
    PROVE  Extends(v, b, f, 0)
<1> DEFINE x == Run[b].nodes
           y == k.nodes
           z == Run[f - 1].nodes
           e == <<f, 0>>
<1>1. f - 1 \in 0 .. Len(Files) /\ f \in 0 .. Len(Files) /\ f \in File
    BY FileNumbers
<1>2. x \in Seq(NodeType) /\ y \in Seq(NodeType) /\ z \in Seq(NodeType)
    BY <1>1, RunGives DEF SinkType
<1>3. e \in NodeType
    BY <1>1, FileNumbers DEF NodeType, Content
<1>4. x \o y = z
    BY DEF Extends
<1>5. Run[f].nodes = IF Kept(f) THEN Append(z, e) ELSE z
    BY RunGives
<1>6. v.nodes = IF Kept(f) THEN Append(y, e) ELSE y
    OBVIOUS
<1> HIDE DEF x, y, z, e
<1>7. x \o Append(y, e) = Append(x \o y, e)
    BY <1>2, <1>3, AppendAfter
<1>8. x \o v.nodes = Run[f].nodes
    <2>1. CASE Kept(f)
        <3>1. v.nodes = Append(y, e) /\ Run[f].nodes = Append(z, e)
            BY <1>5, <1>6, <2>1
        <3> QED
            BY <1>4, <1>7, <3>1
    <2>2. CASE ~Kept(f)
        BY <1>4, <1>5, <1>6, <2>2
    <2> QED
        BY <2>1, <2>2
<1>9. ASSUME NEW c \in Counters
      PROVE  Run[b].count[c] + v.count[c] = Run[f].count[c] + IF c = "files_seen" THEN 0 ELSE 0
    <2> DEFINE i == Run[b].count[c]
               j == k.count[c]
               m == Run[f - 1].count[c]
               n == v.count[c]
               g == Gain(f, c)
               u == IF c = "files_seen" THEN w ELSE 0
    <2>1. i \in Nat /\ j \in Nat /\ m \in Nat /\ n \in Nat /\ g \in Nat /\ u \in Nat /\ Run[f].count[c] = m + g
        <3>1. Run[b] \in SinkType /\ Run[f - 1] \in SinkType
            BY <1>1, RunGives
        <3>2. i \in Nat /\ j \in Nat /\ m \in Nat /\ n \in Nat
            BY <3>1 DEF SinkType
        <3>3. g \in Nat /\ Run[f].count[c] = m + g
            BY RunGives
        <3>4. u \in Nat
            OBVIOUS
        <3> QED
            BY <3>2, <3>3, <3>4
    <2>2. i + j = m + u /\ n + u = j + g
        BY DEF Extends
    <2> HIDE DEF i, j, m, n, g, u
    <2>3. i + n = m + g
        BY <2>1, <2>2, Sums
    <2>4. i + n = Run[f].count[c] + 0
        BY <2>1, <2>3
    <2> QED
        BY <2>4 DEF i, n
<1> QED
    BY <1>8, <1>9 DEF Extends, x

LEMMA PassedExtends ==
    ASSUME ParseTypes, NEW k \in SinkType, NEW b \in 0 .. Len(Files), NEW f \in 1 .. Len(Files),
           Extends(k, b, f - 1, 0), nature[f] \in {"large", "unreadable"}
    PROVE  Extends(Bump(k, {"files_seen", IF nature[f] = "large" THEN "files_skipped_large"
                                                               ELSE "parse_errors"}), b, f, 0)
<1> DEFINE seen == {"files_seen", IF nature[f] = "large" THEN "files_skipped_large" ELSE "parse_errors"}
           v == Bump(k, seen)
<1>1. /\ v \in SinkType /\ v.nodes = k.nodes
      /\ \A c \in Counters : v.count[c] = k.count[c] + IF c \in seen THEN 1 ELSE 0
    BY BumpGives
<1>2. ~Kept(f) /\ \A c \in Counters : Gain(f, c) = IF c \in seen THEN 1 ELSE 0
    BY DEF Kept, Gain, Counts, Counters
<1>3. \A c \in Counters : v.count[c] \in Nat /\ k.count[c] \in Nat
    BY <1>1 DEF SinkType
<1> HIDE DEF v, seen
<1>4. \A c \in Counters : v.count[c] + (IF c = "files_seen" THEN 0 ELSE 0) = k.count[c] + Gain(f, c)
    BY <1>1, <1>2, <1>3
<1>5. Extends(v, b, f, 0)
    BY <1>1, <1>2, <1>4, FileExtends
<1> QED
    BY <1>5 DEF v, seen

LEMMA LostExtends ==
    ASSUME ParseTypes, NEW k \in SinkType, NEW b \in 0 .. Len(Files), NEW f \in 1 .. Len(Files),
           Extends(k, b, f - 1, 1), nature[f] = "wedges"
    PROVE  Extends(Bump(k, {"parse_errors", "parse_timeouts"}), b, f, 0)
<1> DEFINE lost == {"parse_errors", "parse_timeouts"}
           v == Bump(k, lost)
<1>1. /\ v \in SinkType /\ v.nodes = k.nodes
      /\ \A c \in Counters : v.count[c] = k.count[c] + IF c \in lost THEN 1 ELSE 0
    BY BumpGives
<1>2. ~Kept(f) /\ \A c \in Counters : Gain(f, c) = IF c \in lost \cup {"files_seen"} THEN 1 ELSE 0
    BY DEF Kept, Gain, Counts, Counters
<1>3. \A c \in Counters : v.count[c] \in Nat /\ k.count[c] \in Nat
    BY <1>1 DEF SinkType
<1>4. "files_seen" \notin lost
    OBVIOUS
<1> HIDE DEF v, lost
<1>5. \A c \in Counters : v.count[c] + (IF c = "files_seen" THEN 1 ELSE 0) = k.count[c] + Gain(f, c)
    BY <1>1, <1>2, <1>3, <1>4
<1>6. Extends(v, b, f, 0)
    BY <1>1, <1>2, <1>5, FileExtends
<1> QED
    BY <1>6 DEF v, lost

LEMMA ParsedExtends ==
    ASSUME ParseTypes, NEW k \in SinkType, NEW b \in 0 .. Len(Files), NEW f \in 1 .. Len(Files),
           Extends(k, b, f - 1, 1), nature[f] \in {"sound", "flawed", "raises", "swallowed"},
           NEW n \in Task, n.file = f, n.content = 0
    PROVE  Extends(Parsed(k, n), b, f, 0)
<1> DEFINE v == Parsed(k, n)
           e == <<f, 0>>
           Matches == \A c \in Counters :
                          v.count[c] + (IF c = "files_seen" THEN 1 ELSE 0) = k.count[c] + Gain(f, c)
<1>1. v \in SinkType
    BY ParsedGives
<1>2. CASE nature[f] \in {"sound", "flawed"}
    <2>1. PICK c \in {"files_parsed", "parse_errors"} :
              v = Emit(Bump(k, {c}), n) /\ (c = "files_parsed" <=> nature[f] = "sound")
        BY <1>2 DEF Parsed
    <2> DEFINE u == Bump(k, {c})
    <2>2. /\ u \in SinkType /\ u.nodes = k.nodes
          /\ \A d \in Counters : u.count[d] = k.count[d] + IF d = c THEN 1 ELSE 0
        BY BumpGives
    <2> HIDE DEF u
    <2>3. /\ Emit(u, n).nodes = Append(u.nodes, e)
          /\ \A d \in Counters \ {"claims"} : Emit(u, n).count[d] = u.count[d]
        BY <2>2, EmitGives
    <2>4. Emit(u, n).count["claims"] = u.count["claims"] + yield[f]
        BY <2>2 DEF Emit, SinkType, Counters
    <2>5. \A d \in Counters : u.count[d] \in Nat /\ k.count[d] \in Nat
        BY <2>2 DEF SinkType
    <2>6. Kept(f) /\ yield[f] \in Nat
        BY <1>2, FileNumbers DEF Kept, ParseTypes
    <2>7. Gain(f, "claims") = yield[f] /\ "claims" # c /\ "claims" \in Counters
        BY <2>6 DEF Gain, Counters
    <2>8. \A d \in Counters \ {"claims"} : Gain(f, d) = IF d \in {c, "files_seen"} THEN 1 ELSE 0
        BY <1>2, <2>1 DEF Gain, Counts, Counters
    <2>9. v.nodes = Append(k.nodes, e) /\ v = Emit(u, n)
        BY <2>1, <2>2, <2>3 DEF u
    <2>10. Matches
        <3> SUFFICES ASSUME NEW d \in Counters
                     PROVE  v.count[d] + (IF d = "files_seen" THEN 1 ELSE 0) = k.count[d] + Gain(f, d)
            OBVIOUS
        <3> HIDE DEF v, e
        <3>1. CASE d = "claims"
            BY <2>2, <2>4, <2>5, <2>6, <2>7, <2>9, <3>1
        <3>2. CASE d # "claims"
            <4>1. v.count[d] = k.count[d] + IF d = c THEN 1 ELSE 0
                BY <2>2, <2>3, <2>9, <3>2
            <4> QED
                BY <2>1, <2>5, <2>8, <3>2, <4>1
        <3> QED
            BY <3>1, <3>2
    <2> HIDE DEF v, e, Matches
    <2>11. v.nodes = IF Kept(f) THEN Append(k.nodes, e) ELSE k.nodes
        BY <2>6, <2>9
    <2> QED
        BY <1>1, <2>10, <2>11, FileExtends DEF v, e, Matches
<1>3. CASE nature[f] = "raises"
    <2>1. v = Bump(k, {"parse_errors"})
        BY <1>3 DEF Parsed
    <2>2. v.nodes = k.nodes /\ \A c \in Counters : v.count[c] = k.count[c] + IF c = "parse_errors" THEN 1 ELSE 0
        BY <2>1, BumpGives
    <2>3. ~Kept(f) /\ \A c \in Counters : Gain(f, c) = IF c \in {"parse_errors", "files_seen"} THEN 1 ELSE 0
        BY <1>3 DEF Kept, Gain, Counts, Counters
    <2>4. \A c \in Counters : k.count[c] \in Nat
        BY DEF SinkType
    <2> HIDE DEF v
    <2>5. Matches
        BY <2>2, <2>3, <2>4
    <2> QED
        BY <1>1, <2>2, <2>3, <2>5, FileExtends DEF v
<1>4. CASE nature[f] = "swallowed"
    <2>1. v = k
        BY <1>4 DEF Parsed
    <2>2. ~Kept(f) /\ \A c \in Counters : Gain(f, c) = IF c = "files_seen" THEN 1 ELSE 0
        BY <1>4 DEF Kept, Gain, Counts, Counters
    <2>3. \A c \in Counters : k.count[c] \in Nat
        BY DEF SinkType
    <2> HIDE DEF v
    <2>4. Matches
        BY <2>1, <2>2, <2>3
    <2> QED
        BY <1>1, <2>1, <2>2, <2>4, FileExtends DEF v
<1> QED
    BY <1>2, <1>3, <1>4

\* What the ceiling looks at, and what the sinks of two scans that did the same have
\* in common.
LEMMA ExtendsClaims ==
    ASSUME ParseTypes, NEW k \in SinkType, NEW p \in 0 .. Len(Files), NEW w \in {0, 1}, Extends(k, 0, p, w)
    PROVE  k.count["claims"] = Run[p].count["claims"] /\ k.count["capped"] = Run[p].count["capped"]
<1>1. {"claims", "capped"} \subseteq Counters /\ 0 \in 0 .. Len(Files)
    BY FileNumbers DEF Counters
<1>2. \A c \in Counters : Run[0].count[c] = 0 /\ Run[p].count[c] \in Nat /\ k.count[c] \in Nat
    BY RunGives DEF SinkType
<1>3. \A c \in {"claims", "capped"} : Run[0].count[c] + k.count[c] = Run[p].count[c] + 0
    BY <1>1 DEF Extends
<1> QED
    BY <1>1, <1>2, <1>3

LEMMA ExtendsOnce ==
    ASSUME ParseTypes, NEW k \in SinkType, NEW v \in SinkType, NEW p \in 0 .. Len(Files),
           Extends(k, 0, p, 0), Extends(v, 0, p, 0), k.max_claims = v.max_claims
    PROVE  k = v
<1>1. Run[0].nodes = <<>> /\ \A c \in Counters : Run[0].count[c] = 0
    BY RunGives
<1>2. k.nodes = Run[p].nodes /\ v.nodes = Run[p].nodes
    <2>1. <<>> \o k.nodes = k.nodes /\ <<>> \o v.nodes = v.nodes
        BY ConcatEmptySeq DEF SinkType
    <2> QED
        BY <1>1, <2>1 DEF Extends
<1>3. \A c \in Counters : k.count[c] = Run[p].count[c] /\ v.count[c] = Run[p].count[c]
    <2> SUFFICES ASSUME NEW c \in Counters
                 PROVE  k.count[c] = Run[p].count[c] /\ v.count[c] = Run[p].count[c]
        OBVIOUS
    <2>1. Run[p].count[c] \in Nat /\ k.count[c] \in Nat /\ v.count[c] \in Nat
        BY RunGives DEF SinkType
    <2>2. 0 + k.count[c] = Run[p].count[c] + 0 /\ 0 + v.count[c] = Run[p].count[c] + 0
        BY <1>1 DEF Extends
    <2> QED
        BY <2>1, <2>2
<1>4. k.count = v.count
    BY <1>3 DEF SinkType
<1> QED
    BY <1>2, <1>4 DEF SinkType
------------------------------------------------------------------------------
\* Where a scan stands that began after the file b: it took the files up to p, none
\* of them failed it or reached its ceiling, and w more are seen.
Reached(b, p, w, limit, k) ==
    /\ b <= p /\ Extends(k, b, p, w) /\ k.max_claims = limit
    /\ \A f \in b + 1 .. p : nature[f] # "fatal"
    /\ limit > 0 => \A q \in 0 .. p + w - 1 : Run[q].count["claims"] < limit

Stands(b, last, limit, files, task, k) ==
    LET w == IF task = NoTask THEN 0 ELSE 1
        p == last - Len(files) - w IN
    /\ Reached(b, p, w, limit, k)
    /\ \A i \in 1 .. Len(files) : files[i] = p + w + i
    /\ task # NoTask => task.file = p + 1 /\ task.content = 0

\* The sink of a scan that stopped at its ceiling, before the last file.
Cut(limit, k) ==
    \E p \in 0 .. Len(Files) - 1, j \in SinkType :
        /\ limit > 0 /\ Extends(j, 0, p, 0) /\ j.max_claims = limit /\ k = Bump(j, {"capped"})
        /\ Run[p].count["claims"] >= limit
        /\ \A q \in 0 .. p - 1 : Run[q].count["claims"] < limit

LEMMA BumpLimit == \A k, counters : Bump(k, counters).max_claims = k.max_claims
BY DEF Bump

LEMMA StandsBegins ==
    ASSUME ParseTypes, NEW b \in Nat, NEW last \in 0 .. Len(Files), b <= last, NEW limit \in Nat,
           limit > 0 => b = 0,
           NEW files \in Seq(File), Len(files) = last - b, \A i \in 1 .. Len(files) : files[i] = b + i
    PROVE  Stands(b, last, limit, files, NoTask, EmptySink(limit))
<1>1. b \in 0 .. Len(Files) /\ last \in Nat /\ last - Len(files) - 0 = b
    BY FileNumbers
<1>2. EmptySink(limit).max_claims = limit /\ Extends(EmptySink(limit), b, b, 0)
    BY <1>1, EmptyExtends DEF EmptySink
<1>3. Reached(b, b, 0, limit, EmptySink(limit))
    BY <1>1, <1>2 DEF Reached
<1> QED
    BY <1>1, <1>3 DEF Stands

\* The file that comes next, and what lies behind it.
NextAt(b, last, limit, files, k, p) ==
    /\ Reached(b, p, 0, limit, k) /\ Head(files) = p + 1 /\ p < last
    /\ last - Len(Tail(files)) = p + 1 /\ \A i \in 1 .. Len(Tail(files)) : Tail(files)[i] = p + 1 + i
    /\ AtCap(k) <=> (limit > 0 /\ Run[p].count["claims"] >= limit)

LEMMA StandsNext ==
    ASSUME ParseTypes, NEW b \in Nat, NEW last \in 0 .. Len(Files), NEW limit \in Nat,
           limit > 0 => b = 0,
           NEW files \in Seq(File), files # <<>>, NEW k \in SinkType,
           Stands(b, last, limit, files, NoTask, k)
    PROVE  \E p \in 0 .. Len(Files) - 1 : NextAt(b, last, limit, files, k, p)
<1> DEFINE p == last - Len(files)
<1>1. /\ Head(files) = files[1] /\ Len(files) \in Nat \ {0} /\ Len(Tail(files)) = Len(files) - 1
      /\ \A i \in 1 .. Len(Tail(files)) : i + 1 \in 1 .. Len(files) /\ Tail(files)[i] = files[i + 1]
    BY TakeFirst
<1>2. last - Len(files) - 0 = p /\ p \in Int /\ Len(Files) \in Nat
    BY <1>1, FileNumbers
<1>3. Reached(b, p, 0, limit, k) /\ \A i \in 1 .. Len(files) : files[i] = p + 0 + i
    BY <1>2 DEF Stands
<1>4. p \in 0 .. Len(Files) - 1 /\ p < last
    BY <1>1, <1>2, <1>3 DEF Reached
<1>5. Head(files) = p + 1 /\ last - Len(Tail(files)) = p + 1
    BY <1>1, <1>2, <1>3
<1>6. \A i \in 1 .. Len(Tail(files)) : Tail(files)[i] = p + 1 + i
    <2> SUFFICES ASSUME NEW i \in 1 .. Len(Tail(files)) PROVE Tail(files)[i] = p + 1 + i
        OBVIOUS
    <2>1. Tail(files)[i] = p + 0 + (i + 1)
        BY <1>1, <1>3
    <2> QED
        BY <1>2, <2>1
<1>7. AtCap(k) <=> limit > 0 /\ Run[p].count["claims"] >= limit
    <2>1. k.max_claims = limit
        BY <1>3 DEF Reached
    <2>2. ASSUME limit > 0 PROVE k.count["claims"] = Run[p].count["claims"]
        <3>1. Extends(k, 0, p, 0) /\ p \in 0 .. Len(Files)
            BY <1>2, <1>3, <1>4, <2>2 DEF Reached
        <3> QED
            BY <3>1, ExtendsClaims
    <2> QED
        BY <2>1, <2>2 DEF AtCap
<1> HIDE DEF p
<1>8. NextAt(b, last, limit, files, k, p)
    BY <1>3, <1>4, <1>5, <1>6, <1>7 DEF NextAt
<1> QED
    BY <1>4, <1>8

LEMMA ReachedNext ==
    ASSUME ParseTypes, NEW b \in Nat, NEW limit \in Nat, NEW k, NEW v,
           NEW p \in 0 .. Len(Files) - 1, NEW w \in {0, 1}, Reached(b, p, w, limit, k),
           w = 0 => (limit > 0 => Run[p].count["claims"] < limit),
           Extends(v, b, p + 1, 0), v.max_claims = limit, nature[p + 1] # "fatal"
    PROVE  Reached(b, p + 1, 0, limit, v)
<1>1. b <= p + 1 /\ \A f \in b + 1 .. p + 1 : f \in b + 1 .. p \/ f = p + 1
    BY FileNumbers DEF Reached
<1>2. \A f \in b + 1 .. p + 1 : nature[f] # "fatal"
    BY <1>1 DEF Reached
<1>3. ASSUME limit > 0, NEW q \in 0 .. (p + 1) + 0 - 1 PROVE Run[q].count["claims"] < limit
    <2>1. q \in 0 .. p + w - 1 \/ (w = 0 /\ q = p)
        BY FileNumbers
    <2> QED
        BY <1>3, <2>1 DEF Reached
<1> QED
    BY <1>1, <1>2, <1>3 DEF Reached

\* A file too large or unreadable is passed over.
LEMMA StandsPasses ==
    ASSUME ParseTypes, NEW b \in Nat, NEW last \in 0 .. Len(Files), NEW limit \in Nat,
           limit > 0 => b = 0,
           NEW files \in Seq(File), files # <<>>, NEW k \in SinkType,
           Stands(b, last, limit, files, NoTask, k), ~AtCap(k),
           nature[Head(files)] \in {"large", "unreadable"}
    PROVE  Stands(b, last, limit, Tail(files), NoTask,
                  Bump(k, {"files_seen", IF nature[Head(files)] = "large" THEN "files_skipped_large"
                                                                          ELSE "parse_errors"}))
<1>1. PICK p \in 0 .. Len(Files) - 1 : NextAt(b, last, limit, files, k, p)
    BY StandsNext
<1>0. /\ Reached(b, p, 0, limit, k) /\ Head(files) = p + 1 /\ p < last
      /\ last - Len(Tail(files)) = p + 1 /\ \A i \in 1 .. Len(Tail(files)) : Tail(files)[i] = p + 1 + i
      /\ AtCap(k) <=> (limit > 0 /\ Run[p].count["claims"] >= limit)
    BY <1>1 DEF NextAt
<1> DEFINE v == Bump(k, {"files_seen", IF nature[p + 1] = "large" THEN "files_skipped_large"
                                                                 ELSE "parse_errors"})
<1>2. p + 1 \in 1 .. Len(Files) /\ (p + 1) - 1 = p /\ p \in Nat /\ p \in 0 .. Len(Files) /\ b \in 0 .. Len(Files)
      /\ Extends(k, b, p, 0) /\ k.max_claims = limit
    <2>1. b <= p /\ Extends(k, b, p, 0) /\ k.max_claims = limit
        BY <1>0 DEF Reached
    <2> QED
        BY <2>1, FileNumbers
<1>3. Extends(v, b, p + 1, 0) /\ v.max_claims = limit
    BY <1>0, <1>2, PassedExtends, BumpLimit
<1>4. limit > 0 => Run[p].count["claims"] < limit
    <2>1. Run[p].count["claims"] \in Nat
        BY <1>2, RunGives DEF SinkType, Counters
    <2> QED
        BY <1>0, <2>1
<1> HIDE DEF v
<1>5. Reached(b, p + 1, 0, limit, v)
    BY <1>0, <1>3, <1>4, ReachedNext
<1>6. Stands(b, last, limit, Tail(files), NoTask, v)
    <2>1. last - Len(Tail(files)) - 0 = p + 1
        BY <1>0, <1>2
    <2>2. \A i \in 1 .. Len(Tail(files)) : Tail(files)[i] = (p + 1) + 0 + i
        BY <1>0, <1>2
    <2> QED
        BY <1>5, <2>1, <2>2 DEF Stands
<1> QED
    BY <1>0, <1>6 DEF v

\* A file is handed to the pool.
LEMMA StandsAsks ==
    ASSUME ParseTypes, NEW b \in Nat, NEW last \in 0 .. Len(Files), NEW limit \in Nat,
           limit > 0 => b = 0,
           NEW files \in Seq(File), files # <<>>, NEW k \in SinkType,
           Stands(b, last, limit, files, NoTask, k), ~AtCap(k),
           NEW n, n # NoTask, n.file = Head(files), n.content = 0
    PROVE  Stands(b, last, limit, Tail(files), n, Bump(k, {"files_seen"}))
<1>1. PICK p \in 0 .. Len(Files) - 1 : NextAt(b, last, limit, files, k, p)
    BY StandsNext
<1>0. /\ Reached(b, p, 0, limit, k) /\ Head(files) = p + 1 /\ p < last
      /\ last - Len(Tail(files)) = p + 1 /\ \A i \in 1 .. Len(Tail(files)) : Tail(files)[i] = p + 1 + i
      /\ AtCap(k) <=> (limit > 0 /\ Run[p].count["claims"] >= limit)
    BY <1>1 DEF NextAt
<1> DEFINE v == Bump(k, {"files_seen"})
<1>2. p \in Nat /\ p \in 0 .. Len(Files) /\ b \in 0 .. Len(Files) /\ Extends(k, b, p, 0) /\ k.max_claims = limit
    <2>1. b <= p /\ Extends(k, b, p, 0) /\ k.max_claims = limit
        BY <1>0 DEF Reached
    <2> QED
        BY <2>1, FileNumbers
<1>3. Extends(v, b, p, 1) /\ v.max_claims = limit
    BY <1>2, SeenExtends, BumpLimit
<1>4. ASSUME limit > 0, NEW q \in 0 .. p + 1 - 1 PROVE Run[q].count["claims"] < limit
    <2>1. Run[p].count["claims"] \in Nat
        BY <1>2, RunGives DEF SinkType, Counters
    <2>2. q \in 0 .. p + 0 - 1 \/ q = p
        BY <1>2
    <2> QED
        BY <1>0, <1>4, <2>1, <2>2 DEF Reached
<1> HIDE DEF v
<1>5. Reached(b, p, 1, limit, v)
    BY <1>0, <1>3, <1>4 DEF Reached
<1>6. Stands(b, last, limit, Tail(files), n, v)
    <2>1. last - Len(Tail(files)) - 1 = p
        BY <1>0, <1>2
    <2>2. \A i \in 1 .. Len(Tail(files)) : Tail(files)[i] = p + 1 + i
        BY <1>0
    <2> QED
        BY <1>0, <1>5, <2>1, <2>2 DEF Stands
<1> QED
    BY <1>6 DEF v

\* The ceiling.
LEMMA StandsStops ==
    ASSUME ParseTypes, NEW b \in Nat, NEW last \in 0 .. Len(Files), NEW limit \in Nat,
           limit > 0 => b = 0,
           NEW files \in Seq(File), files # <<>>, NEW k \in SinkType,
           Stands(b, last, limit, files, NoTask, k), AtCap(k)
    PROVE  Cut(limit, Bump(k, {"capped"}))
<1>1. PICK p \in 0 .. Len(Files) - 1 : NextAt(b, last, limit, files, k, p)
    BY StandsNext
<1>0. /\ Reached(b, p, 0, limit, k) /\ Head(files) = p + 1 /\ p < last
      /\ last - Len(Tail(files)) = p + 1 /\ \A i \in 1 .. Len(Tail(files)) : Tail(files)[i] = p + 1 + i
      /\ AtCap(k) <=> (limit > 0 /\ Run[p].count["claims"] >= limit)
    BY <1>1 DEF NextAt
<1>2. b = 0 /\ limit > 0 /\ Run[p].count["claims"] >= limit
    BY <1>0
<1>3. Extends(k, 0, p, 0) /\ k.max_claims = limit /\ \A q \in 0 .. p + 0 - 1 : Run[q].count["claims"] < limit
    BY <1>0, <1>2 DEF Reached
<1>4. p + 0 - 1 = p - 1
    BY FileNumbers
<1> QED
    BY <1>2, <1>3, <1>4 DEF Cut

\* The file a scan waits for.
LEMMA StandsWaits ==
    ASSUME ParseTypes, NEW b \in Nat, NEW last \in 0 .. Len(Files), NEW limit \in Nat,
           NEW files \in Seq(File), NEW k, NEW n \in Task, Stands(b, last, limit, files, n, k)
    PROVE  \E p \in 0 .. Len(Files) - 1 :
              /\ Reached(b, p, 1, limit, k) /\ n.file = p + 1 /\ n.content = 0
              /\ last - Len(files) = p + 1 /\ \A i \in 1 .. Len(files) : files[i] = p + 1 + i
<1> DEFINE p == last - Len(files) - 1
<1>1. n # NoTask /\ n.file \in File
    BY Tasks
<1>2. /\ Reached(b, p, 1, limit, k) /\ n.file = p + 1 /\ n.content = 0
      /\ \A i \in 1 .. Len(files) : files[i] = p + 1 + i
    BY <1>1 DEF Stands
<1>3. p \in Int /\ last - Len(files) = p + 1
    OBVIOUS
<1> HIDE DEF p
<1>4. p \in 0 .. Len(Files) - 1
    BY <1>1, <1>2, <1>3, FileNumbers
<1> QED
    BY <1>2, <1>3, <1>4

LEMMA StandsGoesOn ==
    ASSUME ParseTypes, NEW b \in Nat, NEW last \in 0 .. Len(Files), NEW limit \in Nat,
           NEW files \in Seq(File), NEW k \in SinkType, NEW n \in Task,
           Stands(b, last, limit, files, n, k), NEW v,
           nature[n.file] # "fatal", v.max_claims = limit,
           Extends(k, b, n.file - 1, 1) => Extends(v, b, n.file, 0)
    PROVE  Stands(b, last, limit, files, NoTask, v)
<1>1. PICK p \in 0 .. Len(Files) - 1 :
          /\ Reached(b, p, 1, limit, k) /\ n.file = p + 1 /\ n.content = 0
          /\ last - Len(files) = p + 1 /\ \A i \in 1 .. Len(files) : files[i] = p + 1 + i
    BY StandsWaits
<1>2. p \in Nat /\ (p + 1) - 1 = p
    BY FileNumbers
<1>3. Extends(v, b, p + 1, 0)
    BY <1>1, <1>2 DEF Reached
<1>4. Reached(b, p + 1, 0, limit, v)
    <2>1. nature[p + 1] # "fatal" /\ (1 = 0 => (limit > 0 => Run[p].count["claims"] < limit)) /\ 1 \in {0, 1}
        BY <1>1
    <2> QED
        BY <1>1, <1>3, <2>1, ReachedNext
<1>5. last - Len(files) - 0 = p + 1 /\ \A i \in 1 .. Len(files) : files[i] = (p + 1) + 0 + i
    BY <1>1, <1>2
<1> QED
    BY <1>4, <1>5 DEF Stands

LEMMA ParsedLimit ==
    ASSUME NEW k, NEW n, nature[n.file] \in {"sound", "flawed", "raises", "swallowed"}
    PROVE  Parsed(k, n).max_claims = k.max_claims
<1>1. \A j : Emit(j, n).max_claims = j.max_claims
    BY DEF Emit
<1> QED
    BY <1>1, BumpLimit DEF Parsed

\* The scan goes on when the parse it waits for ends, or is given up.
LEMMA StandsParses ==
    ASSUME ParseTypes, NEW b \in Nat, b <= Len(Files), NEW last \in 0 .. Len(Files), NEW limit \in Nat,
           NEW files \in Seq(File), NEW k \in SinkType, NEW n \in Task,
           Stands(b, last, limit, files, n, k),
           nature[n.file] \in {"sound", "flawed", "raises", "swallowed"}
    PROVE  Stands(b, last, limit, files, NoTask, Parsed(k, n))
<1>1. PICK p \in 0 .. Len(Files) - 1 : Reached(b, p, 1, limit, k) /\ n.file = p + 1 /\ n.content = 0
    BY StandsWaits
<1>2. n.file \in 1 .. Len(Files) /\ b \in 0 .. Len(Files) /\ k.max_claims = limit
    BY <1>1, FileNumbers DEF Reached
<1>3. Extends(k, b, n.file - 1, 1) => Extends(Parsed(k, n), b, n.file, 0)
    BY <1>1, <1>2, ParsedExtends
<1>4. Parsed(k, n).max_claims = limit
    BY <1>2, ParsedLimit
<1> QED
    BY <1>3, <1>4, StandsGoesOn

LEMMA StandsLoses ==
    ASSUME ParseTypes, NEW b \in Nat, b <= Len(Files), NEW last \in 0 .. Len(Files), NEW limit \in Nat,
           NEW files \in Seq(File), NEW k \in SinkType, NEW n \in Task,
           Stands(b, last, limit, files, n, k), nature[n.file] = "wedges"
    PROVE  Stands(b, last, limit, files, NoTask, Bump(k, {"parse_errors", "parse_timeouts"}))
<1>1. PICK p \in 0 .. Len(Files) - 1 : Reached(b, p, 1, limit, k) /\ n.file = p + 1 /\ n.content = 0
    BY StandsWaits
<1>2. n.file \in 1 .. Len(Files) /\ b \in 0 .. Len(Files) /\ k.max_claims = limit
    BY <1>1, FileNumbers DEF Reached
<1>3. Extends(k, b, n.file - 1, 1) => Extends(Bump(k, {"parse_errors", "parse_timeouts"}), b, n.file, 0)
    BY <1>2, LostExtends
<1> QED
    BY <1>2, <1>3, BumpLimit, StandsGoesOn
------------------------------------------------------------------------------
\* The scans of a sharded repository: what each works on, and how far it is.
SliceEnd(i) == IF i = Slices THEN Len(Files) ELSE Upto(i)
BaseOf(s) == IF s \in Child THEN Upto(on[s] - 1) ELSE 0
LastOf(s) == IF s \in Child THEN SliceEnd(on[s]) ELSE Len(Files)
Limit(s) == IF s \in Child THEN 0 ELSE MaxClaims
Works(s) == s \in begun /\ (s \in Child => on[s] # 0)

SomeFatal == \E f \in File : nature[f] = "fatal"
Failed(s) == s \in raised /\ Through(s) /\ SomeFatal
Stopped(s) == s \notin raised /\ s \notin Child /\ Through(s) /\ Cut(MaxClaims, sink[s])
Underway(s) == s \notin raised /\ Stands(BaseOf(s), LastOf(s), Limit(s), todo[s], asked[s], sink[s])
FollowsRun(s) == Works(s) => Failed(s) \/ Stopped(s) \/ Underway(s)

ChunkFollows(i) ==
    /\ Extends(chunks[i], Upto(i - 1), SliceEnd(i), 0)
    /\ \A f \in Upto(i - 1) + 1 .. SliceEnd(i) : nature[f] # "fatal"

Sharders == {Serial, Parent} \cup Child

LEMMA SliceEndIs ==
    ASSUME NEW i \in Nat \ {0}, i <= Slices
    PROVE  /\ Upto(i - 1) \in Nat /\ SliceEnd(i) \in 0 .. Len(Files) /\ Upto(i - 1) < SliceEnd(i)
           /\ SliceEnd(i - 1) = Upto(i - 1)
           /\ Slice(i) \in Seq(File) /\ Len(Slice(i)) = SliceEnd(i) - Upto(i - 1)
           /\ \A k \in 1 .. Len(Slice(i)) : Slice(i)[k] = Upto(i - 1) + k
<1>1. Len(Files) \in Nat /\ ChunkFiles \in Nat \ {0} /\ Slices \in Nat /\ Slices >= 1
      /\ (Slices - 1) * ChunkFiles <= Len(Files) - 1
    BY FileNumbers, ShardAssumption, SlicesNumber, SliceEnds
<1>2. i * ChunkFiles \in Nat /\ (i - 1) * ChunkFiles \in Nat
    BY <1>1
<1>3. i # Slices => i * ChunkFiles <= (Slices - 1) * ChunkFiles
    BY <1>1
<1>4. /\ Slice(i) \in Seq(File) /\ Len(Slice(i)) = SliceEnd(i) - Upto(i - 1) /\ Len(Slice(i)) \in Nat \ {0}
      /\ \A k \in 1 .. Len(Slice(i)) : Slice(i)[k] = Upto(i - 1) + k
    BY SliceFacts DEF SliceEnd
<1>5. Upto(i - 1) \in Nat /\ SliceEnd(i) \in 0 .. Len(Files)
    BY <1>1, <1>2, <1>3 DEF Upto, SliceEnd
<1>6. SliceEnd(i - 1) = Upto(i - 1)
    BY <1>1 DEF SliceEnd
<1> QED
    BY <1>4, <1>5, <1>6

LEMMA WorkBounds ==
    ASSUME HostTypes, NEW s \in Sharders, Works(s)
    PROVE  /\ BaseOf(s) \in Nat /\ LastOf(s) \in 0 .. Len(Files) /\ BaseOf(s) <= LastOf(s)
           /\ BaseOf(s) <= Len(Files) /\ Limit(s) \in Nat /\ (Limit(s) > 0 => BaseOf(s) = 0)
<1>1. Len(Files) \in Nat /\ MaxClaims \in Nat /\ Slices \in Nat
    BY FileNumbers, SlicesNumber
<1>2. CASE s \in Child
    <2>1. on[s] \in Nat \ {0} /\ on[s] <= Slices
        BY <1>1, <1>2 DEF HostTypes, Works
    <2>2. Upto(on[s] - 1) \in Nat /\ SliceEnd(on[s]) \in 0 .. Len(Files) /\ Upto(on[s] - 1) < SliceEnd(on[s])
        BY <2>1, SliceEndIs
    <2> QED
        BY <1>1, <1>2, <2>2 DEF BaseOf, LastOf, Limit
<1>3. CASE s \notin Child
    BY <1>1, <1>3 DEF BaseOf, LastOf, Limit
<1> QED
    BY <1>2, <1>3

\* A measure that does not move.
LEMMA FollowGoesOn ==
    ASSUME nature' = nature, yield' = yield, NEW s, NEW b, NEW last, NEW limit, NEW files, NEW n, NEW k,
           Stands(b, last, limit, files, n, k), todo'[s] = files, asked'[s] = n, sink'[s] = k,
           BaseOf(s)' = b, LastOf(s)' = last, Limit(s) = limit, s \notin raised'
    PROVE  FollowsRun(s)'
<1>1. Run' = Run
    BY RunStays
<1>2. Stands(b, last, limit, files, n, k)'
    BY <1>1 DEF Stands, Reached, Extends
<1>3. Underway(s)'
    BY <1>2 DEF Underway, Limit, Stands, Reached, Extends
<1> QED
    BY <1>3 DEF FollowsRun

LEMMA FollowStops ==
    ASSUME nature' = nature, yield' = yield, NEW s, NEW k,
           s \notin Child, Cut(MaxClaims, k), sink'[s] = k, todo'[s] = <<>>, asked'[s] = NoTask, s \notin raised'
    PROVE  FollowsRun(s)'
<1>1. Run' = Run
    BY RunStays
<1>2. Cut(MaxClaims, k)'
    BY <1>1 DEF Cut, Extends
<1>3. Stopped(s)'
    BY <1>2 DEF Stopped, Through, Cut, Extends
<1> QED
    BY <1>3 DEF FollowsRun

LEMMA FollowStays ==
    ASSUME nature' = nature, yield' = yield, NEW s,
           todo'[s] = todo[s], asked'[s] = asked[s], sink'[s] = sink[s], s \in raised' <=> s \in raised,
           s \in Child => on'[s] = on[s], Works(s)' => Works(s), FollowsRun(s)
    PROVE  FollowsRun(s)'
<1> SUFFICES ASSUME Works(s)' PROVE FollowsRun(s)'
    BY DEF FollowsRun
<1>1. CASE Failed(s)
    <2>1. Failed(s)'
        BY <1>1 DEF Failed, Through, SomeFatal
    <2> QED
        BY <2>1 DEF FollowsRun
<1>2. CASE Stopped(s)
    BY <1>2, FollowStops DEF Stopped, Through
<1>3. CASE Underway(s)
    <2>1. BaseOf(s)' = BaseOf(s) /\ LastOf(s)' = LastOf(s)
        BY DEF BaseOf, LastOf, SliceEnd
    <2>2. s \notin raised' /\ Stands(BaseOf(s), LastOf(s), Limit(s), todo[s], asked[s], sink[s])
        BY <1>3 DEF Underway
    <2> QED
        BY <2>1, <2>2, FollowGoesOn
<1> QED
    BY <1>1, <1>2, <1>3 DEF FollowsRun

\* A chunk that does not move.
LEMMA ChunkStays ==
    ASSUME nature' = nature, yield' = yield, NEW i, chunks'[i] = chunks[i], ChunkFollows(i)
    PROVE  ChunkFollows(i)'
<1>1. Run' = Run
    BY RunStays
<1> QED
    BY <1>1 DEF ChunkFollows, Extends, SliceEnd
------------------------------------------------------------------------------
\* A scan that moves goes on along the run.
LEMMA NotThrough ==
    ASSUME NEW s, Works(s), FollowsRun(s), ~Through(s)
    PROVE  s \notin raised /\ Stands(BaseOf(s), LastOf(s), Limit(s), todo[s], asked[s], sink[s])
BY DEF FollowsRun, Failed, Stopped, Underway

LEMMA NextFollows ==
    ASSUME ScanInv, version = [f \in File |-> 0], NEW s \in Sharders, Works(s), FollowsRun(s),
           NextFile(s), on' = on
    PROVE  FollowsRun(s)'
<1> DEFINE b == BaseOf(s)
           last == LastOf(s)
           limit == Limit(s)
           k == sink[s]
           files == todo[s]
           n == [scanner |-> s, file |-> Head(files), content |-> version[Head(files)]]
<1>1. /\ ParseTypes /\ HostTypes /\ s \in Scanner
      /\ asked[s] = NoTask /\ todo[s] # <<>> /\ ~AtCap(sink[s]) /\ ~Through(s)
      /\ nature' = nature /\ yield' = yield /\ raised' = raised
    BY ShardAssumption DEF ScanInv, NextFile, inputs, Through, Sharders
<1>2. /\ s \notin raised /\ Stands(b, last, limit, files, NoTask, k)
      /\ b \in Nat /\ last \in 0 .. Len(Files) /\ limit \in Nat /\ (limit > 0 => b = 0)
      /\ files \in Seq(File) /\ files # <<>> /\ k \in SinkType /\ ~AtCap(k)
    BY <1>1, NotThrough, WorkBounds DEF ParseTypes
<1>3. b' = b /\ last' = last
    BY DEF BaseOf, LastOf, SliceEnd
<1>4. /\ Head(files) \in File /\ version[Head(files)] = 0 /\ n # NoTask
      /\ n.file = Head(files) /\ n.content = 0
    <2>1. Head(files) \in File
        BY <1>2, TakeFirst
    <2>2. s # "none" \/ Head(files) # NoFile
        BY <2>1, FileNumbers DEF NoFile
    <2> QED
        BY <2>1, <2>2 DEF NoTask
<1>5. todo'[s] = Tail(files)
    BY <1>1 DEF NextFile, ParseTypes
<1>6. CASE nature[Head(files)] \in {"large", "unreadable"}
    <2> DEFINE v == Bump(k, {"files_seen", IF nature[Head(files)] = "large" THEN "files_skipped_large"
                                                                         ELSE "parse_errors"})
    <2>1. sink'[s] = v /\ asked'[s] = NoTask
        BY <1>1, <1>6 DEF NextFile, ParseTypes
    <2> HIDE DEF b, last, limit, k, files
    <2>2. Stands(b, last, limit, Tail(files), NoTask, v)
        BY <1>1, <1>2, <1>6, StandsPasses
    <2> HIDE DEF v
    <2>3. Limit(s) = limit /\ BaseOf(s)' = b /\ LastOf(s)' = last
        BY <1>3 DEF limit, b, last
    <2> QED
        BY <1>1, <1>2, <1>5, <2>1, <2>2, <2>3, FollowGoesOn
<1>7. CASE nature[Head(files)] \notin {"large", "unreadable"}
    <2> DEFINE v == Bump(k, {"files_seen"})
    <2>1. sink'[s] = v /\ asked'[s] = n
        BY <1>1, <1>7 DEF NextFile, ParseTypes
    <2>2. Limit(s) = limit /\ BaseOf(s)' = b /\ LastOf(s)' = last
        BY <1>3
    <2> HIDE DEF b, last, limit, k, files, n
    <2>3. Stands(b, last, limit, Tail(files), n, v)
        BY <1>1, <1>2, <1>4, StandsAsks
    <2> HIDE DEF v
    <2> QED
        BY <1>1, <1>2, <1>5, <2>1, <2>2, <2>3, FollowGoesOn
<1> QED
    BY <1>6, <1>7

LEMMA StopFollows ==
    ASSUME ScanInv, NEW s \in Sharders, Works(s), FollowsRun(s), StopAtCap(s)
    PROVE  FollowsRun(s)'
<1>1. /\ ParseTypes /\ HostTypes /\ s \in Scanner
      /\ asked[s] = NoTask /\ todo[s] # <<>> /\ AtCap(sink[s]) /\ ~Through(s)
      /\ nature' = nature /\ yield' = yield /\ raised' = raised /\ asked' = asked
    BY ShardAssumption DEF ScanInv, StopAtCap, inputs, Through, Sharders
<1>2. /\ s \notin raised /\ Stands(BaseOf(s), LastOf(s), Limit(s), todo[s], NoTask, sink[s])
      /\ BaseOf(s) \in Nat /\ LastOf(s) \in 0 .. Len(Files) /\ Limit(s) \in Nat
      /\ (Limit(s) > 0 => BaseOf(s) = 0) /\ todo[s] \in Seq(File) /\ sink[s] \in SinkType
    BY <1>1, NotThrough, WorkBounds DEF ParseTypes
<1>3. Cut(Limit(s), Bump(sink[s], {"capped"}))
    BY <1>1, <1>2, StandsStops
<1>4. s \notin Child
    BY <1>3 DEF Cut, Limit
<1>5. Limit(s) = MaxClaims
    BY <1>4 DEF Limit
<1>6. todo'[s] = <<>> /\ sink'[s] = Bump(sink[s], {"capped"}) /\ asked'[s] = NoTask
    BY <1>1 DEF StopAtCap, ParseTypes
<1>7. s \notin raised'
    BY <1>1, <1>2
<1> DEFINE v == Bump(sink[s], {"capped"})
<1>8. Cut(MaxClaims, v) /\ sink'[s] = v
    BY <1>3, <1>5, <1>6
<1> HIDE DEF v
<1> QED
    BY <1>1, <1>4, <1>6, <1>7, <1>8, FollowStops

LEMMA LossFollows ==
    ASSUME WedgeInv, OneWedge, NEW s \in Sharders, Works(s), FollowsRun(s), GivesUp(s), on' = on
    PROVE  FollowsRun(s)'
<1>1. /\ ParseTypes /\ HostTypes /\ s \in Scanner
      /\ asked[s] # NoTask /\ ~Through(s) /\ asked[s] \in Task
      /\ nature' = nature /\ yield' = yield /\ raised' = raised /\ todo' = todo
    BY ShardAssumption DEF WedgeInv, ScanInv, GivesUp, inputs, Through, Sharders, ParseTypes
<1>2. nature[asked[s].file] = "wedges"
    BY <1>1, OnlyWedgesOverrun DEF Wedges
<1>3. /\ s \notin raised /\ Stands(BaseOf(s), LastOf(s), Limit(s), todo[s], asked[s], sink[s])
      /\ BaseOf(s) \in Nat /\ BaseOf(s) <= Len(Files) /\ LastOf(s) \in 0 .. Len(Files) /\ Limit(s) \in Nat
      /\ todo[s] \in Seq(File) /\ sink[s] \in SinkType
    BY <1>1, NotThrough, WorkBounds DEF ParseTypes
<1> DEFINE v == Bump(sink[s], {"parse_errors", "parse_timeouts"})
<1>4. Stands(BaseOf(s), LastOf(s), Limit(s), todo[s], NoTask, v)
    BY <1>1, <1>2, <1>3, StandsLoses
<1>5. asked'[s] = NoTask /\ sink'[s] = v /\ todo'[s] = todo[s] /\ s \notin raised'
    BY <1>1, <1>3 DEF GivesUp, ParseTypes
<1>6. BaseOf(s)' = BaseOf(s) /\ LastOf(s)' = LastOf(s)
    BY DEF BaseOf, LastOf, SliceEnd
<1> HIDE DEF v
<1> QED
    BY <1>1, <1>4, <1>5, <1>6, FollowGoesOn

LEMMA ParseFollows ==
    ASSUME ScanInv, NEW p \in Process, NEW t \in 1 .. MaxWorkers, ThreadEnds(p, t), on' = on,
           Waited(pool[p].thread[t]), NEW s \in Sharders, s = pool[p].thread[t].scanner,
           Works(s), FollowsRun(s)
    PROVE  FollowsRun(s)'
<1> DEFINE n == pool[p].thread[t]
<1>1. /\ ParseTypes /\ HostTypes /\ OnlyParses /\ s \in Scanner /\ n \in Task
      /\ asked[s] = n /\ asked'[s] = NoTask /\ sink'[s] = Parsed(sink[s], n)
      /\ \/ nature[n.file] # "fatal" /\ todo' = todo /\ raised' = raised
         \/ /\ nature[n.file] = "fatal" /\ raised' = raised \cup {s}
            /\ todo' = [todo EXCEPT ![s] = <<>>]
      /\ nature' = nature /\ yield' = yield
    BY ThreadEndsEffect, ShardAssumption DEF ScanInv, Sharders, inputs
<1>2. ~Through(s) /\ nature[n.file] # "wedges" /\ n.file \in File /\ nature[n.file] \notin {"large", "unreadable"}
    BY <1>1, Tasks DEF ThreadEnds, Through, OnlyParses
<1> HIDE DEF n
<1>3. CASE nature[n.file] = "fatal"
    <2>1. todo'[s] = <<>> /\ s \in raised'
        BY <1>1, <1>3 DEF ParseTypes
    <2>2. Failed(s)'
        BY <1>1, <1>2, <1>3, <2>1 DEF Failed, Through, SomeFatal
    <2> QED
        BY <2>2 DEF FollowsRun
<1>4. CASE nature[n.file] # "fatal"
    <2>1. nature[n.file] \in {"sound", "flawed", "raises", "swallowed"}
        BY <1>1, <1>2, <1>4 DEF ParseTypes, Natures
    <2>2. /\ s \notin raised /\ Stands(BaseOf(s), LastOf(s), Limit(s), todo[s], n, sink[s])
          /\ BaseOf(s) \in Nat /\ BaseOf(s) <= Len(Files) /\ LastOf(s) \in 0 .. Len(Files) /\ Limit(s) \in Nat
          /\ todo[s] \in Seq(File) /\ sink[s] \in SinkType
        BY <1>1, <1>2, NotThrough, WorkBounds DEF ParseTypes
    <2> DEFINE v == Parsed(sink[s], n)
    <2>3. Stands(BaseOf(s), LastOf(s), Limit(s), todo[s], NoTask, v)
        BY <1>1, <2>1, <2>2, StandsParses
    <2>4. asked'[s] = NoTask /\ sink'[s] = v /\ todo'[s] = todo[s] /\ s \notin raised'
        BY <1>1, <1>4, <2>2
    <2>5. BaseOf(s)' = BaseOf(s) /\ LastOf(s)' = LastOf(s)
        BY DEF BaseOf, LastOf, SliceEnd
    <2> HIDE DEF v
    <2> QED
        BY <1>1, <2>3, <2>4, <2>5, FollowGoesOn
<1> QED
    BY <1>3, <1>4

\* A scan that begins.
LEMMA BeginFollows ==
    ASSUME ScanInv, NEW s \in Sharders, Through(s),
           NEW b \in Nat, NEW last \in 0 .. Len(Files), b <= last, NEW limit \in Nat, limit > 0 => b = 0,
           NEW files \in Seq(File), Len(files) = last - b, \A i \in 1 .. Len(files) : files[i] = b + i,
           Begin(s, files, limit), BaseOf(s)' = b, LastOf(s)' = last, Limit(s) = limit
    PROVE  FollowsRun(s)'
<1>1. /\ s \in Scanner /\ ParseTypes
      /\ todo'[s] = files /\ sink'[s] = EmptySink(limit) /\ asked'[s] = NoTask
      /\ nature' = nature /\ yield' = yield /\ s \notin raised'
    BY BeginEffect, ShardAssumption DEF Sharders, ScanInv
<1> DEFINE v == EmptySink(limit)
<1>2. Stands(b, last, limit, files, NoTask, v)
    BY <1>1, StandsBegins
<1>3. sink'[s] = v
    BY <1>1
<1> HIDE DEF v
<1> QED
    BY <1>1, <1>2, <1>3, FollowGoesOn
------------------------------------------------------------------------------
\* A scan of the whole repository that no file fails ends in one way.
Whole(k) == Cut(MaxClaims, k) \/ Reached(0, Len(Files), 0, MaxClaims, k)

LEMMA OneOutcome ==
    ASSUME ParseTypes, NEW k \in SinkType, NEW v \in SinkType, Whole(k), Whole(v)
    PROVE  k = v
<1>1. Len(Files) \in Nat /\ MaxClaims \in Nat /\ Len(Files) + 0 - 1 = Len(Files) - 1
    BY FileNumbers
<1>2. \A q \in 0 .. Len(Files) : Run[q].count["claims"] \in Nat
    BY RunGives DEF SinkType, Counters
<1>3. ~(Cut(MaxClaims, k) /\ Reached(0, Len(Files), 0, MaxClaims, v))
    BY <1>1, <1>2 DEF Cut, Reached
<1>4. ~(Cut(MaxClaims, v) /\ Reached(0, Len(Files), 0, MaxClaims, k))
    BY <1>1, <1>2 DEF Cut, Reached
<1>5. CASE Reached(0, Len(Files), 0, MaxClaims, k) /\ Reached(0, Len(Files), 0, MaxClaims, v)
    <2>1. Extends(k, 0, Len(Files), 0) /\ Extends(v, 0, Len(Files), 0) /\ k.max_claims = v.max_claims
        BY <1>5 DEF Reached
    <2> QED
        BY <1>1, <2>1, ExtendsOnce
<1>6. CASE Cut(MaxClaims, k) /\ Cut(MaxClaims, v)
    <2>1. PICK p \in 0 .. Len(Files) - 1, j \in SinkType :
              /\ Extends(j, 0, p, 0) /\ j.max_claims = MaxClaims /\ k = Bump(j, {"capped"})
              /\ Run[p].count["claims"] >= MaxClaims
              /\ \A q \in 0 .. p - 1 : Run[q].count["claims"] < MaxClaims
        BY <1>6 DEF Cut
    <2>2. PICK q \in 0 .. Len(Files) - 1, i \in SinkType :
              /\ Extends(i, 0, q, 0) /\ i.max_claims = MaxClaims /\ v = Bump(i, {"capped"})
              /\ Run[q].count["claims"] >= MaxClaims
              /\ \A r \in 0 .. q - 1 : Run[r].count["claims"] < MaxClaims
        BY <1>6 DEF Cut
    <2>3. p \in 0 .. Len(Files) /\ q \in 0 .. Len(Files)
        BY <1>1
    <2>4. ~(p < q) /\ ~(q < p)
        <3>1. Run[p].count["claims"] \in Nat /\ Run[q].count["claims"] \in Nat
            BY <1>2, <2>3
        <3>2. p < q => p \in 0 .. q - 1
            BY <2>3
        <3>3. q < p => q \in 0 .. p - 1
            BY <2>3
        <3> QED
            BY <1>1, <2>1, <2>2, <3>1, <3>2, <3>3
    <2>5. p = q
        BY <2>3, <2>4
    <2>6. j = i
        BY <2>1, <2>2, <2>3, <2>5, ExtendsOnce
    <2> QED
        BY <2>1, <2>2, <2>6
<1> QED
    BY <1>3, <1>4, <1>5, <1>6 DEF Whole

\* Where a scan that is through has come to.
LEMMA ThroughFollows ==
    ASSUME ScanInv, NEW s \in Sharders, Works(s), FollowsRun(s), Through(s)
    PROVE  \/ s \in raised /\ SomeFatal
           \/ s \notin raised /\ s \notin Child /\ Cut(MaxClaims, sink[s])
           \/ s \notin raised /\ Reached(BaseOf(s), LastOf(s), 0, Limit(s), sink[s])
<1>1. CASE Underway(s)
    <2>1. Stands(BaseOf(s), LastOf(s), Limit(s), <<>>, NoTask, sink[s]) /\ s \notin raised
        BY <1>1 DEF Underway, Through
    <2>2. LastOf(s) \in Nat /\ LastOf(s) - Len(<<>>) - 0 = LastOf(s)
        BY WorkBounds, FileNumbers DEF ScanInv
    <2>3. Reached(BaseOf(s), LastOf(s), 0, Limit(s), sink[s])
        BY <2>1, <2>2 DEF Stands
    <2> QED
        BY <2>1, <2>3
<1> QED
    BY <1>1 DEF FollowsRun, Failed, Stopped

\* A scan of all the files, by the serial scanner or by the parent.
LEMMA ScanOutcome ==
    ASSUME ScanInv, NEW s \in {Serial, Parent}, s \in begun, FollowsRun(s), Through(s)
    PROVE  /\ sink[s] \in SinkType
           /\ s \in raised => SomeFatal
           /\ s \notin raised => Whole(sink[s])
           /\ SomeFatal => s \in raised \/ sink[s].count["capped"] > 0
<1>1. s \in Sharders /\ s \in Scanner /\ s \notin Child /\ Works(s) /\ ParseTypes
    BY ShardAssumption DEF Sharders, Works, ScanInv
<1>2. BaseOf(s) = 0 /\ LastOf(s) = Len(Files) /\ Limit(s) = MaxClaims /\ sink[s] \in SinkType
    BY <1>1 DEF BaseOf, LastOf, Limit, ParseTypes
<1>3. ASSUME SomeFatal, Reached(0, Len(Files), 0, MaxClaims, sink[s]) PROVE FALSE
    <2>1. PICK f \in File : nature[f] = "fatal"
        BY <1>3 DEF SomeFatal
    <2>2. f \in 0 + 1 .. Len(Files)
        BY <2>1, FileNumbers
    <2> QED
        BY <1>3, <2>1, <2>2 DEF Reached
<1>4. ASSUME Cut(MaxClaims, sink[s]) PROVE sink[s].count["capped"] > 0
    <2>1. PICK j \in SinkType : sink[s] = Bump(j, {"capped"})
        BY <1>4 DEF Cut
    <2>2. "capped" \in Counters /\ j.count["capped"] \in Nat
        BY DEF Counters, SinkType
    <2>3. sink[s].count["capped"] = j.count["capped"] + 1
        BY <2>1, <2>2, BumpGives
    <2> QED
        BY <2>2, <2>3
<1> QED
    BY <1>1, <1>2, <1>3, <1>4, ThroughFollows DEF Whole
------------------------------------------------------------------------------
\* The chunks merged in slice order are the whole run.
LEMMA MergedIs ==
    ASSUME ParseTypes, chunks \in [1 .. Slices -> SinkType], \A i \in 1 .. Slices : ChunkFollows(i)
    PROVE  /\ Merged \in SinkType /\ Merged.nodes = Run[Len(Files)].nodes
           /\ \A c \in Counters : Merged.count[c] = Run[Len(Files)].count[c]
           /\ ~SomeFatal
<1>1. PICK m \in [0 .. Slices -> SinkType] : MergedTo(m)
    BY MergedUnrolls
<1> DEFINE At(i) == /\ m[i].nodes = Run[SliceEnd(i)].nodes
                    /\ \A c \in Counters : m[i].count[c] = Run[SliceEnd(i)].count[c]
           T == {i \in Nat : i <= Slices => At(i)}
<1>2. Slices \in Nat /\ Len(Files) \in Nat /\ Slices \in 0 .. Slices /\ SliceEnd(Slices) = Len(Files)
    BY SlicesNumber, FileNumbers DEF SliceEnd
<1>3. SliceEnd(0) = 0
    <2>1. Slices = 0 => Len(Files) <= 0
        BY SliceEnds, ShardAssumption
    <2>2. Upto(0) = 0
        BY ShardAssumption DEF Upto
    <2> QED
        BY <1>2, <2>1, <2>2 DEF SliceEnd
<1>4. 0 \in T
    <2>1. m[0] = EmptySink(0)
        BY <1>1 DEF MergedTo
    <2>2. m[0].nodes = <<>> /\ \A c \in Counters : m[0].count[c] = 0
        BY <2>1 DEF EmptySink
    <2>3. At(0)
        BY <1>3, <2>2, RunGives
    <2> HIDE DEF At
    <2> QED
        BY <2>3
<1>5. ASSUME NEW i \in Nat, i \in T PROVE i + 1 \in T
    <2> SUFFICES ASSUME i + 1 <= Slices PROVE At(i + 1)
        OBVIOUS
    <2> DEFINE b == SliceEnd(i)
               e == SliceEnd(i + 1)
               v == chunks[i + 1]
               k == m[i]
    <2>1. i + 1 \in Nat \ {0} /\ i + 1 \in 1 .. Slices /\ (i + 1) - 1 = i /\ i \in 0 .. Slices /\ i <= Slices
        BY <1>2
    <2>2. At(i) /\ m[i + 1] = MergeChunk(k, v) /\ k \in SinkType /\ v \in SinkType
        BY <1>1, <1>5, <2>1 DEF MergedTo
    <2>3. Upto(i) = b /\ Upto(i) \in Nat /\ e \in 0 .. Len(Files) /\ Upto(i) < e
        BY <2>1, SliceEndIs
    <2>4. Extends(v, Upto(i), e, 0)
        BY <2>1 DEF ChunkFollows
    <2>5. b \in 0 .. Len(Files) /\ Extends(v, b, e, 0)
        BY <1>2, <2>3, <2>4
    <2>6. Run[b] \in SinkType /\ Run[e] \in SinkType /\ IsInjective(Run[e].nodes)
        BY <2>3, <2>5, RunGives, RunNodes
    <2>7. k.nodes = Run[b].nodes /\ \A c \in Counters : k.count[c] = Run[b].count[c]
        BY <2>2
    <2>8. /\ MergeChunk(k, v).nodes = Added(k.nodes, v.nodes)
          /\ \A c \in Counters : MergeChunk(k, v).count[c] = k.count[c] + v.count[c]
        BY <2>2 DEF MergeChunk, SinkType
    <2> HIDE DEF b, e, v, k
    <2>9. k.nodes \o v.nodes = Run[e].nodes
        BY <2>5, <2>7 DEF Extends
    <2>10. MergeChunk(k, v).nodes = Run[e].nodes
        <3>1. k.nodes \in Seq(NodeType) /\ v.nodes \in Seq(NodeType) /\ IsInjective(k.nodes \o v.nodes)
            BY <2>2, <2>6, <2>9 DEF SinkType
        <3> QED
            BY <2>8, <2>9, <3>1, AddedConcat
    <2>11. ASSUME NEW c \in Counters PROVE MergeChunk(k, v).count[c] = Run[e].count[c]
        <3>1. Run[b].count[c] + v.count[c] = Run[e].count[c] + 0
            BY <2>5 DEF Extends
        <3>2. Run[e].count[c] \in Nat
            BY <2>6 DEF SinkType
        <3> QED
            BY <2>7, <2>8, <3>1, <3>2
    <2> QED
        BY <2>2, <2>10, <2>11 DEF e
<1> HIDE DEF At
<1>6. T = Nat
    <2>1. 0 \in T /\ \A i \in T : i + 1 \in T
        BY <1>4, <1>5
    <2> HIDE DEF T
    <2> QED
        BY <2>1, AllNumbers DEF T
<1>7. At(Slices)
    BY <1>2, <1>6
<1>8. Merged = m[Slices]
    BY <1>1 DEF MergedTo
<1>9. ASSUME NEW f \in File PROVE nature[f] # "fatal"
    <2>1. PICK i \in 1 .. Slices : f \in ToSet(Slice(i))
        BY AllSliced, FileNumbers
    <2>2. i \in Nat \ {0} /\ i <= Slices
        BY <1>2
    <2>3. /\ Slice(i) \in Seq(File) /\ Len(Slice(i)) = SliceEnd(i) - Upto(i - 1)
          /\ Upto(i - 1) \in Nat /\ SliceEnd(i) \in Nat
          /\ \A j \in 1 .. Len(Slice(i)) : Slice(i)[j] = Upto(i - 1) + j
        BY <1>2, <2>2, SliceEndIs
    <2>4. PICK j \in 1 .. Len(Slice(i)) : f = Slice(i)[j]
        BY <2>1, <2>3 DEF ToSet
    <2>5. f \in Upto(i - 1) + 1 .. SliceEnd(i)
        BY <2>3, <2>4
    <2> QED
        BY <2>5 DEF ChunkFollows
<1> QED
    BY <1>1, <1>2, <1>7, <1>8, <1>9 DEF At, SomeFatal
------------------------------------------------------------------------------
\* The steps of a sharded scan.
Rests(z) == /\ todo'[z] = todo[z] /\ asked'[z] = asked[z] /\ sink'[z] = sink[z]
            /\ z \in raised' <=> z \in raised
Sharding == host = "sharded" /\ OneWedge

\* What holds of a sharded scan in which one file wedges at most: every scan of it
\* follows the run, and so do the chunks that are back; a scan in slices begins once
\* the serial one is through.
Shown ==
    /\ version = [f \in File |-> 0]
    /\ \A s \in Sharders : FollowsRun(s)
    /\ \A i \in 1 .. Slices :
           i < next /\ (\A c \in Child : on[c] # i) => ChunkFollows(i)
    /\ next > 1 \/ step # "map" \/ (\E c \in Child : on[c] # 0) => Compared
    /\ step = "rerun" => Parent \in begun /\ ~SomeFatal
    /\ step = "done" => result = sink[Serial]
    /\ step = "raised" => Serial \in raised \/ sink[Serial].count["capped"] > 0
SameInv == Sharding => Shown

\* A step of the parse loops.
LEMMA ParsingKeeps ==
    ASSUME Shown, \A z \in Sharders : FollowsRun(z)', Compared => Rests(Serial),
           UNCHANGED <<inputs, version, host, shardVars>>
    PROVE  Shown'
<1>1. nature' = nature /\ yield' = yield /\ version' = version /\ next' = next /\ step' = step
      /\ on' = on /\ chunks' = chunks /\ result' = result /\ begun' = begun
    BY DEF inputs, shardVars
<1>2. Compared => Compared'
    BY <1>1 DEF Compared, Rests, Through
<1>3. ASSUME NEW i \in 1 .. Slices, i < next', \A c \in Child : on'[c] # i PROVE ChunkFollows(i)'
    <2>1. ChunkFollows(i) /\ chunks'[i] = chunks[i]
        BY <1>1, <1>3 DEF Shown
    <2> QED
        BY <1>1, <2>1, ChunkStays
<1>4. step # "map" => sink'[Serial] = sink[Serial] /\ (Serial \in raised' <=> Serial \in raised)
    BY DEF Shown, Rests
<1>5. SomeFatal' <=> SomeFatal
    BY <1>1 DEF SomeFatal
<1> QED
    BY <1>1, <1>2, <1>3, <1>4, <1>5 DEF Shown

LEMMA RestFollows ==
    ASSUME UNCHANGED <<inputs, begun, on>>, NEW z, Rests(z), FollowsRun(z)
    PROVE  FollowsRun(z)'
BY FollowStays DEF inputs, Rests, Works

LEMMA LoopShows ==
    ASSUME WedgeInv, Sharding, Shown, NEW s \in Scanner, Parsing(ParseLoop(s))
    PROVE  Shown'
<1>1. ScanInv /\ OneWedge /\ version = [f \in File |-> 0] /\ Serial \in Scanner /\ Sharders \subseteq Scanner
    BY ShardAssumption DEF WedgeInv, Sharding, Shown, Sharders
<1>2. UNCHANGED <<inputs, version, host, shardVars>> /\ begun' = begun /\ on' = on
    BY DEF Parsing, ParseLoop, NextFile, StopAtCap, GivesUp, shardVars
<1>3. ParseLoop(s) /\ ~Through(s) /\ raised' = raised
    BY DEF Parsing, ParseLoop, NextFile, StopAtCap, GivesUp, Through
<1>4. ASSUME NEW z \in Scanner, z # s PROVE Rests(z)
    BY <1>1, <1>3, <1>4 DEF ParseLoop, NextFile, StopAtCap, GivesUp, ScanInv, ParseTypes, Rests
<1>5. ASSUME NEW z \in Sharders PROVE FollowsRun(z)'
    <2>1. CASE z # s
        BY <1>1, <1>2, <1>4, <1>5, <2>1, RestFollows DEF Shown
    <2>2. CASE ~Works(z)
        BY <1>2, <2>2 DEF FollowsRun, Works
    <2>3. CASE z = s /\ Works(z)
        <3>1. FollowsRun(z)
            BY DEF Shown
        <3> QED
            BY <1>1, <1>2, <1>3, <1>5, <2>3, <3>1, NextFollows, StopFollows, LossFollows DEF ParseLoop
    <2> QED
        BY <2>1, <2>2, <2>3
<1>6. Compared => Rests(Serial)
    BY <1>1, <1>3, <1>4 DEF Compared
<1> QED
    BY <1>2, <1>5, <1>6, ParsingKeeps

LEMMA ThreadsShow ==
    ASSUME WedgeInv, Sharding, Shown, NEW p \in Process, Parsing(Threads(p))
    PROVE  Shown'
<1>1. ScanInv /\ ParseTypes /\ Serial \in Scanner /\ Sharders \subseteq Scanner
    BY ShardAssumption DEF WedgeInv, ScanInv, Sharders
<1>2. UNCHANGED <<host, shardVars>> /\ begun' = begun /\ on' = on
    BY DEF Parsing, shardVars
<1>3. PICK t \in 1 .. MaxWorkers : ThreadTakes(p, t) \/ ThreadEnds(p, t)
    BY <1>1 DEF Parsing, Threads, ParseTypes
<1>4. UNCHANGED <<inputs, version>>
    BY <1>3 DEF ThreadTakes, ThreadEnds
<1>5. CASE UNCHANGED <<todo, asked, raised, sink>>
    <2>1. \A z \in Scanner : Rests(z)
        BY <1>5 DEF Rests
    <2>2. \A z \in Sharders : FollowsRun(z)'
        BY <1>1, <1>2, <1>4, <2>1, RestFollows DEF Shown
    <2> QED
        BY <1>1, <1>2, <1>4, <2>1, <2>2, ParsingKeeps
<1>6. CASE ThreadEnds(p, t) /\ Waited(pool[p].thread[t])
    <2> DEFINE n == pool[p].thread[t]
               s == n.scanner
    <2>1. /\ \A z \in Scanner : z # s => todo'[z] = todo[z] /\ asked'[z] = asked[z] /\ sink'[z] = sink[z]
          /\ asked[s] = n /\ n \in Task /\ s \in Scanner /\ (raised' = raised \/ raised' = raised \cup {s})
        BY <1>1, <1>3, <1>6, ThreadEndsEffect, Tasks
    <2>2. ~Through(s)
        BY <2>1, Tasks DEF Through
    <2>3. \A z \in Scanner : z # s => Rests(z)
        BY <2>1 DEF Rests
    <2>4. ASSUME NEW z \in Sharders PROVE FollowsRun(z)'
        <3>1. FollowsRun(z)
            BY DEF Shown
        <3>2. CASE z # s
            BY <1>1, <1>2, <1>4, <2>3, <3>1, <3>2, RestFollows
        <3>3. CASE ~Works(z)
            BY <1>2, <3>3 DEF FollowsRun, Works
        <3>4. CASE z = s /\ Works(z)
            BY <1>1, <1>2, <1>3, <1>6, <3>1, <3>4, ParseFollows
        <3> QED
            BY <3>2, <3>3, <3>4
    <2>5. Compared => Rests(Serial)
        BY <1>1, <2>2, <2>3 DEF Compared
    <2> QED
        BY <1>2, <1>4, <2>4, <2>5, ParsingKeeps
<1>7. CASE ThreadEnds(p, t) /\ ~Waited(pool[p].thread[t])
    BY <1>1, <1>3, <1>5, <1>7, ThreadEndsEffect
<1>8. CASE ThreadTakes(p, t)
    BY <1>5, <1>8 DEF ThreadTakes
<1> QED
    BY <1>3, <1>6, <1>7, <1>8

\* A scan that begins leaves the others as they were.
LEMMA BeginRests ==
    ASSUME ScanInv, NEW s \in Scanner, NEW files \in Seq(File), NEW limit \in Nat, Through(s),
           Begin(s, files, limit), NEW z \in Scanner, z # s
    PROVE  Rests(z) /\ UNCHANGED <<inputs, version>> /\ begun' = begun \cup {s}
BY BeginEffect DEF Rests, inputs

LEMMA SerialShows ==
    ASSUME WedgeInv, Sharding, Shown, SerialScans
    PROVE  Shown'
<1>1. /\ ScanInv /\ ParseTypes /\ NothingUnderWay /\ Serial \in Scanner /\ Sharders \subseteq Scanner
      /\ Serial \in Sharders /\ Serial \notin Child /\ Parent \in Scanner /\ Parent # Serial
    BY ShardAssumption DEF WedgeInv, ScanInv, Sharders
<1>2. /\ Serial \notin begun /\ Through(Serial) /\ Begin(Serial, Files, MaxClaims)
      /\ on' = on /\ next' = next /\ step' = step /\ result' = result
    BY <1>1 DEF SerialScans, NothingUnderWay
<1>3. Files \in Seq(File) /\ MaxClaims \in Nat /\ Len(Files) \in Nat /\ \A i \in 1 .. Len(Files) : Files[i] = 0 + i
    BY FileNumbers
<1>4. \A z \in Scanner : z # Serial => Rests(z) /\ UNCHANGED <<inputs, version>> /\ begun' = begun \cup {Serial}
    BY <1>1, <1>2, <1>3, BeginRests
<1>5. ~Compared
    BY <1>2 DEF Compared
<1>6. step = "map" /\ ~(next > 1) /\ \A c \in Child : on[c] = 0
    BY <1>5 DEF Shown
<1>7. UNCHANGED <<inputs, version>> /\ begun' = begun \cup {Serial} /\ nature' = nature /\ yield' = yield
    BY <1>1, <1>4 DEF inputs
<1>8. FollowsRun(Serial)'
    <2>1. BaseOf(Serial)' = 0 /\ LastOf(Serial)' = Len(Files) /\ Limit(Serial) = MaxClaims
        BY <1>1 DEF BaseOf, LastOf, Limit
    <2>2. 0 <= Len(Files) /\ Len(Files) \in 0 .. Len(Files) /\ Len(Files) = Len(Files) - 0 /\ 0 \in Nat
        BY <1>3
    <2> QED
        BY <1>1, <1>2, <1>3, <2>1, <2>2, BeginFollows
<1>9. ASSUME NEW z \in Sharders, z # Serial PROVE FollowsRun(z)'
    <2>1. Rests(z) /\ FollowsRun(z) /\ (Works(z)' => Works(z)) /\ (z \in Child => on'[z] = on[z])
        BY <1>1, <1>2, <1>4, <1>7, <1>9 DEF Shown, Works
    <2> QED
        BY <1>7, <2>1, FollowStays DEF Rests
<1>10. \A i \in 1 .. Slices : ~(i < next)
    BY <1>6, SlicesNumber DEF WedgeInv, ScanInv, HostTypes
<1> QED
    BY <1>2, <1>6, <1>7, <1>8, <1>9, <1>10 DEF Shown
------------------------------------------------------------------------------
LEMMA TakesShow ==
    ASSUME WedgeInv, Sharding, Shown, NEW c \in Child, TakesSlice(c)
    PROVE  Shown'
<1>1. /\ ScanInv /\ ParseTypes /\ HostTypes /\ NothingUnderWay /\ Sharders \subseteq Scanner
      /\ c \in Scanner /\ c \in Sharders /\ Serial \in Scanner /\ c # Serial /\ c # Parent
    BY ShardAssumption DEF WedgeInv, ScanInv, Sharders
<1>2. /\ Compared /\ step = "map" /\ on[c] = 0 /\ next <= Slices /\ Begin(c, Slice(next), 0)
      /\ on' = [on EXCEPT ![c] = next] /\ next' = next + 1 /\ chunks' = chunks /\ step' = step
      /\ result' = result
    BY DEF TakesSlice
<1>3. /\ next \in Nat \ {0} /\ Slices \in Nat /\ on'[c] = next
      /\ \A d \in Child : d # c => on'[d] = on[d]
    BY <1>1, <1>2, SlicesNumber DEF HostTypes
<1>4. /\ Upto(next - 1) \in Nat /\ SliceEnd(next) \in 0 .. Len(Files) /\ Upto(next - 1) < SliceEnd(next)
      /\ Slice(next) \in Seq(File) /\ Len(Slice(next)) = SliceEnd(next) - Upto(next - 1)
      /\ \A k \in 1 .. Len(Slice(next)) : Slice(next)[k] = Upto(next - 1) + k
    BY <1>2, <1>3, SliceEndIs
<1>5. Through(c)
    BY <1>1, <1>2 DEF NothingUnderWay
<1>6. \A z \in Scanner : z # c => Rests(z) /\ UNCHANGED <<inputs, version>> /\ begun' = begun \cup {c}
    BY <1>1, <1>2, <1>4, <1>5, BeginRests
<1>7. UNCHANGED <<inputs, version>> /\ begun' = begun \cup {c} /\ nature' = nature /\ yield' = yield
    BY <1>1, <1>6 DEF inputs
<1>8. FollowsRun(c)'
    <2> DEFINE b == Upto(next - 1)
               last == SliceEnd(next)
               files == Slice(next)
    <2>1. BaseOf(c)' = b /\ LastOf(c)' = last /\ Limit(c) = 0
        BY <1>3 DEF BaseOf, LastOf, Limit, SliceEnd, Upto
    <2>2. /\ b \in Nat /\ last \in 0 .. Len(Files) /\ b <= last /\ files \in Seq(File)
          /\ Len(files) = last - b /\ (\A i \in 1 .. Len(files) : files[i] = b + i)
          /\ Begin(c, files, 0) /\ 0 \in Nat /\ ~(0 > 0)
        BY <1>2, <1>4
    <2> HIDE DEF b, last, files
    <2> QED
        BY <1>1, <1>5, <2>1, <2>2, BeginFollows
<1>9. ASSUME NEW z \in Sharders, z # c PROVE FollowsRun(z)'
    <2>1. Rests(z) /\ FollowsRun(z) /\ (Works(z)' => Works(z)) /\ (z \in Child => on'[z] = on[z])
        BY <1>1, <1>3, <1>6, <1>7, <1>9 DEF Shown, Works
    <2> QED
        BY <1>7, <2>1, FollowStays DEF Rests
<1>10. ASSUME NEW i \in 1 .. Slices, i < next', \A d \in Child : on'[d] # i PROVE ChunkFollows(i)'
    <2>1. i < next /\ \A d \in Child : on[d] # i
        BY <1>2, <1>3, <1>10
    <2>2. ChunkFollows(i) /\ chunks'[i] = chunks[i]
        BY <1>2, <2>1 DEF Shown
    <2> QED
        BY <1>7, <2>2, ChunkStays
<1>11. Compared'
    BY <1>1, <1>2, <1>6, <1>7 DEF Compared, Rests, Through
<1> QED
    BY <1>2, <1>7, <1>8, <1>9, <1>10, <1>11 DEF Shown

LEMMA BackShows ==
    ASSUME WedgeInv, MergeInv, Sharding, Shown, NEW c \in Child, SliceBack(c)
    PROVE  Shown'
<1>1. /\ ScanInv /\ HostTypes /\ c \in Sharders /\ Slices \in Nat
    BY SlicesNumber DEF WedgeInv, ScanInv, Sharders
<1>2. PICK i \in 0 .. Slices : i = on[c]
    BY <1>1 DEF HostTypes
<1>3. /\ step = "map" /\ i # 0 /\ Through(c) /\ c \notin raised /\ c \in begun
      /\ chunks' = [chunks EXCEPT ![i] = sink[c]] /\ on' = [on EXCEPT ![c] = 0]
      /\ UNCHANGED <<parseVars, host, begun, next, step, result>>
    BY <1>2 DEF SliceBack, BackAt, MergeInv
<1>4. i \in 1 .. Slices /\ on'[c] = 0 /\ \A d \in Child : d # c => on'[d] = on[d]
    BY <1>1, <1>2, <1>3 DEF HostTypes
<1>5. nature' = nature /\ yield' = yield /\ version' = version /\ \A z : Rests(z)
    BY <1>3 DEF parseVars, inputs, Rests
<1>6. ChunkFollows(i)'
    <2>1. Works(c) /\ FollowsRun(c) /\ c \in Child
        BY <1>1, <1>2, <1>3 DEF Shown, Works
    <2>2. Reached(BaseOf(c), LastOf(c), 0, Limit(c), sink[c])
        BY <1>1, <1>3, <2>1, ThroughFollows
    <2>3. BaseOf(c) = Upto(i - 1) /\ LastOf(c) = SliceEnd(i)
        BY <1>2 DEF BaseOf, LastOf
    <2>4. Extends(sink[c], Upto(i - 1), SliceEnd(i), 0) /\ \A f \in Upto(i - 1) + 1 .. SliceEnd(i) : nature[f] # "fatal"
        BY <2>2, <2>3 DEF Reached
    <2>5. chunks'[i] = sink[c]
        BY <1>3, <1>4 DEF MergeInv
    <2>6. Run' = Run
        BY <1>5, RunStays
    <2> QED
        BY <1>5, <2>4, <2>5, <2>6 DEF ChunkFollows, Extends, SliceEnd
<1>7. ASSUME NEW j \in 1 .. Slices, j < next', \A d \in Child : on'[d] # j PROVE ChunkFollows(j)'
    <2>1. CASE j = i
        BY <1>6, <2>1
    <2>2. CASE j # i
        <3>1. \A d \in Child : on[d] # j
            BY <1>2, <1>4, <1>7, <2>2
        <3>2. ChunkFollows(j) /\ chunks'[j] = chunks[j]
            BY <1>3, <1>4, <1>7, <2>2, <3>1 DEF Shown, MergeInv
        <3> QED
            BY <1>5, <3>2, ChunkStays
    <2> QED
        BY <2>1, <2>2
<1>8. ASSUME NEW z \in Sharders PROVE FollowsRun(z)'
    <2>1. CASE z # c
        <3>1. Rests(z) /\ FollowsRun(z) /\ (Works(z)' => Works(z)) /\ (z \in Child => on'[z] = on[z])
            BY <1>3, <1>4, <1>5, <2>1 DEF Shown, Works
        <3> QED
            BY <1>5, <3>1, FollowStays DEF Rests
    <2>2. CASE z = c
        BY <1>4, <2>2 DEF FollowsRun, Works
    <2> QED
        BY <2>1, <2>2
<1>9. Compared => Compared'
    BY <1>3 DEF Compared, Through, parseVars
<1>10. (\E d \in Child : on'[d] # 0) => \E d \in Child : on[d] # 0
    BY <1>4
<1> QED
    BY <1>3, <1>5, <1>7, <1>8, <1>9, <1>10 DEF Shown

LEMMA RaiseShows ==
    ASSUME WedgeInv, MergeInv, Sharding, Shown, NEW c \in Child, SliceRaises(c)
    PROVE  Shown'
<1>1. /\ step' = "raised" /\ on[c] # 0 /\ c \in raised
      /\ UNCHANGED <<parseVars, host, begun, next, on, chunks, result>>
    BY DEF SliceRaises
<1>2. nature' = nature /\ yield' = yield /\ version' = version /\ \A z : Rests(z)
    BY <1>1 DEF parseVars, inputs, Rests
<1>3. Compared /\ c \in Sharders /\ Serial \in Sharders /\ ScanInv /\ c \in Scanner
    BY <1>1, ShardAssumption DEF Shown, Sharders, WedgeInv
<1>4. SomeFatal
    <2>1. Works(c)
        BY <1>1 DEF Works, MergeInv
    <2> QED
        BY <1>1, <2>1, <1>3 DEF Shown, FollowsRun, Failed, Stopped, Underway
<1>5. Serial \in raised \/ sink[Serial].count["capped"] > 0
    BY <1>3, <1>4, ScanOutcome DEF Shown, Compared
<1>6. \A z \in Sharders : FollowsRun(z)'
    BY <1>1, <1>2, FollowStays DEF Shown, Rests, Works
<1>7. ASSUME NEW i \in 1 .. Slices, i < next', \A d \in Child : on'[d] # i PROVE ChunkFollows(i)'
    BY <1>1, <1>2, <1>7, ChunkStays DEF Shown
<1>8. Compared'
    BY <1>1, <1>3 DEF Compared, Through, parseVars
<1>9. Serial \in raised' \/ sink'[Serial].count["capped"] > 0
    BY <1>1, <1>5 DEF parseVars
<1> QED
    BY <1>1, <1>2, <1>6, <1>7, <1>8, <1>9 DEF Shown

LEMMA MergeShows ==
    ASSUME WedgeInv, MergeInv, Sharding, Shown, Merge
    PROVE  Shown'
<1> DEFINE all == [Merged EXCEPT !.max_claims = MaxClaims]
           N == Len(Files)
<1>1. /\ ScanInv /\ ParseTypes /\ HostTypes /\ NothingUnderWay /\ Sharders \subseteq Scanner
      /\ Serial \in Scanner /\ Parent \in Scanner /\ Parent \in Sharders /\ Parent \notin Child
      /\ Parent # Serial /\ Slices \in Nat /\ next \in Nat
    BY ShardAssumption, SlicesNumber DEF WedgeInv, ScanInv, Sharders, HostTypes
<1>2. /\ Compared /\ step = "map" /\ next > Slices /\ (\A c \in Child : on[c] = 0)
      /\ next' = next /\ on' = on /\ chunks' = chunks
    BY DEF Merge
<1>3. \A i \in 1 .. Slices : ChunkFollows(i)
    BY <1>1, <1>2 DEF Shown
<1>4. /\ Merged \in SinkType /\ Merged.nodes = Run[N].nodes
      /\ \A c \in Counters : Merged.count[c] = Run[N].count[c]
      /\ ~SomeFatal
    BY <1>1, <1>3, MergedIs DEF MergeInv
<1>5. sink[Serial] \in SinkType /\ Serial \notin raised /\ Whole(sink[Serial])
    BY <1>1, <1>2, <1>4, ScanOutcome DEF Compared, Shown, Sharders
<1>6. CASE AtCap(all)
    <2>1. Begin(Parent, Files, MaxClaims) /\ step' = "rerun" /\ result' = result
        BY <1>6 DEF Merge
    <2>2. Through(Parent)
        BY <1>1, <1>2 DEF NothingUnderWay
    <2>3. Files \in Seq(File) /\ MaxClaims \in Nat /\ N \in Nat /\ \A i \in 1 .. N : Files[i] = 0 + i
        BY FileNumbers
    <2>4. \A z \in Scanner : z # Parent => Rests(z) /\ UNCHANGED <<inputs, version>> /\ begun' = begun \cup {Parent}
        BY <1>1, <2>1, <2>2, <2>3, BeginRests
    <2>5. UNCHANGED <<inputs, version>> /\ begun' = begun \cup {Parent} /\ nature' = nature /\ yield' = yield
        BY <1>1, <2>4 DEF inputs
    <2>6. FollowsRun(Parent)'
        <3>1. BaseOf(Parent)' = 0 /\ LastOf(Parent)' = Len(Files) /\ Limit(Parent) = MaxClaims
            BY <1>1 DEF BaseOf, LastOf, Limit
        <3>2. 0 <= Len(Files) /\ Len(Files) \in 0 .. Len(Files) /\ Len(Files) = Len(Files) - 0 /\ 0 \in Nat
            BY <2>3
        <3> QED
            BY <1>1, <2>1, <2>2, <2>3, <3>1, <3>2, BeginFollows
    <2>7. ASSUME NEW z \in Sharders, z # Parent PROVE FollowsRun(z)'
        <3>1. Rests(z) /\ FollowsRun(z) /\ (Works(z)' => Works(z)) /\ (z \in Child => on'[z] = on[z])
            BY <1>1, <1>2, <2>4, <2>5, <2>7 DEF Shown, Works
        <3> QED
            BY <2>5, <3>1, FollowStays DEF Rests
    <2>8. ASSUME NEW i \in 1 .. Slices PROVE ChunkFollows(i)'
        BY <1>2, <1>3, <2>5, ChunkStays
    <2>9. Compared'
        BY <1>1, <1>2, <2>4, <2>5 DEF Compared, Rests, Through
    <2>10. Parent \in begun' /\ ~SomeFatal'
        BY <1>4, <2>5 DEF SomeFatal
    <2> QED
        BY <2>1, <2>5, <2>6, <2>7, <2>8, <2>9, <2>10 DEF Shown
<1>7. CASE ~AtCap(all)
    <2>1. result' = all /\ step' = "done" /\ UNCHANGED <<parseVars, begun>>
        BY <1>7 DEF Merge
    <2>2. nature' = nature /\ yield' = yield /\ version' = version /\ \A z : Rests(z)
        BY <2>1 DEF parseVars, inputs, Rests
    <2>3. /\ all \in SinkType /\ all.nodes = Run[N].nodes /\ all.max_claims = MaxClaims
          /\ \A c \in Counters : all.count[c] = Run[N].count[c]
        BY <1>4, FileNumbers DEF SinkType
    <2>4. MaxClaims > 0 => Run[N].count["claims"] < MaxClaims
        <3>1. "claims" \in Counters /\ N \in 0 .. N /\ MaxClaims \in Nat
            BY FileNumbers DEF Counters
        <3>2. Run[N].count["claims"] \in Nat
            BY <1>1, <3>1, RunGives DEF SinkType
        <3> QED
            BY <1>7, <2>3, <3>1, <3>2 DEF AtCap
    <2> HIDE DEF all
    <2>5. Whole(all)
        <3>1. 0 \in 0 .. N /\ N \in 0 .. N /\ N \in Nat /\ MaxClaims \in Nat
            BY FileNumbers
        <3>2. /\ Run[0].nodes = <<>> /\ (\A c \in Counters : Run[0].count[c] = 0)
              /\ Run[N] \in SinkType /\ Run[N].nodes \in Seq(NodeType)
            BY <1>1, <3>1, RunGives DEF SinkType
        <3>3. Extends(all, 0, N, 0)
            <4>1. Run[0].nodes \o all.nodes = Run[N].nodes
                BY <2>3, <3>2
            <4>2. \A c \in Counters : all.count[c] \in Nat
                BY <2>3 DEF SinkType
            <4>3. \A c \in Counters : Run[0].count[c] + all.count[c] = Run[N].count[c] + IF c = "files_seen" THEN 0 ELSE 0
                BY <2>3, <3>2, <4>2
            <4> QED
                BY <4>1, <4>3 DEF Extends
        <3>4. ASSUME MaxClaims > 0, NEW q \in 0 .. N + 0 - 1 PROVE Run[q].count["claims"] < MaxClaims
            <4>1. q \in 0 .. N /\ q <= N
                BY <3>1
            <4>2. Run[q].count["claims"] <= Run[N].count["claims"]
                BY <1>1, <3>1, <4>1, RunGrows
            <4>3. Run[q].count["claims"] \in Nat /\ Run[N].count["claims"] \in Nat
                BY <1>1, <3>1, <4>1, RunGives DEF SinkType, Counters
            <4> QED
                BY <2>4, <3>1, <3>4, <4>2, <4>3
        <3>5. \A f \in 0 + 1 .. N : nature[f] # "fatal"
            BY <1>4, <3>1, FileNumbers DEF SomeFatal
        <3> QED
            BY <2>3, <3>1, <3>3, <3>4, <3>5 DEF Whole, Reached
    <2>6. all = sink[Serial]
        BY <1>1, <1>5, <2>3, <2>5, OneOutcome
    <2>7. result' = sink'[Serial]
        BY <2>1, <2>6 DEF parseVars
    <2>8. \A z \in Sharders : FollowsRun(z)'
        BY <1>2, <2>1, <2>2, FollowStays DEF Shown, Rests, Works
    <2>9. ASSUME NEW i \in 1 .. Slices PROVE ChunkFollows(i)'
        BY <1>2, <1>3, <2>2, ChunkStays
    <2>10. Compared'
        BY <1>2, <2>1 DEF Compared, Through, parseVars
    <2> QED
        BY <2>1, <2>2, <2>7, <2>8, <2>9, <2>10 DEF Shown
<1> QED
    BY <1>6, <1>7

LEMMA RerunShows ==
    ASSUME WedgeInv, Sharding, Shown, Rerun
    PROVE  Shown'
<1>1. /\ step = "rerun" /\ Through(Parent) /\ result' = sink[Parent]
      /\ step' = IF Parent \in raised THEN "raised" ELSE "done"
      /\ UNCHANGED <<parseVars, host, begun, next, on, chunks>>
    BY DEF Rerun
<1>2. nature' = nature /\ yield' = yield /\ version' = version /\ \A z : Rests(z)
    BY <1>1 DEF parseVars, inputs, Rests
<1>3. Compared /\ Parent \in begun /\ ~SomeFatal /\ ScanInv /\ ParseTypes
    BY <1>1 DEF Shown, WedgeInv, ScanInv
<1>4. /\ sink[Serial] \in SinkType /\ Whole(sink[Serial])
      /\ sink[Parent] \in SinkType /\ Whole(sink[Parent]) /\ Parent \notin raised
    BY <1>1, <1>3, ScanOutcome DEF Compared, Shown, Sharders
<1>5. sink[Parent] = sink[Serial]
    BY <1>3, <1>4, OneOutcome
<1>6. step' = "done" /\ result' = sink'[Serial]
    BY <1>1, <1>4, <1>5 DEF parseVars
<1>7. \A z \in Sharders : FollowsRun(z)'
    BY <1>1, <1>2, FollowStays DEF Shown, Rests, Works
<1>8. ASSUME NEW i \in 1 .. Slices, i < next', \A d \in Child : on'[d] # i PROVE ChunkFollows(i)'
    BY <1>1, <1>2, <1>8, ChunkStays DEF Shown
<1>9. Compared'
    BY <1>1, <1>3 DEF Compared, Through, parseVars
<1> QED
    BY <1>1, <1>2, <1>6, <1>7, <1>8, <1>9 DEF Shown
------------------------------------------------------------------------------

LEMMA NextKeepsSameInv ==
    ASSUME WedgeInv, MergeInv, SameInv, [ScanNext]_scanVars
    PROVE  SameInv'
<1> SUFFICES ASSUME Sharding' PROVE Shown'
    BY DEF SameInv
<1>1. CASE UNCHANGED scanVars
    <2>1. UNCHANGED <<inputs, version, host, shardVars>> /\ \A z : Rests(z)
        BY <1>1 DEF scanVars, parseVars, Rests
    <2>2. Sharding
        BY <1>1 DEF Sharding, OneWedge, Wedges, scanVars, parseVars, inputs
    <2>3. Shown /\ begun' = begun /\ on' = on
        BY <2>1, <2>2 DEF SameInv, shardVars
    <2>4. \A z \in Sharders : FollowsRun(z)'
        BY <2>1, <2>3, RestFollows DEF Shown
    <2> QED
        BY <2>1, <2>3, <2>4, ParsingKeeps
<1>2. CASE ScanNext /\ ~UNCHANGED scanVars
    <2>1. host' = host /\ nature' = nature
        BY <1>2, ZenonT(60) DEF ScanNext, Parsing, ParseLoop, Threads, NextFile, StopAtCap, GivesUp, ThreadTakes,
           ThreadEnds, Edit, IngestScans, SerialScans, TakesSlice, SliceBack, SliceRaises, Merge, Rerun,
           Fingerprint, WriteArtifact, Over, Begin, parseVars, inputs, scanVars
    <2>2. Sharding
        BY <2>1 DEF Sharding, OneWedge, Wedges
    <2>3. Shown /\ host = "sharded"
        BY <2>2 DEF SameInv, Sharding
    <2>4. ASSUME NEW s \in Scanner, Parsing(ParseLoop(s)) PROVE Shown'
        BY <2>2, <2>3, <2>4, LoopShows
    <2>5. ASSUME NEW p \in Process, Parsing(Threads(p)) PROVE Shown'
        BY <2>2, <2>3, <2>5, ThreadsShow
    <2>6. ASSUME NEW c \in Child, TakesSlice(c) \/ SliceBack(c) \/ SliceRaises(c) PROVE Shown'
        BY <2>2, <2>3, <2>6, TakesShow, BackShows, RaiseShows
    <2>7. CASE SerialScans \/ Merge \/ Rerun
        BY <2>2, <2>3, <2>7, SerialShows, MergeShows, RerunShows
    <2>8. /\ ~Fingerprint /\ ~WriteArtifact /\ ~Over /\ \A w \in Ingest : ~IngestScans(w)
        BY <1>2, <2>3 DEF Fingerprint, WriteArtifact, IngestScans, Over
    <2> QED
        BY <1>2, <2>3, <2>4, <2>5, <2>6, <2>7, <2>8 DEF ScanNext
<1> QED
    BY <1>1, <1>2

LEMMA InitHasSameInv ==
    ASSUME ScanInit PROVE SameInv
<1>1. /\ begun = {} /\ next = 1 /\ step = "map" /\ (\A c \in Child : on[c] = 0) /\ Slices \in Nat
      /\ version = [f \in File |-> 0]
    BY SlicesNumber DEF ScanInit, ParseInit
<1>2. \A s : FollowsRun(s)
    BY <1>1 DEF FollowsRun, Works
<1>3. \A i \in 1 .. Slices : ~(i < next)
    BY <1>1
<1> QED
    BY <1>1, <1>2, <1>3 DEF SameInv, Shown

\* With one file that wedges at most, a scan in slices returns what the serial scan
\* returns, for any files, slices and workers, at the claim ceiling too
\* (sharded_scan.py:7-10, 18-23); one that raises does so where the serial scan
\* raises or stops at its ceiling.
THEOREM ShardsAgree == ScanSpec => []ShardedIsSerial
<1>1. ScanInit => WedgeInv /\ MergeInv /\ SameInv
    BY InitHasWedgeInv, InitHasMergeInv, InitHasSameInv
<1>2. WedgeInv /\ MergeInv /\ SameInv /\ [ScanNext]_scanVars => (WedgeInv /\ MergeInv /\ SameInv)'
    BY NextKeepsWedgeInv, NextKeepsMergeInv, NextKeepsSameInv DEF WedgeInv
<1>3. SameInv => ShardedIsSerial
    <2> SUFFICES ASSUME SameInv, host = "sharded", Cardinality({f \in File : nature[f] = "wedges"}) <= 1
                 PROVE  /\ step = "done" => result = sink[Serial]
                        /\ step = "raised" => Serial \in raised \/ sink[Serial].count["capped"] > 0
        BY DEF ShardedIsSerial
    <2>1. Sharding
        BY AtMostOne DEF Sharding, OneWedge
    <2> QED
        BY <2>1 DEF SameInv, Shown
<1> QED
    BY <1>1, <1>2, <1>3, PTL DEF ScanSpec
================================================================================
