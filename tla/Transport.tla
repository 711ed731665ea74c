----------------------------- MODULE Transport -----------------------------
(***************************************************************************)
(* How one envelope travels from GDR, inside GDB, to the extension host.   *)
(*                                                                         *)
(* GDB's side (gdr/api.py, gdr/serialize.py) is one thread: it answers     *)
(* $gdr_json with the envelope itself or, when that is too long, with a    *)
(* meta frame carrying its sha256, and freezes the text in a small cache;  *)
(* $gdr_json_chunk serves the frozen text slice by slice; $gdr_dump writes *)
(* an envelope to a file.  The client (session.ts, transport.ts) pulls one *)
(* frame per DAP evaluate.  Nothing serializes the fetches of a session,   *)
(* so several interleave at every await, and the target may stop (which    *)
(* bumps the generation) between any two evaluates.                        *)
(*                                                                         *)
(* An envelope is a record: what was asked (verb, args), the data read,    *)
(* and the generation and elapsed_ms it carries.  serialize.pack_envelope  *)
(* writes the data first, so a text of n frames shows the data in frames   *)
(* 1..n-1 and closes with a frame that depends on all of it.               *)
(***************************************************************************)
EXTENDS Naturals, Sequences, FiniteSets

CONSTANTS
  Fetchers,      \* concurrent calls of GdrSession.fetch in one session
  Keys,          \* the (verb, arguments) pairs the client asks for
  Verbs, VerbOf, \* the verbs, and the verb of each key
  Data,          \* what a verb may read from the target
  Elapsed,       \* values of elapsed_ms
  FrameTotal,    \* FrameTotal[d]: frames a text with data d is cut into
  InlineData,    \* data small enough for GDR_API_INLINE_LIMIT
  CacheLimit,    \* _CHUNK_SNAPSHOT_LIMIT
  Stamps,        \* the millisecond stamps of file names
  MaxGeneration, \* bound of the model on stops
  Null, Partial  \* no envelope; a file GDB has opened but not written

Envelope == [key: Keys, data: Data, generation: Nat, elapsed: Elapsed]
Name == [verb: Verbs, stamp: Stamps]

ASSUME TransportAssumption ==
  /\ VerbOf \in [Keys -> Verbs]
  /\ FrameTotal \in [Data -> Nat \ {0}]
  /\ InlineData \subseteq Data
  /\ CacheLimit \in Nat \ {0}
  /\ MaxGeneration \in Nat
  /\ Null \notin Envelope
  /\ Partial \notin Envelope
  /\ Null \notin Keys \cup Name \cup Fetchers \cup {Partial}

VARIABLES
  generation,      \* gdr.api._generation
  snapshots,       \* gdr.api._CHUNK_SNAPSHOTS: key -> frozen envelope
  files,           \* file name -> an envelope or Partial
  writing,         \* the fetch whose $gdr_dump GDB is executing, or Null
  carriesStrings,  \* whether the adapter's evaluate can return a string
  recording,       \* whether gdr.recordSnapshotsDir names a directory
  fileRoute,       \* GdrSession.fileRoute
  pc,              \* where each fetch is
  key,             \* what each fetch asks for
  began,           \* generation when the fetch began (history)
  meta,            \* the envelope the fetch's meta frame or dump describes
  slices,          \* frames pulled so far
  file, keep,      \* the fetch's file and whether it stays as a record
  answer,          \* what the fetch returned
  disturbed        \* history: the frozen text was displaced during the pull

vars == <<generation, snapshots, files, writing, carriesStrings, recording, fileRoute, pc,
          key, began, meta, slices, file, keep, answer, disturbed>>

gdbVars    == <<generation, snapshots, files, writing>>
fetchVars  == <<key, began, meta, slices, file, keep, answer>>
routeVars  == <<carriesStrings, recording, fileRoute>>

Phases == {"idle", "ask", "pull", "dump", "write", "read", "answered"}
Frame  == [kind: {"data"}, key: Keys, data: Data, at: Nat]
            \cup [kind: {"closing"}, envelope: Envelope]
            \cup [kind: {"error"}]

TypeOK ==
  /\ generation \in Nat
  /\ DOMAIN snapshots \subseteq Keys
  /\ \A k \in DOMAIN snapshots : snapshots[k] \in Envelope
  /\ DOMAIN files \subseteq Name
  /\ \A n \in DOMAIN files : files[n] \in Envelope \cup {Partial}
  /\ writing \in Fetchers \cup {Null}
  /\ carriesStrings \in BOOLEAN /\ recording \in BOOLEAN /\ fileRoute \in BOOLEAN
  /\ pc \in [Fetchers -> Phases]
  /\ key \in [Fetchers -> Keys \cup {Null}]
  /\ began \in [Fetchers -> Nat]
  /\ meta \in [Fetchers -> Envelope \cup {Null}]
  /\ slices \in [Fetchers -> Seq(Frame)]
  /\ file \in [Fetchers -> Name \cup {Null}]
  /\ keep \in [Fetchers -> BOOLEAN]
  /\ answer \in [Fetchers -> Envelope \cup {Null}]
  /\ disturbed \in [Fetchers -> BOOLEAN]

Init ==
  /\ generation = 0
  /\ snapshots = << >>
  /\ files = << >>
  /\ writing = Null
  /\ carriesStrings \in BOOLEAN
  /\ recording \in BOOLEAN
  /\ fileRoute = FALSE
  /\ pc = [f \in Fetchers |-> "idle"]
  /\ key = [f \in Fetchers |-> Null]
  /\ began = [f \in Fetchers |-> 0]
  /\ meta = [f \in Fetchers |-> Null]
  /\ slices = [f \in Fetchers |-> << >>]
  /\ file = [f \in Fetchers |-> Null]
  /\ keep = [f \in Fetchers |-> FALSE]
  /\ answer = [f \in Fetchers |-> Null]
  /\ disturbed = [f \in Fetchers |-> FALSE]

-----------------------------------------------------------------------------
\* The text of an envelope, as the sequence of its frames.

\* Frame i of e; past the last one GDR answers an error object instead.
FrameOf(e, i) ==
  LET total == FrameTotal[e.data]
  IN  IF i > total THEN [kind |-> "error"]
      ELSE IF i = total THEN [kind |-> "closing", envelope |-> e]
      ELSE [kind |-> "data", key |-> e.key, data |-> e.data, at |-> i]

Text(e) == [i \in 1..FrameTotal[e.data] |-> FrameOf(e, i)]

\* reassembleChunks: the sha256 of the meta frame matches the joined frames.
\* The hash is taken to be collision-free, so it compares the texts.
Reassembles(m, s) == s = Text(m)

\* The object the joined text parses to: the data of its first frame under
\* the members its last frame closes with, or nothing.
Parsed(s) ==
  LET first == s[1]
      last  == s[Len(s)]
  IN  IF last.kind # "closing" THEN Null
      ELSE [last.envelope EXCEPT !.data = IF first.kind = "data" THEN first.data ELSE @]

-----------------------------------------------------------------------------
\* GDB's side.

\* The envelopes api_call may build for key k now.
Computable(k) ==
  [key: {k}, data: Data, generation: {generation}, elapsed: Elapsed]

\* The entries that survive a seed: the cache is cleared when full, even if
\* the key being seeded is already there.
Survivors == IF Cardinality(DOMAIN snapshots) >= CacheLimit
             THEN {} ELSE DOMAIN snapshots

\* _remember_chunk_snapshot, executed on behalf of fetch f.
Remember(f, e) ==
  LET k == key[f]
  IN  /\ snapshots' = [x \in Survivors \cup {k} |-> IF x = k THEN e ELSE snapshots[x]]
      /\ disturbed' = [g \in Fetchers |->
           \/ disturbed[g]
           \/ /\ g # f /\ pc[g] = "pull"
              /\ key[g] = k \/ key[g] \notin Survivors]

\* Frames recomputed on every pull, as if nothing had been frozen.
MutFrozen(k) == {}
\* A frozen text served whatever the generation it was made in.
MutFrozenStale(k) == IF k \in DOMAIN snapshots THEN {snapshots[k]} ELSE {}

\* The text _chunk_snapshot finds for key k: at most one.
Frozen(k) ==
  IF k \in DOMAIN snapshots /\ snapshots[k].generation = generation
  THEN {snapshots[k]} ELSE {}

\* _chunk_snapshot: the frozen text, or else a fresh one.
ChunkSources(k) == IF Frozen(k) = {} THEN Computable(k) ELSE Frozen(k)

\* transport_response: a text too long for one result is frozen.
TransportResponse(f, e) ==
  IF e.data \in InlineData THEN UNCHANGED <<snapshots, disturbed>> ELSE Remember(f, e)

\* A stop or an objfile load bumps the generation.  GDB handles it between
\* two commands, never inside one.
NextGeneration ==
  /\ writing = Null
  /\ generation < MaxGeneration
  /\ generation' = generation + 1
  /\ disturbed' = [f \in Fetchers |-> disturbed[f] \/ pc[f] = "pull"]
  /\ UNCHANGED <<snapshots, files, writing, routeVars, pc, fetchVars>>

-----------------------------------------------------------------------------
\* The client's side: GdrSession.fetch and fetchViaFile.

\* A file name without the verb: two verbs fetched in one millisecond meet.
MutFileName(v, s) == [verb |-> "snapshot", stamp |-> s]

\* gdr-<verb>-<stamp>-<session>.json; the arguments are not part of it.
FileName(v, s) == [verb |-> v, stamp |-> s]

\* Fetch f takes the file route for key k.
ToFileRoute(f, k, kept) ==
  /\ pc' = [pc EXCEPT ![f] = "dump"]
  /\ \E s \in Stamps : file' = [file EXCEPT ![f] = FileName(VerbOf[k], s)]
  /\ keep' = [keep EXCEPT ![f] = kept]

Answer(f, a) ==
  /\ pc' = [pc EXCEPT ![f] = "answered"]
  /\ answer' = [answer EXCEPT ![f] = a]

Start(f, k) ==
  /\ pc[f] = "idle"
  /\ key' = [key EXCEPT ![f] = k]
  /\ began' = [began EXCEPT ![f] = generation]
  /\ UNCHANGED <<gdbVars, routeVars, meta, slices, answer, disturbed>>

\* fetch: the session's known route decides how the verb is asked.
BeginFetch(f, k) ==
  /\ Start(f, k)
  /\ IF fileRoute
     THEN ToFileRoute(f, k, FALSE)
     ELSE /\ pc' = [pc EXCEPT ![f] = "ask"]
          /\ UNCHANGED <<file, keep>>

\* fetchSnapshotFile: gdr.snapshotTransport = file; a record directory keeps
\* the file.
BeginSnapshotFile(f, k) ==
  /\ VerbOf[k] = "snapshot"
  /\ Start(f, k)
  /\ ToFileRoute(f, k, recording)

\* $gdr_json: GDB computes the envelope and, when it is too long for one
\* result, freezes it.  An adapter that cannot carry a string answers with an
\* array summary, which moves the whole session to the file route.
Ask(f) ==
  /\ pc[f] = "ask" /\ writing = Null
  /\ \E e \in Computable(key[f]) :
       /\ TransportResponse(f, e)
       /\ IF ~carriesStrings
          THEN /\ fileRoute' = TRUE
               /\ ToFileRoute(f, key[f], FALSE)
               /\ UNCHANGED <<meta, answer>>
          ELSE /\ UNCHANGED <<fileRoute, file, keep>>
               /\ IF e.data \in InlineData
                  THEN Answer(f, e) /\ UNCHANGED meta
                  ELSE /\ pc' = [pc EXCEPT ![f] = "pull"]
                       /\ meta' = [meta EXCEPT ![f] = e]
                       /\ UNCHANGED answer
  /\ UNCHANGED <<generation, files, writing, carriesStrings, recording, key, began, slices>>

\* $gdr_json_chunk(i): the frozen text of this generation, or a fresh one that
\* is frozen in its place.  The frame that completes the transfer is checked
\* and parsed in the same continuation.
Pull(f) ==
  /\ pc[f] = "pull" /\ writing = Null
  /\ \E e \in ChunkSources(key[f]) :
       /\ IF Frozen(key[f]) = {}
          THEN Remember(f, e)
          ELSE UNCHANGED <<snapshots, disturbed>>
       /\ LET i == Len(slices[f]) + 1
              s == Append(slices[f], FrameOf(e, i))
          IN  /\ slices' = [slices EXCEPT ![f] = s]
              /\ IF i < FrameTotal[meta[f].data]
                 THEN UNCHANGED <<pc, answer>>
                 ELSE Answer(f, IF Reassembles(meta[f], s) THEN Parsed(s) ELSE Null)
  /\ UNCHANGED <<generation, files, writing, routeVars, key, began, meta, file, keep>>

\* $gdr_dump: the envelope is computed, then the file opened and truncated ...
DumpOpen(f) ==
  /\ pc[f] = "dump" /\ writing = Null
  /\ writing' = f
  /\ \E e \in Computable(key[f]) : meta' = [meta EXCEPT ![f] = e]
  /\ files' = [n \in DOMAIN files \cup {file[f]} |->
                 IF n = file[f] THEN Partial ELSE files[n]]
  /\ pc' = [pc EXCEPT ![f] = "write"]
  /\ UNCHANGED <<generation, snapshots, routeVars, key, began, slices, file, keep,
                 answer, disturbed>>

\* ... and written.  A name another fetch removed meanwhile stays removed.
DumpWrite(f) ==
  /\ pc[f] = "write" /\ writing = f
  /\ writing' = Null
  /\ files' = [n \in DOMAIN files |-> IF n = file[f] THEN meta[f] ELSE files[n]]
  /\ meta' = [meta EXCEPT ![f] = Null]
  /\ pc' = [pc EXCEPT ![f] = "read"]
  /\ UNCHANGED <<generation, snapshots, routeVars, key, began, slices, file, keep,
                 answer, disturbed>>

\* The finally block: unless it is a record, the file goes, whoever wrote it.
CleanUp(f, ok) ==
  files' = [n \in DOMAIN files \ (IF keep[f] THEN {} ELSE {file[f]}) |-> files[n]]

\* What parseEnvelope(readFileSync(...)) gives.
Content(n) ==
  IF n \in DOMAIN files /\ files[n] # Partial THEN files[n] ELSE Null

ReadFile(f) ==
  /\ pc[f] = "read"
  /\ LET c == Content(file[f])
     IN  Answer(f, c) /\ CleanUp(f, c # Null)
  /\ UNCHANGED <<generation, snapshots, writing, routeVars, key, began, meta, slices,
                 file, keep, disturbed>>

\* The evaluate is refused (the target runs, the frame id is stale, GDB is
\* gone), GDR cannot open the file, or its answer or the file is unreadable:
\* the fetch answers null.
EvaluateFails(f) ==
  /\ pc[f] \in {"ask", "pull", "dump", "read"}
  /\ Answer(f, Null)
  /\ IF pc[f] \in {"dump", "read"} THEN CleanUp(f, FALSE) ELSE UNCHANGED files
  /\ UNCHANGED <<generation, snapshots, writing, routeVars, key, began, meta, slices,
                 file, keep, disturbed>>

\* The caller's continuation takes the answer.
Consume(f) ==
  /\ pc[f] = "answered"
  /\ pc' = [pc EXCEPT ![f] = "idle"]
  /\ key' = [key EXCEPT ![f] = Null]
  /\ began' = [began EXCEPT ![f] = 0]
  /\ meta' = [meta EXCEPT ![f] = Null]
  /\ slices' = [slices EXCEPT ![f] = << >>]
  /\ file' = [file EXCEPT ![f] = Null]
  /\ keep' = [keep EXCEPT ![f] = FALSE]
  /\ answer' = [answer EXCEPT ![f] = Null]
  /\ disturbed' = [disturbed EXCEPT ![f] = FALSE]
  /\ UNCHANGED <<gdbVars, routeVars>>

Next ==
  \/ NextGeneration
  \/ \E f \in Fetchers :
       \/ \E k \in Keys : BeginFetch(f, k)
       \/ \E k \in Keys : BeginSnapshotFile(f, k)
       \/ Ask(f)
       \/ Pull(f)
       \/ DumpOpen(f)
       \/ DumpWrite(f)
       \/ ReadFile(f)
       \/ EvaluateFails(f)
       \/ Consume(f)

Spec == Init /\ [][Next]_vars

-----------------------------------------------------------------------------
\* Properties.

\* An accepted chunk transfer is one envelope, every frame of it: no frame of
\* another computation (a later stop, a re-seeded snapshot, other arguments)
\* is spliced into what the panel shows (transport.ts, reassembleChunks).
AcceptedIsUnspliced ==
  \A f \in Fetchers :
    pc[f] = "answered" /\ answer[f] # Null /\ slices[f] # << >> =>
      answer[f].key = key[f] /\ slices[f] = Text(answer[f])

\* A chunk transfer that a stop overtook is never accepted: when the last
\* frame completes it, the envelope is of the generation GDB is in then.
NoStaleAcceptance ==
  [][\A f \in Fetchers :
       pc[f] = "pull" /\ pc'[f] = "answered" /\ answer'[f] # Null
         => answer'[f].generation = generation]_vars

\* A transfer whose frozen text nobody displaced (no stop, no re-seed of the
\* same key, no eviction by another key) never fails its checksum: all its
\* frames come from one frozen envelope (api.chunk_response).
RejectedOnlyIfDisturbed ==
  \A f \in Fetchers :
    /\ pc[f] = "answered" /\ answer[f] = Null
    /\ meta[f] # Null /\ Len(slices[f]) = FrameTotal[meta[f].data]
    => disturbed[f]

\* The snapshot cache never outgrows its limit (api._CHUNK_SNAPSHOT_LIMIT).
CacheBounded == Cardinality(DOMAIN snapshots) <= CacheLimit

\* Every file on disk belongs to a fetch that will still remove it, or is a
\* record: failed and overlapping fetches leave no stray file behind.
NoStrayFile ==
  \A n \in DOMAIN files :
    \/ \E f \in Fetchers : file[f] = n /\ pc[f] \in {"dump", "write", "read"}
    \/ recording /\ n.verb = "snapshot"

\* fetch implements the atomic fetch: null, or one envelope of the verb asked
\* computed between its begin and its answer.
AF == INSTANCE AtomicFetch WITH
        Envelopes <- Envelope,
        phase <- [f \in Fetchers |-> IF pc[f] \in {"idle", "answered"}
                                     THEN pc[f] ELSE "busy"],
        asked <- key
FetchIsAtomic == AF!Spec

=============================================================================
