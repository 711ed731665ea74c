-------------------------- MODULE TransportProofs --------------------------
(***************************************************************************)
(* Theorems about Transport, for every set of fetches, keys and data, every*)
(* way of cutting texts into frames and every cache limit.                 *)
(*                                                                         *)
(* The argument: a fetch in the pull phase holds the envelope of its meta  *)
(* frame (Shape).  The joined frames are accepted only when they equal the *)
(* text of that envelope, and parsing that text gives the envelope back    *)
(* (ParsedText), so an accepted answer is the meta envelope itself: one    *)
(* computation, of the key asked, of the generation its last frame was     *)
(* served in.  A file holds an envelope of the verb in its name, computed  *)
(* after every fetch now reading it began, since a dump holds GDB until it *)
(* is written (Timely).  So every answer is one the atomic fetch allows.   *)
(***************************************************************************)
EXTENDS Transport, TLAPS, SequenceTheorems, FiniteSetTheorems

\* What each phase of a fetch may rely on.
Shape ==
  \A f \in Fetchers :
    /\ pc[f] # "idle" => key[f] \in Keys
    /\ pc[f] \in {"pull", "write"} => meta[f] \in Envelope /\ meta[f].key = key[f]
    /\ pc[f] \in {"dump", "write", "read"} =>
         file[f] \in Name /\ file[f].verb = VerbOf[key[f]]
    /\ pc[f] \notin {"pull", "answered"} => slices[f] = << >>

Typed == TypeOK /\ Shape

-----------------------------------------------------------------------------
\* Lemmas on frames and texts.

\* The three kinds of frame.
LEMMA FrameCases ==
  ASSUME NEW e \in Envelope, NEW i \in Nat \ {0}
  PROVE  /\ FrameTotal[e.data] \in Nat \ {0}
         /\ FrameOf(e, i) \in Frame
         /\ i < FrameTotal[e.data] =>
              FrameOf(e, i) = [kind |-> "data", key |-> e.key, data |-> e.data, at |-> i]
         /\ i = FrameTotal[e.data] => FrameOf(e, i) = [kind |-> "closing", envelope |-> e]
         /\ i > FrameTotal[e.data] => FrameOf(e, i) = [kind |-> "error"]
BY TransportAssumption DEF FrameOf, Frame, Envelope

\* Every text has a frame.
LEMMA TotalPositive ==
  \A e \in Envelope : FrameTotal[e.data] \in Nat \ {0}
BY TransportAssumption DEF Envelope

\* The text of an envelope is a sequence of its frames.
LEMMA TextFrames ==
  ASSUME NEW e \in Envelope
  PROVE  /\ Text(e) \in Seq(Frame)
         /\ Len(Text(e)) = FrameTotal[e.data]
         /\ \A i \in 1..FrameTotal[e.data] : Text(e)[i] = FrameOf(e, i)
<1>1. FrameTotal[e.data] \in Nat
  BY FrameCases
<1>2. \A i \in 1..FrameTotal[e.data] : FrameOf(e, i) \in Frame
  BY FrameCases, <1>1
<1> QED BY <1>1, <1>2 DEF Text

\* The joined frames of an envelope parse to that envelope (parseEnvelope of
\* what pack_envelope wrote).
LEMMA ParsedText ==
  ASSUME NEW e \in Envelope
  PROVE  Parsed(Text(e)) = e
<1> DEFINE total == FrameTotal[e.data]
           s == Text(e)
<1>1. total \in Nat \ {0} /\ Len(s) = total
  BY FrameCases, TextFrames
<1>2. s[total] = [kind |-> "closing", envelope |-> e] /\ s[1] = FrameOf(e, 1)
  BY <1>1, FrameCases, TextFrames
<1>3. s[1].kind = "data" => s[1].data = e.data
  BY <1>1, <1>2, FrameCases
<1>4. Parsed(s) = [e EXCEPT !.data = IF s[1].kind = "data" THEN s[1].data ELSE @]
  BY <1>1, <1>2 DEF Parsed
<1> QED BY <1>3, <1>4 DEF Envelope

\* An envelope GDR computes for a key of the client is an envelope.
LEMMA ComputableType ==
  ASSUME NEW k \in Keys, generation \in Nat, NEW e \in Computable(k)
  PROVE  e \in Envelope /\ e.key = k /\ e.generation = generation
BY DEF Computable, Envelope

\* What Remember leaves in the cache and the history.
LEMMA RememberType ==
  ASSUME Typed, NEW f \in Fetchers, NEW e \in Envelope, key[f] \in Keys, Remember(f, e)
  PROVE  /\ DOMAIN snapshots' \subseteq Keys
         /\ \A k \in DOMAIN snapshots' : snapshots'[k] \in Envelope
         /\ disturbed' \in [Fetchers -> BOOLEAN]
<1>1. Survivors \subseteq DOMAIN snapshots
  BY DEF Survivors
<1>2. DOMAIN snapshots' = Survivors \cup {key[f]}
  BY DEF Remember
<1>3. \A k \in Survivors \cup {key[f]} :
         snapshots'[k] = IF k = key[f] THEN e ELSE snapshots[k]
  BY DEF Remember
<1>4. disturbed' \in [Fetchers -> BOOLEAN]
  BY DEF Remember
<1> QED BY <1>1, <1>2, <1>3, <1>4 DEF Typed, TypeOK

\* What a fetch that takes the file route holds.
LEMMA FileRouteType ==
  ASSUME Typed, NEW f \in Fetchers, NEW k \in Keys, NEW kept \in BOOLEAN,
         ToFileRoute(f, k, kept)
  PROVE  /\ pc' = [pc EXCEPT ![f] = "dump"]
         /\ file' \in [Fetchers -> Name \cup {Null}]
         /\ file'[f] \in Name /\ file'[f].verb = VerbOf[k]
         /\ \A g \in Fetchers : g # f => file'[g] = file[g]
         /\ keep' \in [Fetchers -> BOOLEAN]
BY TransportAssumption DEF ToFileRoute, FileName, Name, Typed, TypeOK

\* Typed holds initially ...
LEMMA TypedInit == Init => Typed
<1> SUFFICES ASSUME Init PROVE Typed
  OBVIOUS
<1>1. DOMAIN snapshots = {} /\ DOMAIN files = {}
  BY DEF Init
<1>2. slices \in [Fetchers -> Seq(Frame)]
  BY DEF Init
<1> QED BY <1>1, <1>2 DEF Init, Typed, TypeOK, Shape, Phases

\* ... and every step preserves it.
LEMMA TypedStep == Typed /\ [Next]_vars => Typed'
<1> SUFFICES ASSUME Typed, [Next]_vars PROVE Typed'
  OBVIOUS
<1> USE TransportAssumption
<1>1. CASE NextGeneration
  BY <1>1 DEF NextGeneration, Typed, TypeOK, Shape, fetchVars, routeVars
<1>2. ASSUME NEW f \in Fetchers, NEW k \in Keys, BeginFetch(f, k)
      PROVE  Typed'
  <2>1. CASE fileRoute
    <3>1. ToFileRoute(f, k, FALSE)
      BY <1>2, <2>1 DEF BeginFetch
    <3>2. /\ pc' = [pc EXCEPT ![f] = "dump"]
          /\ file' \in [Fetchers -> Name \cup {Null}]
          /\ file'[f] \in Name /\ file'[f].verb = VerbOf[k]
          /\ \A g \in Fetchers : g # f => file'[g] = file[g]
          /\ keep' \in [Fetchers -> BOOLEAN]
      BY <3>1, FileRouteType
    <3>3. Start(f, k)
      BY <1>2 DEF BeginFetch
    <3>4. TypeOK'
      BY <3>2, <3>3 DEF Start, Typed, TypeOK, Phases, gdbVars, routeVars
    <3>5. Shape'
      BY <3>2, <3>3 DEF Start, Typed, TypeOK, Shape, gdbVars
    <3> QED BY <3>4, <3>5 DEF Typed
  <2>2. CASE ~fileRoute
    <3>1. Start(f, k) /\ pc' = [pc EXCEPT ![f] = "ask"] /\ UNCHANGED <<file, keep>>
      BY <1>2, <2>2 DEF BeginFetch
    <3>2. TypeOK'
      BY <3>1 DEF Start, Typed, TypeOK, Phases, gdbVars, routeVars
    <3>3. Shape'
      BY <3>1 DEF Start, Typed, TypeOK, Shape, gdbVars
    <3> QED BY <3>2, <3>3 DEF Typed
  <2> QED BY <2>1, <2>2
<1>3. ASSUME NEW f \in Fetchers, NEW k \in Keys, BeginSnapshotFile(f, k)
      PROVE  Typed'
  <2>1. Start(f, k) /\ ToFileRoute(f, k, recording) /\ recording \in BOOLEAN
    BY <1>3 DEF BeginSnapshotFile, Typed, TypeOK
  <2>2. /\ pc' = [pc EXCEPT ![f] = "dump"]
        /\ file' \in [Fetchers -> Name \cup {Null}]
        /\ file'[f] \in Name /\ file'[f].verb = VerbOf[k]
        /\ \A g \in Fetchers : g # f => file'[g] = file[g]
        /\ keep' \in [Fetchers -> BOOLEAN]
    BY <2>1, FileRouteType
  <2>3. TypeOK'
    BY <2>1, <2>2 DEF Start, Typed, TypeOK, Phases, gdbVars, routeVars
  <2>4. Shape'
    BY <2>1, <2>2 DEF Start, Typed, TypeOK, Shape, gdbVars
  <2> QED BY <2>3, <2>4 DEF Typed
<1>4. ASSUME NEW f \in Fetchers, Ask(f)
      PROVE  Typed'
  <2>1. PICK e \in Computable(key[f]) : Ask(f)!2!(e)
    BY <1>4 DEF Ask
  <2>2. /\ pc[f] = "ask"
        /\ UNCHANGED <<generation, files, writing, carriesStrings, recording, key, began, slices>>
    BY <1>4 DEF Ask
  <2>3. /\ e \in Envelope /\ e.key = key[f]
        /\ key[f] \in Keys /\ VerbOf[key[f]] \in Verbs
        /\ carriesStrings \in BOOLEAN
    BY <2>2, ComputableType DEF Typed, TypeOK, Shape
  <2>4. /\ DOMAIN snapshots' \subseteq Keys
        /\ \A k \in DOMAIN snapshots' : snapshots'[k] \in Envelope
        /\ disturbed' \in [Fetchers -> BOOLEAN]
    <3>1. CASE e.data \in InlineData
      BY <2>1, <3>1 DEF TransportResponse, Typed, TypeOK
    <3>2. CASE e.data \notin InlineData
      BY <2>1, <2>3, <3>2, RememberType DEF TransportResponse
    <3> QED BY <3>1, <3>2
  <2>5. CASE ~carriesStrings
    <3>1. ToFileRoute(f, key[f], FALSE) /\ fileRoute' = TRUE /\ UNCHANGED <<meta, answer>>
      BY <2>1, <2>5
    <3>2. /\ pc' = [pc EXCEPT ![f] = "dump"]
          /\ file' \in [Fetchers -> Name \cup {Null}]
          /\ file'[f] \in Name /\ file'[f].verb = VerbOf[key[f]]
          /\ \A g \in Fetchers : g # f => file'[g] = file[g]
          /\ keep' \in [Fetchers -> BOOLEAN]
      BY <2>3, <3>1, FileRouteType
    <3>3. TypeOK'
      BY <2>2, <2>3, <2>4, <3>1, <3>2 DEF Typed, TypeOK, Phases
    <3>4. Shape'
      BY <2>2, <2>3, <3>1, <3>2 DEF Typed, TypeOK, Shape
    <3> QED BY <3>3, <3>4 DEF Typed
  <2>6. CASE carriesStrings /\ e.data \in InlineData
    <3>1. UNCHANGED <<fileRoute, file, keep, meta>> /\ Answer(f, e)
      BY <2>1, <2>6
    <3> QED
      BY <2>2, <2>3, <2>4, <3>1 DEF Answer, Typed, TypeOK, Shape, Phases
  <2>7. CASE carriesStrings /\ e.data \notin InlineData
    <3>1. /\ UNCHANGED <<fileRoute, file, keep, answer>>
          /\ pc' = [pc EXCEPT ![f] = "pull"] /\ meta' = [meta EXCEPT ![f] = e]
      BY <2>1, <2>7
    <3> QED
      BY <2>2, <2>3, <2>4, <3>1 DEF Typed, TypeOK, Shape, Phases
  <2> QED BY <2>3, <2>5, <2>6, <2>7
<1>5. ASSUME NEW f \in Fetchers, Pull(f)
      PROVE  Typed'
  <2>1. PICK e \in ChunkSources(key[f]) : Pull(f)!2!(e)
    BY <1>5 DEF Pull
  <2>2. key[f] \in Keys /\ meta[f] \in Envelope /\ slices[f] \in Seq(Frame)
    BY <1>5 DEF Pull, Typed, TypeOK, Shape
  <2>3. e \in Envelope
    BY <2>1, <2>2, ComputableType DEF ChunkSources, Frozen, Typed, TypeOK
  <2>4. /\ DOMAIN snapshots' \subseteq Keys
        /\ \A k \in DOMAIN snapshots' : snapshots'[k] \in Envelope
        /\ disturbed' \in [Fetchers -> BOOLEAN]
    <3>1. CASE Frozen(key[f]) = {}
      BY <2>1, <2>2, <2>3, <3>1, RememberType
    <3>2. CASE Frozen(key[f]) # {}
      BY <2>1, <3>2 DEF Typed, TypeOK
    <3> QED BY <3>1, <3>2
  <2> DEFINE i == Len(slices[f]) + 1
             s == Append(slices[f], FrameOf(e, i))
  <2>5. s \in Seq(Frame)
    BY <2>2, <2>3, FrameCases
  <2>6. slices' = [slices EXCEPT ![f] = s]
    BY <2>1
  <2>7. slices' \in [Fetchers -> Seq(Frame)]
    BY <2>5, <2>6 DEF Typed, TypeOK
  <2>8. CASE i < FrameTotal[meta[f].data]
    BY <1>5, <2>1, <2>2, <2>4, <2>6, <2>7, <2>8
       DEF Pull, routeVars, Typed, TypeOK, Shape
  <2>9. CASE ~(i < FrameTotal[meta[f].data])
    <3>1. /\ pc' = [pc EXCEPT ![f] = "answered"]
          /\ answer' = [answer EXCEPT ![f] =
                          IF Reassembles(meta[f], s) THEN Parsed(s) ELSE Null]
      BY <2>1, <2>9 DEF Answer
    <3>2. Reassembles(meta[f], s) => Parsed(s) = meta[f]
      BY <2>2, ParsedText DEF Reassembles
    <3>3. answer' \in [Fetchers -> Envelope \cup {Null}]
      BY <2>2, <3>1, <3>2 DEF Typed, TypeOK
    <3> QED
      BY <1>5, <2>4, <2>6, <2>7, <3>1, <3>3
         DEF Pull, routeVars, Typed, TypeOK, Shape, Phases
  <2> QED BY <2>8, <2>9
<1>6. ASSUME NEW f \in Fetchers, DumpOpen(f)
      PROVE  Typed'
  BY <1>6, ComputableType DEF DumpOpen, Typed, TypeOK, Shape, Phases, routeVars
<1>7. ASSUME NEW f \in Fetchers, DumpWrite(f)
      PROVE  Typed'
  BY <1>7 DEF DumpWrite, Typed, TypeOK, Shape, Phases, routeVars
<1>8. ASSUME NEW f \in Fetchers, ReadFile(f)
      PROVE  Typed'
  BY <1>8 DEF ReadFile, Answer, CleanUp, Content, Typed, TypeOK, Shape, Phases, routeVars
<1>9. ASSUME NEW f \in Fetchers, EvaluateFails(f)
      PROVE  Typed'
  BY <1>9 DEF EvaluateFails, Answer, CleanUp, Typed, TypeOK, Shape, Phases, routeVars
<1>10. ASSUME NEW f \in Fetchers, Consume(f)
      PROVE  Typed'
  BY <1>10 DEF Consume, Typed, TypeOK, Shape, Phases, routeVars, gdbVars
<1>11. CASE UNCHANGED vars
  BY <1>11 DEF vars, Typed, TypeOK, Shape
<1> QED
  BY <1>1, <1>2, <1>3, <1>4, <1>5, <1>6, <1>7, <1>8, <1>9, <1>10, <1>11 DEF Next

\* The types hold always: no message, file or cache entry is ever anything
\* but an envelope, and each fetch holds what its phase needs.
THEOREM TypeCorrect == Spec => []Typed
BY TypedInit, TypedStep, PTL DEF Spec

\* The type invariant alone.
THEOREM TypesHold == Spec => []TypeOK
<1>1. Typed => TypeOK
  BY DEF Typed
<1> QED BY <1>1, TypeCorrect, PTL

-----------------------------------------------------------------------------
\* Chunk transfers.

\* While nobody displaced the frozen text of f's transfer, that text is the
\* one of its meta frame and the frames pulled so far are its first ones.
Prefix ==
  \A f \in Fetchers : pc[f] = "pull" =>
    /\ Len(slices[f]) < FrameTotal[meta[f].data]
    /\ ~disturbed[f] =>
         /\ key[f] \in DOMAIN snapshots
         /\ snapshots[key[f]] = meta[f]
         /\ meta[f].generation = generation
         /\ \A i \in 1..Len(slices[f]) : slices[f][i] = FrameOf(meta[f], i)

Transfers == AcceptedIsUnspliced /\ RejectedOnlyIfDisturbed /\ Prefix

\* What the frame that completes a transfer decides.
LEMMA LastPull ==
  ASSUME Typed, NEW f \in Fetchers, Pull(f), pc'[f] = "answered"
  PROVE  /\ slices'[f] = Text(meta[f]) => answer'[f] = meta[f]
         /\ slices'[f] # Text(meta[f]) => answer'[f] = Null
         /\ answer'[f] # Null => meta[f].generation = generation
<1>1. PICK e \in ChunkSources(key[f]) : Pull(f)!2!(e)
  BY DEF Pull
<1> DEFINE i == Len(slices[f]) + 1
           s == Append(slices[f], FrameOf(e, i))
<1>2. /\ key[f] \in Keys /\ meta[f] \in Envelope /\ meta[f].key = key[f]
      /\ slices[f] \in Seq(Frame) /\ pc[f] = "pull" /\ i \in Nat \ {0}
  BY DEF Pull, Typed, TypeOK, Shape
<1>3. e \in Envelope /\ e.generation = generation
  BY <1>2, ComputableType DEF ChunkSources, Frozen, Typed, TypeOK
<1>4. slices'[f] = s /\ Len(s) = i /\ s[i] = FrameOf(e, i)
  BY <1>1, <1>2, <1>3, FrameCases DEF Typed, TypeOK
<1>5. /\ ~(i < FrameTotal[meta[f].data])
      /\ answer'[f] = IF Reassembles(meta[f], s) THEN Parsed(s) ELSE Null
  BY <1>1, <1>2 DEF Answer, Typed, TypeOK
<1>6. s = Text(meta[f]) => answer'[f] = meta[f]
  BY <1>2, <1>5, ParsedText DEF Reassembles
<1>7. s # Text(meta[f]) => answer'[f] = Null
  BY <1>5 DEF Reassembles
<1>8. ASSUME s = Text(meta[f]) PROVE meta[f].generation = generation
  <2>1. i = FrameTotal[meta[f].data]
    BY <1>2, <1>4, <1>8, TextFrames
  <2>2. FrameOf(e, i) = FrameOf(meta[f], i)
    BY <1>2, <1>4, <1>8, <2>1, TextFrames
  <2>3. FrameOf(meta[f], i) = [kind |-> "closing", envelope |-> meta[f]]
    BY <1>2, <2>1, FrameCases
  <2>4. FrameOf(e, i) = [kind |-> "closing", envelope |-> e]
    BY <1>2, <1>3, <2>2, <2>3, FrameCases
  <2>5. e = meta[f]
    BY <2>2, <2>3, <2>4
  <2> QED BY <1>3, <2>5
<1> QED BY <1>4, <1>6, <1>7, <1>8

\* A pull changes nothing of the other fetches but their disturbed flags.
LEMMA PullOthers ==
  ASSUME Typed, NEW f \in Fetchers, Pull(f), NEW g \in Fetchers, g # f
  PROVE  /\ pc'[g] = pc[g] /\ key'[g] = key[g] /\ meta'[g] = meta[g]
         /\ slices'[g] = slices[g] /\ answer'[g] = answer[g]
BY DEF Pull, Answer, Typed, TypeOK

\* Seeding the cache on behalf of f leaves every undisturbed transfer of
\* another fetch its frozen text.
LEMMA RememberSpares ==
  ASSUME Typed, NEW f \in Fetchers, NEW e \in Envelope, Remember(f, e)
  PROVE  /\ key[f] \in DOMAIN snapshots' /\ snapshots'[key[f]] = e
         /\ \A g \in Fetchers : disturbed[g] => disturbed'[g]
         /\ disturbed'[f] = disturbed[f]
         /\ \A g \in Fetchers \ {f} :
              pc[g] = "pull" /\ ~disturbed'[g] /\ key[g] \in DOMAIN snapshots =>
                /\ key[g] \in DOMAIN snapshots'
                /\ snapshots'[key[g]] = snapshots[key[g]]
BY DEF Remember, Survivors, Typed, TypeOK

\* Transfers holds initially ...
LEMMA TransfersInit == Init => Transfers
BY DEF Init, Transfers, AcceptedIsUnspliced, RejectedOnlyIfDisturbed, Prefix

\* ... and every step preserves it.
LEMMA TransfersStep == Typed /\ Transfers /\ [Next]_vars => Transfers'
<1> SUFFICES ASSUME Typed, Transfers, [Next]_vars PROVE Transfers'
  OBVIOUS
<1> USE DEF Transfers, AcceptedIsUnspliced, RejectedOnlyIfDisturbed, Prefix
<1>1. CASE NextGeneration
  BY <1>1 DEF NextGeneration, fetchVars, Typed, TypeOK
<1>2. ASSUME NEW f \in Fetchers, NEW k \in Keys,
             BeginFetch(f, k) \/ BeginSnapshotFile(f, k)
      PROVE  Transfers'
  <2>1. Start(f, k) /\ (pc' = [pc EXCEPT ![f] = "ask"] \/ pc' = [pc EXCEPT ![f] = "dump"])
    BY <1>2 DEF BeginFetch, BeginSnapshotFile, ToFileRoute
  <2> QED BY <2>1 DEF Start, gdbVars, Typed, TypeOK
<1>3. ASSUME NEW f \in Fetchers, Ask(f)
      PROVE  Transfers'
  <2>1. PICK e \in Computable(key[f]) : Ask(f)!2!(e)
    BY <1>3 DEF Ask
  <2>2. /\ pc[f] = "ask"
        /\ UNCHANGED <<generation, files, writing, carriesStrings, recording, key, began, slices>>
    BY <1>3 DEF Ask
  <2>3. /\ e \in Envelope /\ e.key = key[f] /\ e.generation = generation
        /\ key[f] \in Keys /\ slices[f] = << >> /\ carriesStrings \in BOOLEAN
    BY <2>2, ComputableType DEF Typed, TypeOK, Shape
  <2>4. \A g \in Fetchers \ {f} :
          /\ pc'[g] = pc[g] /\ meta'[g] = meta[g] /\ answer'[g] = answer[g]
          /\ disturbed[g] => disturbed'[g]
          /\ pc[g] = "pull" /\ ~disturbed'[g] /\ key[g] \in DOMAIN snapshots =>
               /\ key[g] \in DOMAIN snapshots'
               /\ snapshots'[key[g]] = snapshots[key[g]]
    <3>1. \A g \in Fetchers \ {f} :
            pc'[g] = pc[g] /\ meta'[g] = meta[g] /\ answer'[g] = answer[g]
      BY <2>1, <2>3 DEF Answer, ToFileRoute, Typed, TypeOK
    <3>2. CASE e.data \in InlineData
      BY <2>1, <3>1, <3>2 DEF TransportResponse
    <3>3. CASE e.data \notin InlineData
      BY <2>1, <2>3, <3>1, <3>3, RememberSpares DEF TransportResponse
    <3> QED BY <3>2, <3>3
  <2>5. /\ pc'[f] \in {"dump", "answered", "pull"}
        /\ pc'[f] = "answered" => answer'[f] = e
        /\ pc'[f] = "pull" => /\ meta'[f] = e
                              /\ key[f] \in DOMAIN snapshots'
                              /\ snapshots'[key[f]] = e
    <3>1. CASE ~carriesStrings
      BY <2>1, <3>1 DEF ToFileRoute, Typed, TypeOK
    <3>2. CASE carriesStrings /\ e.data \in InlineData
      BY <2>1, <3>2 DEF Answer, Typed, TypeOK
    <3>3. CASE carriesStrings /\ e.data \notin InlineData
      BY <2>1, <2>3, <3>3, RememberSpares DEF TransportResponse, Typed, TypeOK
    <3> QED BY <2>3, <3>1, <3>2, <3>3
  <2>6. e # Null /\ FrameTotal[e.data] \in Nat \ {0}
    BY <2>3, FrameCases, TransportAssumption
  <2>7. AcceptedIsUnspliced'
    BY <2>2, <2>3, <2>4, <2>5
  <2>8. RejectedOnlyIfDisturbed'
    BY <2>2, <2>4, <2>5, <2>6
  <2>9. Prefix'
    BY <2>2, <2>3, <2>4, <2>5, <2>6
  <2> QED BY <2>7, <2>8, <2>9
<1>4. ASSUME NEW f \in Fetchers, Pull(f)
      PROVE  Transfers'
  <2>1. PICK e \in ChunkSources(key[f]) : Pull(f)!2!(e)
    BY <1>4 DEF Pull
  <2> DEFINE i == Len(slices[f]) + 1
             s == Append(slices[f], FrameOf(e, i))
             m == meta[f]
  <2>2. /\ key[f] \in Keys /\ m \in Envelope /\ m.key = key[f] /\ m # Null
        /\ slices[f] \in Seq(Frame) /\ pc[f] = "pull" /\ i \in Nat \ {0}
        /\ UNCHANGED <<generation, key, meta>>
    BY <1>4, TransportAssumption DEF Pull, Typed, TypeOK, Shape
  <2>3. e \in Envelope /\ e.generation = generation
    BY <2>2, ComputableType DEF ChunkSources, Frozen, Typed, TypeOK
  <2>4. /\ slices'[f] = s /\ Len(s) = i /\ s[i] = FrameOf(e, i)
        /\ \A j \in 1..Len(slices[f]) : s[j] = slices[f][j]
    BY <2>1, <2>2, <2>3, FrameCases DEF Typed, TypeOK
  <2>5. /\ key[f] \in DOMAIN snapshots' /\ snapshots'[key[f]] = e
        /\ disturbed'[f] = disturbed[f]
        /\ \A g \in Fetchers : disturbed[g] => disturbed'[g]
        /\ \A g \in Fetchers \ {f} :
             pc[g] = "pull" /\ ~disturbed'[g] /\ key[g] \in DOMAIN snapshots =>
               /\ key[g] \in DOMAIN snapshots'
               /\ snapshots'[key[g]] = snapshots[key[g]]
    <3>1. CASE Frozen(key[f]) = {}
      BY <2>1, <2>3, <3>1, RememberSpares
    <3>2. CASE Frozen(key[f]) # {}
      BY <2>1, <3>2 DEF ChunkSources, Frozen
    <3> QED BY <3>1, <3>2
  <2>6. ~disturbed[f] => e = m
    BY <2>2, <2>1 DEF ChunkSources, Frozen
  <2>7. i <= FrameTotal[m.data] /\ FrameTotal[m.data] \in Nat \ {0}
    BY <2>2, FrameCases
  <2>8. ~disturbed[f] => \A j \in 1..i : s[j] = FrameOf(m, j)
    BY <2>2, <2>4, <2>6
  <2>9. /\ i < FrameTotal[m.data] => pc'[f] = "pull"
        /\ ~(i < FrameTotal[m.data]) => pc'[f] = "answered"
    BY <2>1, <2>2 DEF Answer, Typed, TypeOK
  <2>10. ~disturbed[f] /\ pc'[f] = "answered" => s = Text(m)
    <3> SUFFICES ASSUME ~disturbed[f], pc'[f] = "answered" PROVE s = Text(m)
      OBVIOUS
    <3>1. i = FrameTotal[m.data]
      BY <2>2, <2>7, <2>9
    <3>2. \A j \in 1..i : s[j] = Text(m)[j]
      BY <2>2, <2>8, <3>1, TextFrames
    <3>3. s \in Seq(Frame) /\ Text(m) \in Seq(Frame) /\ Len(s) = Len(Text(m))
      BY <2>2, <2>3, <2>4, <3>1, FrameCases, TextFrames
    <3> HIDE DEF s, i, m
    <3> QED BY <2>4, <3>2, <3>3, SeqEqual
  <2>11. AcceptedIsUnspliced'
    BY <1>4, <2>2, <2>4, LastPull, PullOthers
  <2>12. RejectedOnlyIfDisturbed'
    <3>1. pc'[f] = "answered" /\ answer'[f] = Null => disturbed'[f]
      BY <1>4, <2>2, <2>4, <2>5, <2>10, LastPull DEF Typed, TypeOK
    <3>2. pc'[f] # "idle"
      BY <2>7, <2>9
    <3> QED BY <1>4, <2>2, <2>5, <3>1, PullOthers
  <2>13. Prefix'
    BY <1>4, <2>2, <2>4, <2>5, <2>6, <2>8, <2>9, PullOthers
  <2> QED BY <2>11, <2>12, <2>13
<1>5. ASSUME NEW f \in Fetchers, DumpOpen(f) \/ DumpWrite(f)
      PROVE  Transfers'
  <2>1. /\ UNCHANGED <<generation, snapshots, key, slices, answer, disturbed>>
        /\ pc'[f] \in {"write", "read"}
        /\ \A g \in Fetchers \ {f} : pc'[g] = pc[g] /\ meta'[g] = meta[g]
    BY <1>5 DEF DumpOpen, DumpWrite, Typed, TypeOK
  <2> QED BY <2>1
<1>6. ASSUME NEW f \in Fetchers, ReadFile(f)
      PROVE  Transfers'
  <2>1. slices[f] = << >> /\ (meta[f] # Null => FrameTotal[meta[f].data] \in Nat \ {0})
    BY <1>6, TotalPositive DEF ReadFile, Typed, TypeOK, Shape
  <2> QED BY <1>6, <2>1 DEF ReadFile, Answer, Typed, TypeOK
<1>7. ASSUME NEW f \in Fetchers, EvaluateFails(f)
      PROVE  Transfers'
  <2>1. pc[f] # "pull" =>
          slices[f] = << >> /\ (meta[f] # Null => FrameTotal[meta[f].data] \in Nat \ {0})
    BY <1>7, TotalPositive DEF EvaluateFails, Typed, TypeOK, Shape
  <2> QED BY <1>7, <2>1 DEF EvaluateFails, Answer, Typed, TypeOK
<1>8. ASSUME NEW f \in Fetchers, Consume(f)
      PROVE  Transfers'
  BY <1>8 DEF Consume, gdbVars, Typed, TypeOK
<1>9. CASE UNCHANGED vars
  BY <1>9 DEF vars
<1> QED
  BY <1>1, <1>2, <1>3, <1>4, <1>5, <1>6, <1>7, <1>8, <1>9 DEF Next

\* No frame of another computation is spliced into an accepted transfer
\* (transport.ts, reassembleChunks).
THEOREM Unspliced == Spec => []AcceptedIsUnspliced
<1>1. Transfers => AcceptedIsUnspliced
  BY DEF Transfers
<1> QED BY <1>1, TransfersInit, TransfersStep, TypeCorrect, PTL DEF Spec

\* A transfer fails its checksum only when its frozen text was displaced
\* (api.chunk_response).
THEOREM OnlyDisturbedFail == Spec => []RejectedOnlyIfDisturbed
<1>1. Transfers => RejectedOnlyIfDisturbed
  BY DEF Transfers
<1> QED BY <1>1, TransfersInit, TransfersStep, TypeCorrect, PTL DEF Spec

\* A transfer a stop overtook is never accepted.
THEOREM StaleRefused == Spec => NoStaleAcceptance
<1> DEFINE Fresh == \A f \in Fetchers :
             pc[f] = "pull" /\ pc'[f] = "answered" /\ answer'[f] # Null
               => answer'[f].generation = generation
<1>1. ASSUME Typed, [Next]_vars PROVE [Fresh]_vars
  <2> SUFFICES ASSUME NEW f \in Fetchers, pc[f] = "pull", pc'[f] = "answered",
                      answer'[f] # Null, vars' # vars
               PROVE  answer'[f].generation = generation
    OBVIOUS
  <2>1. ASSUME NEW g \in Fetchers, Pull(g) PROVE answer'[f].generation = generation
    BY <2>1, <1>1, LastPull, PullOthers
  <2>2. ~NextGeneration
    BY <1>1 DEF NextGeneration
  <2>3. ASSUME NEW g \in Fetchers, NEW k \in Keys, BeginFetch(g, k) \/ BeginSnapshotFile(g, k)
        PROVE  FALSE
    BY <2>3, <1>1 DEF BeginFetch, BeginSnapshotFile, Start, ToFileRoute, Typed, TypeOK
  <2>4. ASSUME NEW g \in Fetchers, Ask(g) PROVE FALSE
    BY <2>4, <1>1 DEF Ask, Answer, ToFileRoute, Typed, TypeOK
  <2>5. ASSUME NEW g \in Fetchers,
               DumpOpen(g) \/ DumpWrite(g) \/ ReadFile(g) \/ EvaluateFails(g) \/ Consume(g)
        PROVE  FALSE
    BY <2>5, <1>1 DEF DumpOpen, DumpWrite, ReadFile, EvaluateFails, Consume, Answer, Typed,
       TypeOK
  <2> QED BY <1>1, <2>1, <2>2, <2>3, <2>4, <2>5 DEF Next
<1> QED BY <1>1, TypeCorrect, PTL DEF Spec, NoStaleAcceptance

-----------------------------------------------------------------------------
\* Every answer is of the verb asked and of the generations the fetch spans.

\* What makes an answer timely: the envelopes a fetch or a file holds were
\* computed after the fetch began; a dump in progress holds the generation.
Timely ==
  /\ writing # Null => writing \in Fetchers /\ pc[writing] = "write"
  /\ \A f \in Fetchers :
       /\ began[f] <= generation
       /\ pc[f] = "idle" => key[f] = Null /\ answer[f] = Null
       /\ pc[f] = "pull" => meta[f].generation \in began[f]..generation
       /\ pc[f] = "write" => writing = f /\ meta[f].generation = generation
       /\ pc[f] = "read" /\ Content(file[f]) # Null =>
            files[file[f]].generation \in began[f]..generation
  /\ \A n \in DOMAIN files : files[n] # Partial =>
       VerbOf[files[n].key] = n.verb /\ files[n].generation <= generation

\* Timely holds initially ...
LEMMA TimelyInit == Init => Timely
BY DEF Init, Timely

\* ... and every step preserves it.
LEMMA TimelyStep == Typed /\ Timely /\ [Next]_vars => Timely'
<1> SUFFICES ASSUME Typed, Timely, [Next]_vars PROVE Timely'
  OBVIOUS
<1> USE TransportAssumption
<1>0. /\ Null \notin Envelope /\ Null # Partial
      /\ generation \in Nat /\ \A f \in Fetchers : began[f] \in Nat
      /\ \A n \in DOMAIN files : files[n] # Partial => files[n].generation \in Nat
      /\ \A f \in Fetchers : pc[f] \in {"pull", "write"} => meta[f].generation \in Nat
  BY DEF Typed, TypeOK, Shape, Envelope
<1>1. CASE NextGeneration
  BY <1>0, <1>1 DEF NextGeneration, fetchVars, Timely, Content
<1>2. ASSUME NEW f \in Fetchers, NEW k \in Keys,
             BeginFetch(f, k) \/ BeginSnapshotFile(f, k)
      PROVE  Timely'
  <2>1. Start(f, k) /\ (\/ pc' = [pc EXCEPT ![f] = "ask"] /\ UNCHANGED file
                        \/ /\ pc' = [pc EXCEPT ![f] = "dump"]
                           /\ \A g \in Fetchers \ {f} : file'[g] = file[g])
    BY <1>2 DEF BeginFetch, BeginSnapshotFile, ToFileRoute, Typed, TypeOK
  <2> QED BY <1>0, <2>1 DEF Start, gdbVars, Timely, Typed, TypeOK, Content
<1>3. ASSUME NEW f \in Fetchers, Ask(f)
      PROVE  Timely'
  <2>1. PICK e \in Computable(key[f]) : Ask(f)!2!(e)
    BY <1>3 DEF Ask
  <2>2. /\ pc[f] = "ask" /\ e.generation = generation
        /\ UNCHANGED <<generation, files, writing, key, began>>
    BY <1>3 DEF Ask, Computable
  <2>3. \A g \in Fetchers \ {f} :
          pc'[g] = pc[g] /\ meta'[g] = meta[g] /\ answer'[g] = answer[g] /\ file'[g] = file[g]
    BY <2>1 DEF Answer, ToFileRoute, Typed, TypeOK
  <2>4. pc'[f] \in {"dump", "answered", "pull"} /\ (pc'[f] = "pull" => meta'[f] = e)
    BY <2>1 DEF ToFileRoute, Answer, Typed, TypeOK
  <2> QED BY <1>0, <2>2, <2>3, <2>4 DEF Timely, Content
<1>4. ASSUME NEW f \in Fetchers, Pull(f)
      PROVE  Timely'
  <2>1. UNCHANGED <<generation, files, writing, key, began, meta, file>>
    BY <1>4 DEF Pull
  <2>2. pc[f] = "pull" /\ pc'[f] \in {"pull", "answered"}
    BY <1>4 DEF Pull, Answer, Typed, TypeOK
  <2> QED BY <1>0, <1>4, <2>1, <2>2, PullOthers DEF Timely, Content
<1>5. ASSUME NEW f \in Fetchers, DumpOpen(f)
      PROVE  Timely'
  <2>1. PICK e \in Computable(key[f]) : meta' = [meta EXCEPT ![f] = e]
    BY <1>5 DEF DumpOpen
  <2>2. e.generation = generation
    BY DEF Computable
  <2> QED BY <1>0, <1>5, <2>1, <2>2 DEF DumpOpen, Timely, Typed, TypeOK, Content
<1>6. ASSUME NEW f \in Fetchers, DumpWrite(f)
      PROVE  Timely'
  <2>1. meta[f] \in Envelope /\ meta[f].key = key[f] /\ file[f].verb = VerbOf[key[f]]
    BY <1>6 DEF DumpWrite, Typed, Shape
  <2>2. /\ pc[f] = "write" /\ writing = f /\ writing' = Null
        /\ pc' = [pc EXCEPT ![f] = "read"] /\ meta' = [meta EXCEPT ![f] = Null]
        /\ DOMAIN files' = DOMAIN files
        /\ \A n \in DOMAIN files : files'[n] = IF n = file[f] THEN meta[f] ELSE files[n]
        /\ UNCHANGED <<generation, key, began, file, answer>>
    BY <1>6 DEF DumpWrite
  <2>3. meta[f].generation = generation /\ \A g \in Fetchers \ {f} : pc[g] # "write"
    BY <2>2 DEF Timely
  <2>4. meta[f] # Partial /\ meta[f].generation \in Nat /\ generation \in began[f]..generation
    BY <1>0, <2>1, <2>3 DEF Timely
  <2>5. \A n \in DOMAIN files' : files'[n] # Partial =>
          VerbOf[files'[n].key] = n.verb /\ files'[n].generation <= generation
    BY <1>0, <2>1, <2>2, <2>3 DEF Timely
  <2>6. \A g \in Fetchers : pc'[g] = "read" /\ file[g] \in DOMAIN files'
            /\ files'[file[g]] # Partial =>
          files'[file[g]].generation \in began[g]..generation
    <3> SUFFICES ASSUME NEW g \in Fetchers, pc'[g] = "read", file[g] \in DOMAIN files',
                        files'[file[g]] # Partial
                 PROVE  files'[file[g]].generation \in began[g]..generation
      OBVIOUS
    <3>1. CASE file[g] = file[f]
      BY <1>0, <2>2, <2>3, <3>1 DEF Timely
    <3>2. CASE file[g] # file[f]
      BY <1>0, <2>2, <3>2 DEF Timely, Content, Typed, TypeOK
    <3> QED BY <3>1, <3>2
  <2> QED BY <1>0, <2>2, <2>3, <2>5, <2>6 DEF Timely, Typed, TypeOK, Content
<1>7. ASSUME NEW f \in Fetchers, ReadFile(f) \/ EvaluateFails(f)
      PROVE  Timely'
  <2>1. /\ UNCHANGED <<generation, writing, key, began, meta, file>>
        /\ pc[f] \notin {"write", "idle"} /\ pc'[f] = "answered"
        /\ \A g \in Fetchers \ {f} : pc'[g] = pc[g] /\ answer'[g] = answer[g]
    BY <1>7 DEF ReadFile, EvaluateFails, Answer, Typed, TypeOK
  <2>2. DOMAIN files' \subseteq DOMAIN files /\ \A n \in DOMAIN files' : files'[n] = files[n]
    BY <1>7 DEF ReadFile, EvaluateFails, CleanUp
  <2> QED BY <1>0, <2>1, <2>2 DEF Timely, Content
<1>8. ASSUME NEW f \in Fetchers, Consume(f)
      PROVE  Timely'
  BY <1>0, <1>8 DEF Consume, gdbVars, Timely, Typed, TypeOK, Content
<1>9. CASE UNCHANGED vars
  BY <1>9 DEF vars, Timely, Content
<1> QED
  BY <1>1, <1>2, <1>3, <1>4, <1>5, <1>6, <1>7, <1>8, <1>9 DEF Next

\* The phase of fetch f seen from outside.
Phase(f) == IF pc[f] \in {"idle", "answered"} THEN pc[f] ELSE "busy"

\* A step that moves no fetch from one phase to another is a stutter.
LEMMA Stutters ==
  ASSUME \A f \in Fetchers : Phase(f)' = Phase(f),
         UNCHANGED <<generation, key, began, answer>>
  PROVE  UNCHANGED AF!vars
BY DEF AF!vars, Phase

\* A step in which one busy fetch answers is the abstract Return.
LEMMA Returns ==
  ASSUME Typed, NEW f \in Fetchers, NEW a,
         Phase(f) = "busy", pc' = [pc EXCEPT ![f] = "answered"],
         answer' = [answer EXCEPT ![f] = a],
         UNCHANGED <<generation, key, began>>,
         \/ a = Null
         \/ /\ a \in Envelope
            /\ VerbOf[a.key] = VerbOf[key[f]]
            /\ a.generation \in began[f]..generation
  PROVE  AF!Return(f)
<1>1. [g \in Fetchers |-> Phase(g)]' = [[g \in Fetchers |-> Phase(g)] EXCEPT ![f] = "answered"]
  BY DEF Phase, Typed, TypeOK
<1>2. answer'[f] = a
  BY DEF Typed, TypeOK
<1> QED BY <1>1, <1>2 DEF AF!Return, AF!Admissible, Phase

\* Each step of the transport is a step of the atomic fetch, or a stutter.
LEMMA FetchStep == Typed /\ Transfers /\ Timely /\ [Next]_vars => [AF!Next]_AF!vars
<1> SUFFICES ASSUME Typed, Transfers, Timely, [Next]_vars PROVE [AF!Next]_AF!vars
  OBVIOUS
<1>0. generation \in Nat /\ \A f \in Fetchers : began[f] \in Nat /\ began[f] <= generation
  BY DEF Typed, TypeOK, Timely
<1>1. CASE NextGeneration
  <2>1. AF!NextGeneration
    BY <1>1 DEF NextGeneration, fetchVars, AF!NextGeneration
  <2> QED BY <2>1 DEF AF!Next
<1>2. ASSUME NEW f \in Fetchers, NEW k \in Keys,
             BeginFetch(f, k) \/ BeginSnapshotFile(f, k)
      PROVE  [AF!Next]_AF!vars
  <2>1. Start(f, k) /\ (pc' = [pc EXCEPT ![f] = "ask"] \/ pc' = [pc EXCEPT ![f] = "dump"])
    BY <1>2 DEF BeginFetch, BeginSnapshotFile, ToFileRoute
  <2>2. [g \in Fetchers |-> Phase(g)]' = [[g \in Fetchers |-> Phase(g)] EXCEPT ![f] = "busy"]
    BY <2>1 DEF Phase, Typed, TypeOK
  <2>3. answer' = [answer EXCEPT ![f] = Null]
    BY <2>1 DEF Start, Timely, Typed, TypeOK
  <2>4. AF!Begin(f, k)
    BY <2>1, <2>2, <2>3 DEF AF!Begin, Start, gdbVars, Phase
  <2> QED BY <2>4 DEF AF!Next
<1>3. ASSUME NEW f \in Fetchers, Ask(f)
      PROVE  [AF!Next]_AF!vars
  <2>1. PICK e \in Computable(key[f]) : Ask(f)!2!(e)
    BY <1>3 DEF Ask
  <2>2. pc[f] = "ask" /\ key[f] \in Keys /\ UNCHANGED <<generation, key, began>>
    BY <1>3 DEF Ask, Typed, Shape
  <2>3. e \in Envelope /\ e.key = key[f] /\ e.generation = generation
    BY <1>0, <2>2, ComputableType
  <2>4. CASE carriesStrings /\ e.data \in InlineData
    <3>1. pc' = [pc EXCEPT ![f] = "answered"] /\ answer' = [answer EXCEPT ![f] = e]
      BY <2>1, <2>4 DEF Answer
    <3>2. e.generation \in began[f]..generation
      BY <1>0, <2>3
    <3>3. Phase(f) = "busy"
      BY <2>2 DEF Phase
    <3>4. AF!Return(f)
      BY <2>2, <2>3, <3>1, <3>2, <3>3, Returns
    <3> QED BY <3>4 DEF AF!Next
  <2>5. CASE ~(carriesStrings /\ e.data \in InlineData)
    <3>1. UNCHANGED answer /\ (\/ pc' = [pc EXCEPT ![f] = "dump"]
                               \/ pc' = [pc EXCEPT ![f] = "pull"])
      BY <2>1, <2>5 DEF ToFileRoute
    <3>2. \A g \in Fetchers : Phase(g)' = Phase(g)
      BY <2>2, <3>1 DEF Phase, Typed, TypeOK
    <3> QED BY <2>2, <3>1, <3>2, Stutters
  <2> QED BY <2>4, <2>5
<1>4. ASSUME NEW f \in Fetchers, Pull(f)
      PROVE  [AF!Next]_AF!vars
  <2>1. /\ pc[f] = "pull" /\ UNCHANGED <<generation, key, began>>
        /\ \/ UNCHANGED <<pc, answer>>
           \/ \E a : pc' = [pc EXCEPT ![f] = "answered"] /\ answer' = [answer EXCEPT ![f] = a]
    BY <1>4 DEF Pull, Answer
  <2>2. CASE UNCHANGED <<pc, answer>>
    BY <2>1, <2>2, Stutters DEF Phase
  <2>3. ASSUME NEW a, pc' = [pc EXCEPT ![f] = "answered"], answer' = [answer EXCEPT ![f] = a]
        PROVE  [AF!Next]_AF!vars
    <3>1. answer'[f] = a /\ pc'[f] = "answered"
      BY <2>3 DEF Typed, TypeOK
    <3>2. a \in {meta[f], Null}
      BY <1>4, <3>1, LastPull
    <3>3. /\ meta[f] \in Envelope /\ meta[f].key = key[f]
          /\ meta[f].generation \in began[f]..generation
      BY <2>1 DEF Typed, Shape, Timely
    <3>4. AF!Return(f)
      BY <2>1, <2>3, <3>2, <3>3, Returns DEF Phase
    <3> QED BY <3>4 DEF AF!Next
  <2> QED BY <2>1, <2>2, <2>3
<1>5. ASSUME NEW f \in Fetchers, DumpOpen(f) \/ DumpWrite(f)
      PROVE  [AF!Next]_AF!vars
  <2>1. UNCHANGED <<generation, key, began, answer>>
    BY <1>5 DEF DumpOpen, DumpWrite
  <2>2. \A g \in Fetchers : Phase(g)' = Phase(g)
    BY <1>5 DEF DumpOpen, DumpWrite, Phase, Typed, TypeOK
  <2> QED BY <2>1, <2>2, Stutters
<1>6. ASSUME NEW f \in Fetchers, ReadFile(f)
      PROVE  [AF!Next]_AF!vars
  <2>1. /\ pc[f] = "read" /\ pc' = [pc EXCEPT ![f] = "answered"]
        /\ answer' = [answer EXCEPT ![f] = Content(file[f])]
        /\ UNCHANGED <<generation, key, began>>
    BY <1>6 DEF ReadFile, Answer
  <2>2. Content(file[f]) # Null =>
          /\ Content(file[f]) \in Envelope
          /\ VerbOf[Content(file[f]).key] = VerbOf[key[f]]
          /\ Content(file[f]).generation \in began[f]..generation
    BY <2>1 DEF Content, Timely, Typed, TypeOK, Shape
  <2>3. AF!Return(f)
    BY <2>1, <2>2, Returns DEF Phase
  <2> QED BY <2>3 DEF AF!Next
<1>7. ASSUME NEW f \in Fetchers, EvaluateFails(f)
      PROVE  [AF!Next]_AF!vars
  <2>1. /\ Phase(f) = "busy" /\ pc' = [pc EXCEPT ![f] = "answered"]
        /\ answer' = [answer EXCEPT ![f] = Null]
        /\ UNCHANGED <<generation, key, began>>
    BY <1>7 DEF EvaluateFails, Answer, Phase
  <2>2. AF!Return(f)
    BY <2>1, Returns
  <2> QED BY <2>2 DEF AF!Next
<1>8. ASSUME NEW f \in Fetchers, Consume(f)
      PROVE  [AF!Next]_AF!vars
  <2>1. [g \in Fetchers |-> Phase(g)]' = [[g \in Fetchers |-> Phase(g)] EXCEPT ![f] = "idle"]
    BY <1>8 DEF Consume, Phase, Typed, TypeOK
  <2>2. AF!Consume(f)
    BY <1>8, <2>1 DEF Consume, AF!Consume, Phase, gdbVars
  <2> QED BY <2>2 DEF AF!Next
<1>9. CASE UNCHANGED vars
  BY <1>9 DEF vars, AF!vars
<1> QED
  BY <1>1, <1>2, <1>3, <1>4, <1>5, <1>6, <1>7, <1>8, <1>9 DEF Next

\* Whatever the route, a fetch is atomic: it answers null or one envelope of
\* the verb asked, computed while the fetch was under way (session.ts, fetch).
THEOREM FetchAtomic == Spec => FetchIsAtomic
<1>1. Init => AF!Init
  BY DEF Init, AF!Init
<1> QED
  BY <1>1, TransfersInit, TransfersStep, TimelyInit, TimelyStep, FetchStep, TypeCorrect,
     PTL DEF Spec, FetchIsAtomic, AF!Spec

-----------------------------------------------------------------------------
\* What is left behind: the snapshot cache and the files.

\* The cache starts empty ...
LEMMA CacheInit == Init => IsFiniteSet(DOMAIN snapshots) /\ CacheBounded
<1> SUFFICES ASSUME Init PROVE IsFiniteSet(DOMAIN snapshots) /\ CacheBounded
  OBVIOUS
<1>1. DOMAIN snapshots = {}
  BY DEF Init
<1> QED BY <1>1, FS_EmptySet, TransportAssumption DEF CacheBounded

\* ... a seed keeps it within its limit ...
LEMMA RememberBounded ==
  ASSUME IsFiniteSet(DOMAIN snapshots), CacheBounded,
         NEW f \in Fetchers, NEW e, Remember(f, e)
  PROVE  IsFiniteSet(DOMAIN snapshots)' /\ CacheBounded'
<1>1. DOMAIN snapshots' = Survivors \cup {key[f]}
  BY DEF Remember
<1>2. /\ IsFiniteSet(Survivors)
      /\ Cardinality(Survivors) \in Nat
      /\ Cardinality(Survivors) < CacheLimit
  BY FS_EmptySet, FS_CardinalityType, TransportAssumption DEF Survivors
<1>3. /\ IsFiniteSet(Survivors \cup {key[f]})
      /\ Cardinality(Survivors \cup {key[f]}) <= Cardinality(Survivors) + 1
  BY <1>2, FS_AddElement
<1>4. Cardinality(Survivors \cup {key[f]}) \in Nat
  BY <1>3, FS_CardinalityType
<1> QED BY <1>1, <1>2, <1>3, <1>4, TransportAssumption DEF CacheBounded

\* ... and so does every step.
LEMMA CacheStep ==
  IsFiniteSet(DOMAIN snapshots) /\ CacheBounded /\ [Next]_vars
    => (IsFiniteSet(DOMAIN snapshots) /\ CacheBounded)'
<1> SUFFICES ASSUME IsFiniteSet(DOMAIN snapshots), CacheBounded, [Next]_vars
             PROVE  IsFiniteSet(DOMAIN snapshots)' /\ CacheBounded'
  OBVIOUS
<1>1. UNCHANGED snapshots \/ \E f \in Fetchers : \E e : Remember(f, e)
  <2>1. ASSUME NEW f \in Fetchers, Ask(f)
        PROVE  UNCHANGED snapshots \/ \E e \in Computable(key[f]) : Remember(f, e)
    BY <2>1 DEF Ask, TransportResponse
  <2>2. ASSUME NEW f \in Fetchers, Pull(f)
        PROVE  UNCHANGED snapshots \/ \E e \in ChunkSources(key[f]) : Remember(f, e)
    BY <2>2 DEF Pull
  <2>3. ASSUME NEW f \in Fetchers, NEW k \in Keys,
               BeginFetch(f, k) \/ BeginSnapshotFile(f, k)
        PROVE  UNCHANGED snapshots
    BY <2>3 DEF BeginFetch, BeginSnapshotFile, Start, gdbVars
  <2>4. ASSUME NEW f \in Fetchers,
               DumpOpen(f) \/ DumpWrite(f) \/ ReadFile(f) \/ EvaluateFails(f) \/ Consume(f)
        PROVE  UNCHANGED snapshots
    BY <2>4 DEF DumpOpen, DumpWrite, ReadFile, EvaluateFails, Consume, gdbVars
  <2> QED BY <2>1, <2>2, <2>3, <2>4 DEF Next, NextGeneration, vars
<1> QED BY <1>1, RememberBounded DEF CacheBounded

\* The snapshot cache never outgrows _CHUNK_SNAPSHOT_LIMIT.
THEOREM CacheStaysBounded == Spec => []CacheBounded
BY CacheInit, CacheStep, PTL DEF Spec

\* A file that stays is a snapshot record.
Records ==
  \A f \in Fetchers : keep[f] /\ pc[f] \in {"dump", "write", "read"} =>
    recording /\ file[f].verb = "snapshot"

Files == NoStrayFile /\ Records

\* Files holds initially ...
LEMMA FilesInit == Init => Files
<1> SUFFICES ASSUME Init PROVE Files
  OBVIOUS
<1>1. DOMAIN files = {}
  BY DEF Init
<1> QED BY <1>1 DEF Init, Files, NoStrayFile, Records

\* ... and every step preserves it.
LEMMA FilesStep == Typed /\ Files /\ [Next]_vars => Files'
<1> SUFFICES ASSUME Typed, Files, [Next]_vars PROVE Files'
  OBVIOUS
<1> USE DEF Files, NoStrayFile, Records
<1>1. CASE NextGeneration
  BY <1>1 DEF NextGeneration, fetchVars, routeVars
<1>2. ASSUME NEW f \in Fetchers, NEW k \in Keys,
             BeginFetch(f, k) \/ BeginSnapshotFile(f, k)
      PROVE  Files'
  <2>1. /\ pc[f] = "idle" /\ UNCHANGED <<files, recording>>
        /\ \A g \in Fetchers \ {f} : pc'[g] = pc[g] /\ file'[g] = file[g] /\ keep'[g] = keep[g]
    BY <1>2 DEF BeginFetch, BeginSnapshotFile, ToFileRoute, Start, gdbVars, routeVars, Typed,
       TypeOK
  <2>2. keep'[f] /\ pc'[f] = "dump" => recording /\ file'[f].verb = "snapshot"
    <3>1. CASE BeginFetch(f, k) /\ fileRoute
      BY <3>1 DEF BeginFetch, ToFileRoute, Typed, TypeOK
    <3>2. CASE BeginFetch(f, k) /\ ~fileRoute
      BY <3>2 DEF BeginFetch, Typed, TypeOK
    <3>3. CASE BeginSnapshotFile(f, k)
      BY <3>3 DEF BeginSnapshotFile, ToFileRoute, FileName, Typed, TypeOK
    <3> QED BY <1>2, <3>1, <3>2, <3>3
  <2>3. pc'[f] \in {"ask", "dump"}
    BY <1>2 DEF BeginFetch, BeginSnapshotFile, ToFileRoute, Typed, TypeOK
  <2> QED BY <2>1, <2>2, <2>3
<1>3. ASSUME NEW f \in Fetchers, Ask(f)
      PROVE  Files'
  <2>1. PICK e \in Computable(key[f]) : Ask(f)!2!(e)
    BY <1>3 DEF Ask
  <2>2. pc[f] = "ask" /\ UNCHANGED <<files, recording>>
    BY <1>3 DEF Ask
  <2>3. /\ pc'[f] \in {"dump", "answered", "pull"}
        /\ pc'[f] = "dump" => ~keep'[f]
        /\ \A g \in Fetchers \ {f} : pc'[g] = pc[g] /\ file'[g] = file[g] /\ keep'[g] = keep[g]
    BY <2>1 DEF ToFileRoute, Answer, Typed, TypeOK
  <2> QED BY <2>2, <2>3
<1>4. ASSUME NEW f \in Fetchers, Pull(f)
      PROVE  Files'
  <2>1. /\ UNCHANGED <<files, recording, file, keep>>
        /\ pc[f] = "pull" /\ pc'[f] \in {"pull", "answered"}
        /\ \A g \in Fetchers \ {f} : pc'[g] = pc[g]
    BY <1>4 DEF Pull, Answer, routeVars, Typed, TypeOK
  <2> QED BY <2>1
<1>5. ASSUME NEW f \in Fetchers, DumpOpen(f) \/ DumpWrite(f)
      PROVE  Files'
  <2>1. /\ UNCHANGED <<recording, file, keep>>
        /\ pc[f] \in {"dump", "write"} /\ pc'[f] \in {"write", "read"}
        /\ \A g \in Fetchers \ {f} : pc'[g] = pc[g]
        /\ DOMAIN files' \subseteq DOMAIN files \cup {file[f]}
    BY <1>5 DEF DumpOpen, DumpWrite, routeVars, Typed, TypeOK
  <2> QED BY <2>1
<1>6. ASSUME NEW f \in Fetchers, ReadFile(f) \/ EvaluateFails(f)
      PROVE  Files'
  <2>1. /\ UNCHANGED <<recording, file, keep>> /\ keep[f] \in BOOLEAN
        /\ pc[f] \in {"ask", "pull", "dump", "read"} /\ pc'[f] = "answered"
        /\ \A g \in Fetchers \ {f} : pc'[g] = pc[g]
    BY <1>6 DEF ReadFile, EvaluateFails, Answer, routeVars, Typed, TypeOK
  <2>2. pc[f] \in {"dump", "read"} =>
          DOMAIN files' = DOMAIN files \ (IF keep[f] THEN {} ELSE {file[f]})
    BY <1>6 DEF ReadFile, EvaluateFails, CleanUp
  <2>3. pc[f] \in {"ask", "pull"} => UNCHANGED files
    BY <1>6 DEF ReadFile, EvaluateFails
  <2> QED BY <2>1, <2>2, <2>3
<1>7. ASSUME NEW f \in Fetchers, Consume(f)
      PROVE  Files'
  <2>1. /\ UNCHANGED <<files, recording>> /\ pc[f] = "answered" /\ pc'[f] = "idle"
        /\ \A g \in Fetchers \ {f} : pc'[g] = pc[g] /\ file'[g] = file[g] /\ keep'[g] = keep[g]
    BY <1>7 DEF Consume, gdbVars, routeVars, Typed, TypeOK
  <2> QED BY <2>1
<1>8. CASE UNCHANGED vars
  BY <1>8 DEF vars
<1> QED
  BY <1>1, <1>2, <1>3, <1>4, <1>5, <1>6, <1>7, <1>8 DEF Next

\* Every file but a record belongs to a fetch that still removes it
\* (session.ts, fetchViaFile).
THEOREM FilesAreOwned == Spec => []NoStrayFile
<1>1. Files => NoStrayFile
  BY DEF Files
<1> QED BY <1>1, FilesInit, FilesStep, TypeCorrect, PTL DEF Spec
=============================================================================
