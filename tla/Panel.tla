------------------------------- MODULE Panel -------------------------------
(***************************************************************************)
(* The RTOS views panel of the extension host and the tracker events that  *)
(* drive it: vscode/src/panel.ts and the handler of extension.ts.          *)
(*                                                                         *)
(* The host is one thread, but every handler that awaits GDR is cut in two *)
(* at the await: the part up to it leaves a call in "asked", GDB answers   *)
(* calls in any order (a call is many evaluates), and the answers arrive   *)
(* in the order GDB gave them.  debug-tracker-vscode sits in the host, on  *)
(* the adapter's own stream, so an event of the target may be handled      *)
(* before an answer the adapter sent earlier.                              *)
(*                                                                         *)
(* A call is atomic in the sense of AtomicFetch: it answers null, or one   *)
(* envelope of the generation GDB is in when it answers.  The generation   *)
(* is the number of stops.                                                 *)
(***************************************************************************)
EXTENDS Naturals, Sequences, FiniteSets, SequencesExt

CONSTANTS
  Sessions,      \* debug sessions; their ids are never reused
  Hosted,        \* those whose adapter has a GDB console
  RefreshOnStop, \* the setting gdr.refreshOnStop
  MaxStops,      \* bound of the model: the stops of each session
  MaxLag,        \* bound of the model: events, and answers, not handled yet
  None           \* no generation, frame, answer or active session

ASSUME PanelAssumption ==
  /\ Hosted \subseteq Sessions
  /\ RefreshOnStop \in BOOLEAN
  /\ MaxStops \in [Sessions -> Nat]
  /\ MaxLag \in Nat
  /\ None \notin Sessions \cup Nat

VARIABLES
  target,      \* "unborn", "running", "stopped" or "gone"
  stop,        \* stops so far: GDR's generation, and the frame id of the stop
  traced,      \* the last stop whose stack trace the client asked for
  events,      \* tracker events of the session not handled yet
  asked,       \* calls the host awaits and GDB has not answered
  answers,     \* answers under way to the host
  tabs,        \* the ids of RtosViewsPanel.sessions, in insertion order
  entry,       \* the SessionEntry of each session
  initialized, \* GdrSession.initialized # null
  python,      \* what watchLaunchPython knows of GDB's Python
  revealed,    \* RtosViewsPanel.revealed
  activeId,    \* RtosViewsPanel.activeId
  visible      \* the context key gdrRtosViews.active

vars == <<target, stop, traced, events, asked, answers, tabs, entry, initialized,
          python, revealed, activeId, visible>>

targetVars == <<target, stop, traced>>
tabVars    == <<tabs, activeId, visible>>

Stops == UNION {1..MaxStops[s] : s \in Sessions}
Call  == [kind: {"refresh", "request"}] \cup [kind: {"follow", "init"}, of: Stops]
Event == [kind: {"started", "running", "terminated"}] \cup [kind: {"trace"}, frame: Stops]
Result == [ok: BOOLEAN, generation: Stops] \cup {None}
Answer == [call: Call, result: Result]
SessionEntry ==
  [status: {"waiting", "ok", "running", "error"},
   shown: Stops \cup {None},      \* generation of the snapshot; also lastGeneration
   frameId: Stops \cup {None},
   inFlight: BOOLEAN, pending: BOOLEAN, debounce: BOOLEAN,
   heapRequested: BOOLEAN,
   heapMap: Stops \cup {None}]    \* generation of the map

NewEntry ==
  [status |-> "waiting", shown |-> None, frameId |-> None, inFlight |-> FALSE,
   pending |-> FALSE, debounce |-> FALSE, heapRequested |-> FALSE, heapMap |-> None]

TypeOK ==
  /\ target \in [Sessions -> {"unborn", "running", "stopped", "gone"}]
  /\ stop \in [Sessions -> Nat] /\ traced \in [Sessions -> Nat]
  /\ events \in [Sessions -> Seq(Event)]
  /\ asked \in [Sessions -> SUBSET Call]
  /\ answers \in [Sessions -> Seq(Answer)]
  /\ tabs \in Seq(Sessions)
  /\ entry \in [Sessions -> SessionEntry]
  /\ initialized \in [Sessions -> BOOLEAN]
  /\ python \in [Sessions -> {"unknown", "polling", "present", "missing"}]
  /\ revealed \subseteq Sessions
  /\ activeId \in Sessions \cup {None}
  /\ visible \in BOOLEAN

Init ==
  /\ target = [s \in Sessions |-> "unborn"]
  /\ stop = [s \in Sessions |-> 0] /\ traced = [s \in Sessions |-> 0]
  /\ events = [s \in Sessions |-> << >>]
  /\ asked = [s \in Sessions |-> {}]
  /\ answers = [s \in Sessions |-> << >>]
  /\ tabs = << >>
  /\ entry = [s \in Sessions |-> NewEntry]
  /\ initialized = [s \in Sessions |-> FALSE]
  /\ python = [s \in Sessions |-> "unknown"]
  /\ revealed = {} /\ activeId = None /\ visible = FALSE

Tracked(s) == s \in ToSet(tabs)

-----------------------------------------------------------------------------
\* The target and GDB.

Emit(s, e) ==
  /\ Len(events[s]) < MaxLag
  /\ events' = [events EXCEPT ![s] = Append(@, e)]

Launch(s) ==
  /\ target[s] = "unborn"
  /\ target' = [target EXCEPT ![s] = "running"]
  /\ Emit(s, [kind |-> "started"])
  /\ UNCHANGED <<stop, traced, asked, answers, tabVars, entry, initialized, python, revealed>>

\* A stop; it may be over before the client asks for its stack trace.
StopTarget(s) ==
  /\ target[s] = "running" /\ stop[s] < MaxStops[s]
  /\ target' = [target EXCEPT ![s] = "stopped"]
  /\ stop' = [stop EXCEPT ![s] = @ + 1]
  /\ \/ /\ traced' = [traced EXCEPT ![s] = stop'[s]]
        /\ Emit(s, [kind |-> "trace", frame |-> stop'[s]])
     \/ UNCHANGED <<traced, events>>
  /\ UNCHANGED <<asked, answers, tabVars, entry, initialized, python, revealed>>

Resume(s) ==
  /\ target[s] = "stopped"
  /\ target' = [target EXCEPT ![s] = "running"]
  /\ Emit(s, [kind |-> "running"])
  /\ UNCHANGED <<stop, traced, asked, answers, tabVars, entry, initialized, python, revealed>>

Terminate(s) ==
  /\ target[s] \in {"running", "stopped"}
  /\ target' = [target EXCEPT ![s] = "gone"]
  /\ Emit(s, [kind |-> "terminated"])
  /\ UNCHANGED <<stop, traced, asked, answers, tabVars, entry, initialized, python, revealed>>

\* GDB computes only at a stop, and an initialization waits for the Python
\* check.  A call may fail at any time: the target runs, the adapter no longer
\* knows the frame id, a checksum does not match.  Only a snapshot tells an
\* envelope that is not ok from no envelope.
Results(s, c) ==
  {None} \cup
  IF target[s] # "stopped" \/ (c.kind = "init" /\ python[s] = "missing") THEN {}
  ELSE [ok: IF c.kind = "refresh" THEN BOOLEAN ELSE {TRUE}, generation: {stop[s]}]

AnswerCall(s, c) ==
  /\ c \in asked[s] /\ Len(answers[s]) < MaxLag
  /\ c.kind = "init" => python[s] \in {"present", "missing"}
  /\ asked' = [asked EXCEPT ![s] = @ \ {c}]
  /\ \E r \in Results(s, c) :
       answers' = [answers EXCEPT ![s] = Append(@, [call |-> c, result |-> r])]
  /\ UNCHANGED <<targetVars, events, tabVars, entry, initialized, python, revealed>>

-----------------------------------------------------------------------------
\* The panel's methods, as what they make of a session's entry.

Schedule(e) == [e EXCEPT !.debounce = TRUE]

Failed(s, e) == IF Tracked(s) THEN [e EXCEPT !.status = "error"] ELSE e

SessionInitialized(e) == Schedule([e EXCEPT !.status = "ok"])

FirstStackTrace(e, f) == Schedule([e EXCEPT !.frameId = f])

\* A refresh reads at once, or is left pending behind the one in flight; with
\* no frame id it does nothing.
Reads(e) == e.frameId # None /\ ~e.inFlight
RefreshCall(e) == IF Reads(e) THEN {[kind |-> "refresh"]} ELSE {}

\* A refresh that finds another in flight is forgotten.
MutRefresh(e) == IF Reads(e) THEN [e EXCEPT !.inFlight = TRUE] ELSE e

Refresh(e) ==
  IF e.frameId = None THEN e
  ELSE IF e.inFlight THEN [e EXCEPT !.pending = TRUE]
  ELSE [e EXCEPT !.inFlight = TRUE]

\* What follows an initialization that succeeded, now or earlier.
AfterInit(e, f) ==
  IF RefreshOnStop THEN FirstStackTrace(SessionInitialized(e), f) ELSE SessionInitialized(e)

\* sessionStarted: a known session keeps its entry and its tab.
SessionStarted(s) ==
  IF Tracked(s) THEN UNCHANGED tabVars
  ELSE tabs' = Append(tabs, s) /\ activeId' = s /\ visible' = TRUE

-----------------------------------------------------------------------------
\* Tracker events.

Receive(s, kind) ==
  /\ events[s] # << >> /\ Head(events[s]).kind = kind
  /\ events' = [events EXCEPT ![s] = Tail(@)]

Started(s) ==
  /\ Receive(s, "started")
  /\ SessionStarted(s)
  /\ IF s \in Hosted
     THEN python' = [python EXCEPT ![s] = "polling"] /\ UNCHANGED entry
     ELSE entry' = [entry EXCEPT ![s].status = "error"] /\ UNCHANGED python
  /\ UNCHANGED <<targetVars, asked, answers, initialized, revealed>>

\* The launch-time Python check ends, without a result once the session is
\* closed; a failure is shown unless the session has ended.
PythonChecked(s) ==
  /\ python[s] = "polling"
  /\ \E found \in {"present", "missing"} :
       /\ Tracked(s) \/ found = "missing"
       /\ python' = [python EXCEPT ![s] = found]
       /\ entry' = [entry EXCEPT ![s] = IF found = "missing" THEN Failed(s, @) ELSE @]
  /\ UNCHANGED <<targetVars, events, asked, answers, tabVars, initialized, revealed>>

Running(s) ==
  /\ Receive(s, "running")
  /\ entry' = [entry EXCEPT ![s].status = IF Tracked(s) THEN "running" ELSE @]
  /\ UNCHANGED <<targetVars, asked, answers, tabVars, initialized, python, revealed>>

\* first-stack-trace: an initialized session refreshes, another initializes
\* first.  Two stops before the first initialization ends start two of them.
Trace(s) ==
  /\ Receive(s, "trace")
  /\ LET f == Head(events[s]).frame
     IN  IF s \notin Hosted THEN UNCHANGED <<tabVars, asked, entry>>
         ELSE /\ SessionStarted(s)
              /\ IF initialized[s]
                 THEN entry' = [entry EXCEPT ![s] = AfterInit(@, f)] /\ UNCHANGED asked
                 ELSE /\ asked' = [asked EXCEPT ![s] = @ \cup {[kind |-> "init", of |-> f]}]
                      /\ UNCHANGED entry
  /\ UNCHANGED <<targetVars, answers, initialized, python, revealed>>

\* The active tab moves to the first one left when its session ends.
NextActive(s, rest) ==
  IF activeId # s THEN activeId ELSE IF rest = << >> THEN None ELSE Head(rest)

\* The ids without one of them, which is there once.
Closed(s) ==
  IF Tracked(s) THEN RemoveAt(tabs, CHOOSE i \in DOMAIN tabs : tabs[i] = s) ELSE tabs

\* terminated: sessionEnded, and the session object is dropped.
Terminated(s) ==
  /\ Receive(s, "terminated")
  /\ entry' = [entry EXCEPT ![s].debounce = FALSE]
  /\ tabs' = Closed(s)
  /\ revealed' = revealed \ {s}
  /\ visible' = (tabs' # << >>)
  /\ activeId' = NextActive(s, tabs')
  /\ UNCHANGED <<targetVars, asked, answers, initialized, python>>

-----------------------------------------------------------------------------
\* The timer, the reader and the answers.

DebounceFires(s) ==
  /\ entry[s].debounce
  /\ LET e == [entry[s] EXCEPT !.debounce = FALSE]
     IN  /\ entry' = [entry EXCEPT ![s] = Refresh(e)]
         /\ asked' = [asked EXCEPT ![s] = @ \cup RefreshCall(e)]
  /\ UNCHANGED <<targetVars, events, answers, tabVars, initialized, python, revealed>>

\* The refresh button of a tab, or the command, which refreshes the active one.
RefreshNow(s) ==
  /\ Tracked(s)
  /\ entry' = [entry EXCEPT ![s] = Refresh(@)]
  /\ asked' = [asked EXCEPT ![s] = @ \cup RefreshCall(entry[s])]
  /\ UNCHANGED <<targetVars, events, answers, tabVars, initialized, python, revealed>>

SelectSession(s) ==
  /\ Tracked(s)
  /\ activeId' = s
  /\ UNCHANGED <<targetVars, events, asked, answers, tabs, visible, entry, initialized,
                 python, revealed>>

Outstanding(s) == asked[s] \cup {a.call : a \in ToSet(answers[s])}

\* heapDumpRequested.  Nothing keeps the reader from asking again while one
\* request is outstanding; the model has one at a time.
HeapDumpRequested(s) ==
  /\ Tracked(s) /\ entry[s].frameId # None
  /\ [kind |-> "request"] \notin Outstanding(s)
  /\ asked' = [asked EXCEPT ![s] = @ \cup {[kind |-> "request"]}]
  /\ entry' = [entry EXCEPT ![s].heapRequested = TRUE]
  /\ UNCHANGED <<targetVars, events, answers, tabVars, initialized, python, revealed>>

Deliver(s, kind) ==
  /\ answers[s] # << >> /\ Head(answers[s]).call.kind = kind
  /\ answers' = [answers EXCEPT ![s] = Tail(@)]

Good(r) == r # None /\ r.ok

\* The freshness guard: nothing but a newer generation is applied.
IsStale(last, generation) == last # None /\ generation <= last

\* applyEnvelope, up to the heap map.
ApplyEnvelope(s, e, r) ==
  IF ~r.ok THEN Failed(s, e)
  ELSE [e EXCEPT !.shown = r.generation, !.status = "ok"]

\* A pending refresh served although the session has ended.
MutAgain(s, e) == e.pending

\* The finally block of refresh; a pending refresh is served at once.
Settle(e) == [e EXCEPT !.inFlight = FALSE, !.pending = FALSE]
Again(s, e) == e.pending /\ Tracked(s)

\* A bitmap drawn once and left as it was.
MutFollows(s, e, r) == {}

\* A drawn bitmap follows the snapshot.
Follows(s, e, r) ==
  IF Tracked(s) /\ e.heapRequested
  THEN {[kind |-> "follow", of |-> r.generation]} ELSE {}

SnapshotAnswered(s) ==
  /\ Deliver(s, "refresh")
  /\ LET r == Head(answers[s]).result
         e == entry[s]
         fresh   == r # None /\ ~IsStale(e.shown, r.generation)
         applied == fresh /\ r.ok
         e1 == IF r = None THEN Failed(s, e)
               ELSE IF fresh THEN ApplyEnvelope(s, e, r) ELSE e
         e2 == IF applied /\ ~Tracked(s) /\ e.heapRequested
               THEN [e1 EXCEPT !.heapMap = None] ELSE e1
     IN  /\ entry' = [entry EXCEPT ![s] =
                         IF Again(s, e2) THEN Refresh(Settle(e2)) ELSE Settle(e2)]
         /\ asked' = [asked EXCEPT ![s] = @
                \cup (IF applied THEN Follows(s, e1, r) ELSE {})
                \cup (IF Again(s, e2) THEN RefreshCall(Settle(e2)) ELSE {})]
         /\ revealed' = IF applied THEN revealed \cup {s} ELSE revealed
  /\ UNCHANGED <<targetVars, events, tabVars, initialized, python>>

\* The map the reader asked for: a failure withdraws the request.
RequestedMapAnswered(s) ==
  /\ Deliver(s, "request")
  /\ LET r == Head(answers[s]).result
     IN  entry' = [entry EXCEPT ![s] = IF Good(r) THEN [@ EXCEPT !.heapMap = r.generation]
                                       ELSE [@ EXCEPT !.heapRequested = FALSE]]
  /\ UNCHANGED <<targetVars, events, asked, tabVars, initialized, python, revealed>>

\* The map that follows a snapshot: a failure removes the one drawn.
FollowingMapAnswered(s) ==
  /\ Deliver(s, "follow")
  /\ LET r == Head(answers[s]).result
     IN  entry' = [entry EXCEPT ![s].heapMap = IF Good(r) THEN r.generation ELSE None]
  /\ UNCHANGED <<targetVars, events, asked, tabVars, initialized, python, revealed>>

\* onFirstStop returned: the continuation of the first-stack-trace handler.
InitAnswered(s) ==
  /\ Deliver(s, "init")
  /\ LET a == Head(answers[s])
         live == initialized[s] \/ Good(a.result)
     IN  /\ initialized' = [initialized EXCEPT ![s] = live]
         /\ entry' = [entry EXCEPT ![s] =
                        IF ~Tracked(s) THEN @
                        ELSE IF live THEN AfterInit(@, a.call.of) ELSE Failed(s, @)]
  /\ UNCHANGED <<targetVars, events, asked, tabVars, python, revealed>>

-----------------------------------------------------------------------------
Host(s) ==
  \/ Started(s) \/ Running(s) \/ Trace(s) \/ Terminated(s)
  \/ PythonChecked(s) \/ DebounceFires(s)
  \/ SnapshotAnswered(s) \/ RequestedMapAnswered(s) \/ FollowingMapAnswered(s)
  \/ InitAnswered(s)

Reader(s) == RefreshNow(s) \/ SelectSession(s) \/ HeapDumpRequested(s)

Next ==
  \E s \in Sessions :
    \/ Launch(s) \/ StopTarget(s) \/ Resume(s) \/ Terminate(s)
    \/ \E c \in Call : AnswerCall(s, c)
    \/ Host(s)
    \/ Reader(s)

Spec == Init /\ [][Next]_vars

\* The event loop runs every event, timer and answer that is due, the Python
\* check has a deadline, and GDB answers every evaluate, if only with an error.
Fairness ==
  \A s \in Sessions :
    /\ WF_vars(Started(s) \/ Running(s) \/ Trace(s) \/ Terminated(s))
    /\ WF_vars(DebounceFires(s)) /\ WF_vars(PythonChecked(s))
    /\ WF_vars(\/ SnapshotAnswered(s) \/ RequestedMapAnswered(s)
               \/ FollowingMapAnswered(s) \/ InitAnswered(s))
    /\ \A c \in Call : WF_vars(AnswerCall(s, c))

FairSpec == Spec /\ Fairness

-----------------------------------------------------------------------------
\* Properties.

\* A session that has ended leaves nothing armed: no timer, and no new call,
\* even when an answer was under way or a refresh pending (sessionEnded).
EndedIsQuiet ==
  [][\A s \in Sessions :
       target[s] = "gone" /\ events[s] = << >> =>
         ~entry[s].debounce /\ asked'[s] \subseteq asked[s]]_vars

\* Once no map is awaited, a bitmap the reader asked for is not older than
\* the snapshot it is drawn beside: "a drawn map from an earlier stop would
\* name blocks that have since moved" (panel.ts, applyEnvelope).
MapNotBehindSnapshot ==
  /\ TypeOK
  /\ \A s \in Sessions :
       LET e == entry[s]
       IN  /\ Tracked(s) /\ e.heapRequested /\ e.heapMap # None /\ e.shown # None
           /\ \A c \in Outstanding(s) : c.kind \notin {"request", "follow"}
           => e.heapMap >= e.shown

\* A target that stays at a stop whose stack trace was asked for ends up with
\* that stop on screen, or with an error that says why not.
CatchesUp ==
  \A s \in Hosted :
    <>[](target[s] = "stopped" /\ traced[s] = stop[s])
      => <>[](entry[s].shown = stop[s] \/ entry[s].status = "error")

-----------------------------------------------------------------------------
\* What the documentation says and the code does not do.

\* A debounced refresh reads the target when it fires, or waits behind the
\* read in flight (README: the panel refreshes on initialization).
ScheduledRefreshReads ==
  [][\A s \in Sessions :
       entry[s].debounce /\ ~entry'[s].debounce /\ Tracked(s)' => entry'[s].inFlight]_vars
=============================================================================
