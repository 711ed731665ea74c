---------------------------- MODULE SessionInit ----------------------------
(***************************************************************************)
(* How the extension initializes GDR in a debug session: GdrSession and    *)
(* decideInit (vscode/src/session.ts, probe.ts), composed with the GDB     *)
(* side of GdrRuntime.                                                     *)
(*                                                                         *)
(* At each stop of a session that is not initialized yet the extension     *)
(* starts a run of onFirstStop: ask GDR what the target is, decide, ask    *)
(* the user if the decision says so, evaluate `gdr init`, and take a       *)
(* capabilities envelope as the proof that it took effect.  Every step of  *)
(* a run is an evaluate or a question, so the target may resume and stop   *)
(* again in between, a second run may start before the first ends, and the *)
(* user may type GDR commands in the Debug Console.  Only the cache of     *)
(* answers survives a session.                                             *)
(***************************************************************************)
EXTENDS GdrRuntime

CONSTANTS
  Settings,    \* the settings a session may be created with
  MaxStops,    \* bound of the model: stops of a session
  MaxSessions, \* bound of the model: debug sessions, one after the other
  Console      \* whether the user types GDR commands

Runs    == 1..MaxStops
Target  == [rtos: Rtos, version: Versions]
Setting == [rtos: Rtos \cup {None}, version: Versions \cup {None}, autoInit: BOOLEAN]
Candidate == [rtos: Rtos, version: Versions \cup {None}]
Sources == {"settings", "cache", "probe"}
Run == [pc: {"idle", "probe", "decide", "ask", "init", "verify", "done"},
        payload: (SUBSET Candidate) \cup {None},
        options: SUBSET Target,
        target: Target \cup {None},
        source: Sources \cup {None}]

ASSUME ClientAssumption ==
  /\ Settings \subseteq Setting
  /\ MaxStops \in Nat /\ MaxSessions \in Nat
  /\ Console \in BOOLEAN
  /\ None \notin Rtos \cup Target \cup Sources

VARIABLES
  session,  \* number of the debug session; each has a GDB of its own
  settings, \* GdrSession.settings, read when the session is created
  stopped,  \* the target is at a stop
  stop,     \* stops so far; run n belongs to stop n and its frame
  run,      \* the runs of onFirstStop
  recorded, \* GdrSession.initialized
  cache,    \* GdrCache: the answer kept for the launch configuration
  by,       \* history: who set up the active adapter
  meddled   \* history: a GDR command was typed in this session

clientVars == <<session, settings, stopped, stop, run, recorded, cache, by, meddled>>
allVars == <<vars, clientVars>>

IdleRun == [pc |-> "idle", payload |-> None, options |-> {}, target |-> None, source |-> None]

ClientTypeOK ==
  /\ TypeOK
  /\ session \in 0..MaxSessions /\ settings \in Setting
  /\ stopped \in BOOLEAN /\ stop \in 0..MaxStops
  /\ run \in [Runs -> Run]
  /\ recorded \in Target \cup {None} /\ cache \in Target \cup {None}
  /\ by \in Sources \cup {"user", None}
  /\ meddled \in BOOLEAN

ClientInit ==
  /\ Init
  /\ session = 0 /\ settings \in Settings
  /\ stopped = FALSE /\ stop = 0
  /\ run = [n \in Runs |-> IdleRun]
  /\ recorded = None /\ cache = None
  /\ by = None /\ meddled = FALSE

-----------------------------------------------------------------------------
\* The decision.

\* probe: what the adapters say of themselves; an exact candidate has a version.
Candidates ==
  {[rtos |-> r, version |-> Detected(r)] : r \in {q \in Rtos : Present(q)}}

ExactOnes(payload) == {c \in payload : c.version # None}

\* resolve_candidate: the only exact candidate, whatever else is there.
Resolved(payload) == IF Cardinality(ExactOnes(payload)) = 1 THEN ExactOnes(payload) ELSE {}

\* A question that offers every version of an adapter that shows none.
MutOptions(payload) ==
  ExactOnes(payload) \cup
  UNION {{[rtos |-> c.rtos, version |-> v] : v \in Supported[c.rtos]} : c \in payload}

\* versionedOptions.
Options(payload) == ExactOnes(payload)

Use(t, source) == [kind |-> "init", target |-> [rtos |-> t.rtos, version |-> t.version],
                   source |-> source]
\* A question without options is reported like no decision.
Ask(options) == IF options = {} THEN [kind |-> "none"] ELSE [kind |-> "ask", options |-> options]

\* decideInit: settings, then the cache, then the probe.
Decision(payload, set, cached) ==
  IF set.rtos # None /\ set.version # None THEN Use(set, "settings")
  ELSE IF cached # None THEN Use(cached, "cache")
  ELSE IF payload = None THEN [kind |-> "none"]
  ELSE IF set.rtos # None THEN Ask({o \in Options(payload) : o.rtos = set.rtos})
  ELSE IF Resolved(payload) = {} THEN Ask(Options(payload))
  ELSE IF set.autoInit THEN Use(CHOOSE c \in Resolved(payload) : TRUE, "probe")
  ELSE Ask(Resolved(payload))

-----------------------------------------------------------------------------
\* The debug session and its target.

\* A session starts: GDB loads an image and the loader sources gdr.py, without
\* GDR_RTOS and GDR_VERSION in its environment.
StartSession ==
  /\ session < MaxSessions /\ session' = session + 1
  /\ image' \in Images /\ hooks' = 1
  /\ gdr' = [adapter |-> None, printer |-> None, trees |-> [r \in Rtos |-> "none"],
             watches |-> {}, sections |-> Unset, scan |-> Unset, generation |-> 0,
             interrupted |-> FALSE]
  /\ settings' \in Settings
  /\ stopped' = FALSE /\ stop' = 0
  /\ run' = [n \in Runs |-> IdleRun]
  /\ recorded' = None /\ by' = None /\ meddled' = FALSE
  /\ UNCHANGED cache

StopTarget ==
  /\ session > 0 /\ ~stopped /\ stop < MaxStops
  /\ OnStop
  /\ stopped' = TRUE /\ stop' = stop + 1
  /\ UNCHANGED <<session, settings, run, recorded, cache, by, meddled>>

Resume ==
  /\ stopped /\ stopped' = FALSE
  /\ UNCHANGED <<vars, session, settings, stop, run, recorded, cache, by, meddled>>

\* A GDR command typed in the Debug Console.
TypeCommand ==
  /\ Console /\ stopped
  /\ \/ \E r \in Rtos, v \in Versions, force \in BOOLEAN, unverified \in BOOLEAN :
          InitCommand(r, v, force, unverified)
     \/ ResetCommand
  /\ meddled' = TRUE
  /\ by' = IF gdr'.adapter = gdr.adapter THEN by
           ELSE IF gdr'.adapter = None THEN None ELSE "user"
  /\ UNCHANGED <<session, settings, stopped, stop, run, recorded, cache>>

-----------------------------------------------------------------------------
\* A run of onFirstStop.

\* An evaluate of run n names the frame of stop n: it succeeds at that stop,
\* fails while the target runs, and may do either at a later stop.
Reaches(n) == IF ~stopped THEN {FALSE} ELSE IF stop = n THEN {TRUE} ELSE BOOLEAN

Goto(n, r) == run' = [run EXCEPT ![n] = r]
Done(n) == Goto(n, [IdleRun EXCEPT !.pc = "done"])

\* first-stack-trace of stop n, handled while the session is not initialized.
FirstStop(n) ==
  /\ n <= stop /\ run[n].pc = "idle"
  /\ IF recorded = None THEN Goto(n, [IdleRun EXCEPT !.pc = "probe"]) ELSE Done(n)
  /\ UNCHANGED <<vars, session, settings, stopped, stop, recorded, cache, by, meddled>>

Probe(n) ==
  /\ run[n].pc = "probe"
  /\ \E ok \in Reaches(n) :
       Goto(n, [run[n] EXCEPT !.pc = "decide", !.payload = IF ok THEN Candidates ELSE None])
  /\ UNCHANGED <<vars, session, settings, stopped, stop, recorded, cache, by, meddled>>

Decide(n) ==
  /\ run[n].pc = "decide"
  /\ LET d == Decision(run[n].payload, settings, cache)
     IN  CASE d.kind = "none" -> Done(n)
           [] d.kind = "ask"  -> Goto(n, [IdleRun EXCEPT !.pc = "ask", !.options = d.options])
           [] d.kind = "init" -> Goto(n, [IdleRun EXCEPT !.pc = "init", !.target = d.target,
                                                         !.source = d.source])
  /\ UNCHANGED <<vars, session, settings, stopped, stop, recorded, cache, by, meddled>>

\* showQuickPick: an option, or cancelled.
Pick(n) ==
  /\ run[n].pc = "ask"
  /\ \/ Done(n)
     \/ \E o \in run[n].options :
          Goto(n, [IdleRun EXCEPT !.pc = "init", !.target = o, !.source = "probe"])
  /\ UNCHANGED <<vars, session, settings, stopped, stop, recorded, cache, by, meddled>>

\* initCommand: never --force, and --allow-unverified for settings only.
InitOf(r) == InitOutcomes(gdr, r.target.rtos, r.target.version, FALSE, r.source = "settings")

\* `gdr init` on the console; whether it failed is not looked at.
EvaluateInit(n) ==
  /\ run[n].pc = "init"
  /\ \E ok \in Reaches(n) : gdr' \in IF ok THEN InitOf(run[n]) ELSE {gdr}
  /\ by' = IF gdr'.adapter = gdr.adapter THEN by ELSE run[n].source
  /\ Goto(n, [run[n] EXCEPT !.pc = "verify"])
  /\ UNCHANGED <<image, hooks, session, settings, stopped, stop, recorded, cache, meddled>>

\* A capabilities answer that is dropped when another run was faster.
MutVerified(n, ok) == ok /\ gdr.adapter # None /\ stop = n /\ cache = None

\* An init taken for done because something answered the question.
MutVerifiedByAny(n, ok) == ok

\* capabilities answers whenever an adapter is active.
Verified(n, ok) == ok /\ gdr.adapter # None

\* The effect of the init is taken from a capabilities envelope: what was asked
\* for is recorded, and kept for the next session.
Verify(n) ==
  /\ run[n].pc = "verify"
  /\ \E ok \in Reaches(n) :
       IF Verified(n, ok)
       THEN recorded' = run[n].target /\ cache' = run[n].target
       ELSE UNCHANGED <<recorded, cache>>
  /\ Done(n)
  /\ UNCHANGED <<vars, session, settings, stopped, stop, by, meddled>>

-----------------------------------------------------------------------------
Advance(n) == FirstStop(n) \/ Probe(n) \/ Decide(n) \/ EvaluateInit(n) \/ Verify(n)

ClientNext ==
  \/ StartSession \/ StopTarget \/ Resume \/ TypeCommand
  \/ \E n \in Runs : Advance(n) \/ Pick(n)

\* The host handles every event and answer; the user need not answer a question.
ClientSpec == ClientInit /\ [][ClientNext]_allVars /\ \A n \in Runs : WF_allVars(Advance(n))

-----------------------------------------------------------------------------
\* Properties.

\* Whatever the extension chose from the probe, alone or by asking, the target
\* confirms: it "never guesses a version" (probe.ts, decideInit).  And only a
\* user's assertion, a setting or a command of their own, gets an adapter
\* registered on a target that shows no trace of its RTOS; a cached answer does
\* not, whatever firmware it meets (session.ts, applyDecision).
ProbeIsConfirmed ==
  /\ ClientTypeOK
  /\ by = "probe" => gdr.adapter # None /\ gdr.adapter.note = None
  /\ gdr.adapter # None /\ gdr.adapter.note = "forced" => by \in {"settings", "user"}

\* What the probe may lead to under the settings; they may name the RTOS.
Choices == {c \in ExactOnes(Candidates) : settings.rtos \in {None, c.rtos}}

\* What the extension takes for initialized is the adapter that is active,
\* although it asks a verb that answers for any adapter (session.ts,
\* applyDecision) and overlapping runs write over each other.  The exceptions
\* are two: a user who typed GDR commands in this session, and one who has
\* more than one exact version to pick from, a different one at each of two
\* questions: the second `gdr init' is refused, and recorded all the same.
RecordedIsActive ==
  recorded # None /\ ~meddled /\ (\A a, b \in Choices : a = b) =>
    /\ gdr.adapter # None
    /\ gdr.adapter.layout.rtos = recorded.rtos /\ gdr.adapter.layout.version = recorded.version

\* The one adapter that is there, at a supported version it exports.
Sole == {c \in Candidates : /\ Candidates = {c} /\ c.version # None
                            /\ c.version \in Supported[c.rtos]}

\* The case the extension is made for: one adapter with a version to read, no
\* setting that says otherwise, nothing cached that contradicts it.
Promising ==
  /\ Sole # {} /\ settings.rtos = None /\ settings.autoInit
  /\ cache = None \/ cache \in Sole

\* In that case a stop that lasts initializes the session, even if earlier runs
\* failed or are still under way.
Converges ==
  <>[](session = MaxSessions /\ stopped /\ Promising /\ ~meddled) => <>[](recorded # None)

=============================================================================
