----------------------------- MODULE GdrRuntime -----------------------------
(***************************************************************************)
(* The life of GDR inside one GDB process: sourcing gdr.py, `gdr init`,    *)
(* `gdr reset`, `gdr probe`, watches, and the stop and new-objfile hooks.  *)
(*                                                                         *)
(* GDB runs one command or hook at a time, so each is one action.  What    *)
(* makes the life hard is that its state is spread over modules that know  *)
(* nothing of each other: the adapter (adapter_api.py), the printer lookup *)
(* (printers.py), the command trees (<rtos>/commands.py), the watches      *)
(* (watch.py), the caches of the image (gdb_bridge.py, navigation.py) and  *)
(* the generation (api.py).  Only the order of the calls in gdr.py keeps   *)
(* them together, and a set-up may raise between any two of them.          *)
(*                                                                         *)
(* All of it is one record, gdr; Reset and SetupOutcomes say what a reset  *)
(* and a set-up make of it, so that `gdr init --force` composes them.      *)
(***************************************************************************)
EXTENDS Naturals, FiniteSets

CONSTANTS
  Rtos,          \* the RTOS names; "rtthread" and "freertos" in the code
  Versions,      \* version strings
  Supported,     \* Supported[r]: the versions an adapter supports
  Images,        \* what GDB may have loaded
  Markers,       \* Markers[i]: the RTOSes whose PROBE_MARKERS image i has
  Written,       \* Written[i][r]: the version of r that image i exports, or None
  Filters,       \* the RTOSes whose detection drops an unsupported version
  Kinds,         \* Kinds[r]: what the adapter of r can enumerate
  Interruptible, \* the stages of a set-up that may raise
  MaxHooks,      \* bound of the model: times gdr.py is sourced
  MaxGeneration, \* bound of the model: generations
  None,          \* no version, adapter, printer or note
  Unset,         \* a cache not filled
  NoImage        \* no symbol file is loaded

Stages == {"layout", "functions", "alias"}
Notes  == {"forced", "unverified"}
Loaded == Images \cup {NoImage}
Layout == [rtos: Rtos, version: Versions, image: Loaded]
Adapter == [layout: Layout, note: Notes \cup {None}]
AllKinds == UNION {Kinds[r] : r \in Rtos}

ASSUME RuntimeAssumption ==
  /\ Supported \in [Rtos -> SUBSET Versions]
  /\ Markers \in [Images -> SUBSET Rtos]
  /\ Written \in [Images -> [Rtos -> Versions \cup {None}]]
  /\ Filters \subseteq Rtos
  /\ "freertos" \in Rtos
  /\ DOMAIN Kinds = Rtos
  /\ Interruptible \subseteq Stages
  /\ MaxHooks \in Nat /\ MaxGeneration \in Nat
  /\ None \notin Versions \cup Notes \cup Layout \cup Adapter
  /\ NoImage \notin Images
  /\ Unset \notin Loaded

VARIABLES
  image, \* what GDB has loaded
  hooks, \* how many times the hooks are connected: once per `source gdr.py`
  gdr    \* the state of GDR's modules

vars == <<image, hooks, gdr>>

Session ==
  [adapter: Adapter \cup {None},      \* adapter_api._active and what rides with it
   printer: Layout \cup {None},       \* the layout of the GDR lookup in gdb.pretty_printers
   trees: [Rtos -> {"none", "command", "full"}], \* <rtos>.commands: tree, and its alias
   watches: SUBSET AllKinds,          \* watch._watches
   sections: Loaded \cup {Unset},     \* gdb_bridge: section ranges and ELF macro table
   scan: Loaded \cup {Unset},         \* freertos.navigation._SYMBOL_OBJECT_CACHE
   generation: Nat,                   \* api._generation
   interrupted: BOOLEAN]              \* history: a set-up raised and left its printer

TypeOK == /\ image \in Loaded
          /\ hooks \in Nat
          /\ gdr \in Session

Init ==
  /\ image \in Loaded
  /\ hooks = 0
  /\ gdr = [adapter |-> None, printer |-> None, trees |-> [r \in Rtos |-> "none"],
            watches |-> {}, sections |-> Unset, scan |-> Unset, generation |-> 0,
            interrupted |-> FALSE]

-----------------------------------------------------------------------------
\* What the image tells: probe, auto and the gate of gdr init.

\* The probe markers that match; none do without a symbol file.
Present(r) == image # NoImage /\ r \in Markers[image]

\* detect_target_version.  RT-Thread decodes against the supported ranges;
\* FreeRTOS takes the macro triplet as it is.
Detected(r) ==
  IF image = NoImage THEN None
  ELSE LET v == Written[image][r]
       IN  IF r \in Filters /\ v \notin Supported[r] THEN None ELSE v

Exact(r) == Present(r) /\ Detected(r) # None

\* A gate that takes the version on trust once a marker matches.
MutAccepts(r, v, unverified) ==
  v \in Supported[r] /\ (Present(r) \/ unverified)

\* check_target.
Accepts(r, v, unverified) ==
  /\ v \in Supported[r]
  /\ Detected(r) \in {v, None}
  /\ Present(r) \/ unverified

\* A confirmed target noted with its version.
MutNote(r) == IF ~Present(r) THEN "forced"
              ELSE IF Detected(r) = None THEN "unverified" ELSE Detected(r)

\* The note of check_target, which rides in every later envelope.
Note(r) == IF ~Present(r) THEN "forced"
           ELSE IF Detected(r) = None THEN "unverified" ELSE None

-----------------------------------------------------------------------------
\* What the commands and hooks make of the session.

\* A read of the target may fill a cache of the image.
Fills(cache) == {cache, IF cache = Unset THEN image ELSE cache}

\* What adapters keep of the image; only FreeRTOS has a reset of its own.
ResetAdapter(g) ==
  IF g.adapter # None /\ g.adapter.layout.rtos = "freertos"
  THEN [g EXCEPT !.scan = Unset] ELSE g

\* A reset that keeps the symbol scan ...
MutResetScan(g) ==
  [g EXCEPT !.adapter = None, !.printer = None, !.watches = {}, !.sections = Unset,
            !.generation = @ + 1, !.interrupted = FALSE]
\* ... or the generation.
MutResetGeneration(g) ==
  [ResetAdapter(g) EXCEPT !.adapter = None, !.printer = None, !.watches = {},
                          !.sections = Unset, !.interrupted = FALSE]

\* _reset_command, with an adapter active.
Reset(g) ==
  [ResetAdapter(g) EXCEPT !.adapter = None, !.printer = None, !.watches = {},
                          !.sections = Unset, !.generation = @ + 1,
                          !.interrupted = FALSE]

\* register_printers: the lookup that is there stays, whoever made it.
WithPrinter(g, l) == [g EXCEPT !.printer = IF @ = None THEN l ELSE @]

\* register_commands, up to the tree or to its alias.
WithTree(g, r, upTo) ==
  [g EXCEPT !.trees = [g.trees EXCEPT ![r] = IF g.trees[r] = "full" THEN "full" ELSE upTo]]

\* The stages at which the set-up of r may raise: an alias is defined once.
Raises(g, r) == Interruptible \ (IF g.trees[r] = "full" THEN {"alias"} ELSE {})

\* What a set-up that raises leaves behind; the adapter comes last.
InterruptedAt(g, l, note, stage) ==
  CASE stage = "layout"    -> g
    [] stage = "functions" -> [WithPrinter(g, l) EXCEPT !.interrupted = TRUE]
    [] stage = "alias"     -> [WithTree(WithPrinter(g, l), l.rtos, "command")
                                 EXCEPT !.interrupted = TRUE]

Completed(g, l, note) ==
  [WithTree(WithPrinter(g, l), l.rtos, "full")
     EXCEPT !.adapter = [layout |-> l, note |-> note]]

\* The target check reads version macros, which may fill the macro table.
Probed(g) == {[g EXCEPT !.sections = c] : c \in Fills(g.sections)}

\* _setup_rtos: refused, interrupted or complete.
SetupOutcomes(g, r, v, unverified) ==
  LET l == [rtos |-> r, version |-> v, image |-> image]
  IN  IF g.adapter # None THEN {g}
      ELSE IF ~Accepts(r, v, unverified) THEN Probed(g)
      ELSE UNION {{Completed(h, l, Note(r))}
                    \cup {InterruptedAt(h, l, Note(r), stage) : stage \in Raises(h, r)}
                  : h \in Probed(g)}

\* _init_command for an explicit version.
InitOutcomes(g, r, v, force, unverified) ==
  IF g.adapter = None THEN SetupOutcomes(g, r, v, unverified)
  ELSE IF force THEN SetupOutcomes(Reset(g), r, v, unverified) ELSE {g}

-----------------------------------------------------------------------------
\* Actions.

Sourced == hooks > 0

\* `source gdr.py`, with GDR_RTOS and GDR_VERSION set or not.  The flag that
\* guards the hooks is a global of the script, so each source connects again.
Source ==
  /\ hooks < MaxHooks
  /\ hooks' = hooks + 1
  /\ \/ UNCHANGED gdr
     \/ \E r \in Rtos, v \in Versions : gdr' \in SetupOutcomes(gdr, r, v, FALSE)
  /\ UNCHANGED image

InitCommand(r, v, force, unverified) ==
  /\ Sourced /\ gdr.generation < MaxGeneration
  /\ gdr' \in InitOutcomes(gdr, r, v, force, unverified)
  /\ UNCHANGED <<image, hooks>>

\* `gdr init <rtos> auto`: the exact version of that RTOS, or a refusal.
InitAuto(r, force, unverified) ==
  /\ Exact(r)
  /\ InitCommand(r, Detected(r), force, unverified)

ResetCommand ==
  /\ Sourced /\ gdr.generation < MaxGeneration
  /\ gdr.adapter # None
  /\ gdr' = Reset(gdr)
  /\ UNCHANGED <<image, hooks>>

\* Any command or verb that reads the target.  The symbol scan is FreeRTOS's.
ReadTarget ==
  /\ Sourced
  /\ \E c \in Fills(gdr.sections) :
     \E s \in (IF gdr.adapter # None /\ gdr.adapter.layout.rtos = "freertos"
               THEN Fills(gdr.scan) ELSE {gdr.scan}) :
       gdr' = [gdr EXCEPT !.sections = c, !.scan = s]
  /\ UNCHANGED <<image, hooks>>

\* `<tree> watch <kind>`; every tree asks the active adapter.
AddWatch(tree, kind) ==
  /\ gdr.trees[tree] # "none" /\ kind \in Kinds[tree]
  /\ gdr.adapter # None /\ kind \in Kinds[gdr.adapter.layout.rtos]
  /\ gdr' = [gdr EXCEPT !.watches = @ \cup {kind}]
  /\ UNCHANGED <<image, hooks>>

RemoveWatch(kind) ==
  /\ \E tree \in Rtos : gdr.trees[tree] # "none" /\ kind \in Kinds[tree]
  /\ gdr' = [gdr EXCEPT !.watches = @ \ {kind}]
  /\ UNCHANGED <<image, hooks>>

\* `<tree> unwatch --all`.
ClearWatches ==
  /\ \E tree \in Rtos : gdr.trees[tree] # "none"
  /\ gdr' = [gdr EXCEPT !.watches = {}]
  /\ UNCHANGED <<image, hooks>>

\* on_stop, once per connection.
OnStop ==
  /\ Sourced /\ gdr.generation + hooks <= MaxGeneration
  /\ gdr' = [gdr EXCEPT !.generation = @ + hooks]
  /\ UNCHANGED <<image, hooks>>

\* on_new_objfile, once per connection.
OnNewObjfile(g) ==
  [ResetAdapter(g) EXCEPT !.sections = Unset, !.generation = @ + hooks]

\* `file <elf>`: GDB loads an image and emits new_objfile.
LoadImage(i) ==
  /\ gdr.generation + hooks <= MaxGeneration
  /\ image' = i
  /\ gdr' = IF Sourced THEN OnNewObjfile(gdr) ELSE gdr
  /\ UNCHANGED hooks

\* `file`: GDB drops the image and emits clear_objfiles, which GDR ignores.
UnloadImage ==
  /\ image' = NoImage
  /\ UNCHANGED <<hooks, gdr>>

Next ==
  \/ Source
  \/ \E r \in Rtos, force \in BOOLEAN, unverified \in BOOLEAN :
       \/ \E v \in Versions : InitCommand(r, v, force, unverified)
       \/ InitAuto(r, force, unverified)
  \/ ResetCommand \/ ReadTarget
  \/ \E r \in Rtos, k \in AllKinds : AddWatch(r, k)
  \/ \E k \in AllKinds : RemoveWatch(k)
  \/ ClearWatches
  \/ OnStop
  \/ \E i \in Images : LoadImage(i)
  \/ UnloadImage

Spec == Init /\ [][Next]_vars

-----------------------------------------------------------------------------
\* Properties.

\* Objects fold through the layout of the active adapter, however often the
\* session was reset and re-initialized, unless a set-up was interrupted after
\* it had registered its printers and nothing was reset since.
FoldsItsOwn ==
  gdr.adapter # None /\ gdr.printer # gdr.adapter.layout => gdr.interrupted

\* An adapter is active only once every registration of its set-up is done: a
\* client that sees it finds the commands and a printer.
ActivatedLast ==
  gdr.adapter # None =>
    gdr.trees[gdr.adapter.layout.rtos] = "full" /\ gdr.printer # None

\* An adapter without a note was confirmed by the image it was set up on: its
\* markers are there and the version is the one the image exports.  "A client
\* never silently trusts an unverified session" (api.py, api_call).
SilenceIsVerified ==
  gdr.adapter # None /\ gdr.adapter.note = None =>
    LET l == gdr.adapter.layout
    IN  /\ l.image # NoImage /\ l.rtos \in Markers[l.image]
        /\ Written[l.image][l.rtos] = l.version

\* What was cached of an image is never taken for another: neither the section
\* ranges and macros nor the FreeRTOS symbol scan outlive their image.
CachesAreOfTheImage ==
  image # NoImage => gdr.sections \in {Unset, image} /\ gdr.scan \in {Unset, image}

\* Every watch is of a kind the active adapter knows: the watches of one RTOS
\* are not rendered against the next (watch.clear).
WatchesFit ==
  gdr.watches # {} => gdr.adapter # None /\ gdr.watches \subseteq Kinds[gdr.adapter.layout.rtos]

\* An adapter goes away only with everything made for it, and its clients are
\* told: whatever replaces it in the same command starts from nothing.  An
\* adapter that comes finds no lookup but its own, unless a set-up raised after
\* register_printers, on a session without adapter, which cannot be reset.
DroppedWhole ==
  [][gdr'.adapter # gdr.adapter =>
       /\ gdr.adapter # None =>
            /\ gdr'.generation > gdr.generation
            /\ gdr'.watches = {} /\ gdr'.scan = Unset
            /\ gdr'.sections \in {Unset, image'}
       /\ gdr'.adapter # None =>
            gdr'.printer = gdr'.adapter.layout \/ (gdr.adapter = None /\ gdr.interrupted)]_vars

\* Any change of the image a client was told of, or of the adapter it was
\* reading through, moves the generation on, so that answers computed before
\* it are recognized as old (api.next_generation).
GenerationTells ==
  [][/\ Sourced
     /\ image' \notin {image, NoImage} \/ (gdr.adapter # None /\ gdr'.adapter # gdr.adapter)
     => gdr'.generation > gdr.generation]_vars

=============================================================================
