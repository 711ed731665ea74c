--------------------------- MODULE SessionProofs ---------------------------
(***************************************************************************)
(* Proofs about GdrRuntime and SessionInit, for any RTOSes, images,        *)
(* versions, settings, stops, sessions and bounds.                         *)
(*                                                                         *)
(* The invariant of GdrRuntime is about the session record: Sound says     *)
(* what holds of the record alone, Fresh what holds of its caches and the  *)
(* image loaded.  What a reset and a set-up make of a sound record is a    *)
(* lemma each, so that `gdr init --force`, which composes them, needs no   *)
(* proof of its own.                                                       *)
(*                                                                         *)
(* Between its probe and its `gdr init' a run of onFirstStop carries what  *)
(* it learnt, while other runs and the user change the session under it.   *)
(* What it carries stays true because the image is that of the session:    *)
(* Carried says so of every run, and with it an adapter set up from the    *)
(* probe is one the image confirms (Founded).  What a set-up makes of the  *)
(* session record is known from the first part.                            *)
(***************************************************************************)
EXTENDS SessionInit, TLAPS

-----------------------------------------------------------------------------
\* The session in GDB.

\* A printer without its adapter, or beside another's, is there only because a
\* set-up was interrupted; this is what makes FoldsItsOwn inductive.
OwnPrinter(g) ==
  g.printer # None /\ ~g.interrupted =>
    g.adapter # None /\ g.printer = g.adapter.layout

Whole(g) ==
  g.adapter # None => g.trees[g.adapter.layout.rtos] = "full" /\ g.printer # None

Confirmed(a) ==
  a # None /\ a.note = None =>
    /\ a.layout.image # NoImage /\ a.layout.rtos \in Markers[a.layout.image]
    /\ Written[a.layout.image][a.layout.rtos] = a.layout.version

Fit(g) == g.watches # {} => g.adapter # None /\ g.watches \subseteq Kinds[g.adapter.layout.rtos]

\* Only FreeRTOS scans, so its adapter is there to forget the scan.
ScanOwned(g) == g.scan # Unset => g.adapter # None /\ g.adapter.layout.rtos = "freertos"

Sound(g) == /\ g \in Session
            /\ OwnPrinter(g) /\ Whole(g) /\ Confirmed(g.adapter) /\ Fit(g) /\ ScanOwned(g)

Fresh(g) == image # NoImage => g.sections \in {Unset, image} /\ g.scan \in {Unset, image}

Inv == /\ image \in Loaded /\ hooks \in Nat
       /\ Sound(gdr) /\ Fresh(gdr)
       /\ hooks = 0 => gdr.sections = Unset /\ gdr.scan = Unset

-----------------------------------------------------------------------------
\* A note is a note, and without one the image confirms the version asked for.
LEMMA NoteIsTrue ==
  ASSUME NEW r \in Rtos, NEW v \in Versions, NEW unverified \in BOOLEAN,
         image \in Loaded, Accepts(r, v, unverified)
  PROVE  /\ Note(r) \in Notes \cup {None}
         /\ Confirmed([layout |-> [rtos |-> r, version |-> v, image |-> image],
                      note |-> Note(r)])
<1>1. Note(r) \in Notes \cup {None}
  BY DEF Note, Notes
<1>2. ASSUME Note(r) = None
      PROVE  Present(r) /\ Detected(r) = v
  <2>1. "forced" # None /\ "unverified" # None
    BY RuntimeAssumption DEF RuntimeAssumption, Notes
  <2>. QED BY <1>2, <2>1 DEF Note, Accepts
<1>3. ASSUME Present(r), Detected(r) = v
      PROVE  image # NoImage /\ r \in Markers[image] /\ Written[image][r] = v
  <2>1. v # None
    BY RuntimeAssumption DEF RuntimeAssumption
  <2>. QED BY <1>3, <2>1 DEF Present, Detected
<1>. QED BY <1>1, <1>2, <1>3 DEF Confirmed

\* A reset leaves a sound session without adapter, printer, watches or caches,
\* one generation on.
LEMMA ResetIsWhole ==
  ASSUME NEW g, Sound(g), g.adapter # None
  PROVE  /\ Sound(Reset(g))
         /\ Reset(g).adapter = None /\ Reset(g).printer = None
         /\ Reset(g).watches = {}
         /\ Reset(g).sections = Unset /\ Reset(g).scan = Unset
         /\ Reset(g).generation = g.generation + 1
<1>1. g \in Session /\ ScanOwned(g)
  BY DEF Sound
<1>2. ResetAdapter(g) \in Session /\ ResetAdapter(g).scan = Unset
      /\ ResetAdapter(g).generation = g.generation
  BY <1>1 DEF ResetAdapter, Session, ScanOwned
<1> DEFINE s == ResetAdapter(g)
<1>3. Reset(g) = [s EXCEPT !.adapter = None, !.printer = None, !.watches = {},
                           !.sections = Unset, !.generation = s.generation + 1,
                           !.interrupted = FALSE]
  BY DEF Reset
<1> HIDE DEF s
<1>4. s \in Session /\ s.scan = Unset /\ s.generation = g.generation
  BY <1>2 DEF s
<1>5. Reset(g) \in Session
  <2>1. s.generation + 1 \in Nat /\ s.trees \in [Rtos -> {"none", "command", "full"}]
    BY <1>4 DEF Session
  <2>2. Reset(g) = [adapter |-> None, printer |-> None, trees |-> s.trees, watches |-> {},
                    sections |-> Unset, scan |-> Unset, generation |-> s.generation + 1,
                    interrupted |-> FALSE]
    BY <1>3, <1>4 DEF Session
  <2>. QED BY <2>1, <2>2 DEF Session
<1>6. /\ Reset(g).adapter = None /\ Reset(g).printer = None
      /\ Reset(g).watches = {}
      /\ Reset(g).sections = Unset /\ Reset(g).scan = Unset
      /\ Reset(g).generation = g.generation + 1
  BY <1>3, <1>4 DEF Session
<1>. QED BY <1>5, <1>6 DEF Sound, OwnPrinter, Whole, Confirmed, Fit, ScanOwned

\* What a set-up makes of a sound session without adapter: a sound session that
\* differs in nothing but the adapter, the printer, the trees and the sections.
LEMMA SetupIsSound ==
  ASSUME image \in Loaded,
         NEW g, Sound(g), g.adapter = None,
         NEW r \in Rtos, NEW v \in Versions, NEW unverified \in BOOLEAN,
         NEW h \in SetupOutcomes(g, r, v, unverified)
  PROVE  /\ Sound(h)
         /\ h.sections \in Fills(g.sections) /\ h.scan = g.scan
         /\ h.watches = g.watches /\ h.generation = g.generation
         /\ h.adapter # None /\ g.printer = None => h.printer = h.adapter.layout
<1> DEFINE l == [rtos |-> r, version |-> v, image |-> image]
<1>1. g \in Session /\ OwnPrinter(g) /\ Fit(g) /\ ScanOwned(g)
  BY DEF Sound
<1>2. g.watches = {} /\ g.scan = Unset
  BY <1>1 DEF Fit, ScanOwned
<1>3. \A p \in Probed(g) :
        /\ p \in Session
        /\ p.adapter = None /\ p.printer = g.printer /\ p.trees = g.trees
        /\ p.watches = {} /\ p.scan = Unset
        /\ p.sections \in Fills(g.sections)
        /\ p.generation = g.generation /\ p.interrupted = g.interrupted
  BY <1>1, <1>2 DEF Probed, Fills, Session
<1>4. CASE ~Accepts(r, v, unverified)
  <2>1. h \in Probed(g)
    BY <1>4 DEF SetupOutcomes
  <2>2. Sound(h)
    BY <2>1, <1>1, <1>3 DEF Sound, OwnPrinter, Whole, Confirmed, Fit, ScanOwned
  <2>. QED BY <2>1, <2>2, <1>2, <1>3
<1>5. CASE Accepts(r, v, unverified)
  <2>1. PICK p \in Probed(g) :
          \/ h = Completed(p, l, Note(r))
          \/ \E stage \in Raises(p, r) : h = InterruptedAt(p, l, Note(r), stage)
    BY <1>5 DEF SetupOutcomes
  <2>2. l \in Layout /\ l # None
    BY RuntimeAssumption DEF RuntimeAssumption, Layout
  <2> DEFINE a == [layout |-> l, note |-> Note(r)]
  <2>3. a \in Adapter /\ a # None /\ Confirmed(a)
    BY <1>5, <2>2, NoteIsTrue, RuntimeAssumption DEF RuntimeAssumption, Adapter
  <2> DEFINE q == WithPrinter(p, l)
  <2>4. /\ q \in Session
        /\ q.adapter = None /\ q.printer # None /\ q.trees = p.trees
        /\ q.watches = {} /\ q.scan = Unset
        /\ q.sections = p.sections
        /\ q.generation = g.generation /\ q.interrupted = g.interrupted
        /\ g.printer = None => q.printer = l
    BY <1>3, <2>2 DEF WithPrinter, Session
  <2>5. ASSUME NEW upTo \in {"command", "full"}
        PROVE  LET t == WithTree(q, r, upTo)
               IN  /\ t \in Session
                   /\ t.adapter = None /\ t.printer = q.printer
                   /\ t.trees[r] \in {upTo, "full"}
                   /\ t.watches = {} /\ t.scan = Unset
                   /\ t.sections = p.sections
                   /\ t.generation = g.generation /\ t.interrupted = g.interrupted
    <3>1. q.trees \in [Rtos -> {"none", "command", "full"}]
      BY <2>4 DEF Session
    <3> DEFINE T == [q.trees EXCEPT ![r] = IF q.trees[r] = "full" THEN "full" ELSE upTo]
    <3>2. T \in [Rtos -> {"none", "command", "full"}] /\ T[r] \in {upTo, "full"}
      BY <3>1
    <3>3. WithTree(q, r, upTo) = [q EXCEPT !.trees = T]
      BY DEF WithTree
    <3> HIDE DEF T, q
    <3>. QED BY <2>4, <3>2, <3>3 DEF Session
  <2>6. CASE h = Completed(p, l, Note(r))
    <3> DEFINE t == WithTree(q, r, "full")
    <3>1. h = [t EXCEPT !.adapter = a]
      BY <2>6 DEF Completed
    <3>2. t \in Session /\ t.printer = q.printer /\ t.trees[r] = "full"
          /\ t.watches = {} /\ t.scan = Unset /\ t.sections = p.sections
          /\ t.generation = g.generation /\ t.interrupted = g.interrupted
      BY <2>5
    <3>3. a.layout = l /\ l.rtos = r
      OBVIOUS
    <3> HIDE DEF t, q, a, l
    <3>4. h \in Session /\ h.adapter = a /\ h.printer = q.printer /\ h.trees[r] = "full"
          /\ h.watches = {} /\ h.scan = Unset /\ h.sections = p.sections
          /\ h.generation = g.generation /\ h.interrupted = g.interrupted
      BY <2>3, <3>1, <3>2 DEF Session
    <3>5. OwnPrinter(h)
      BY <1>1, <2>3, <2>4, <3>3, <3>4, g.adapter = None DEF OwnPrinter
    <3>6. Sound(h)
      BY <2>3, <2>4, <3>3, <3>4, <3>5 DEF Sound, Whole, Fit, ScanOwned
    <3>. QED BY <1>2, <1>3, <2>4, <3>3, <3>4, <3>6
  <2>7. CASE \E stage \in Raises(p, r) : h = InterruptedAt(p, l, Note(r), stage)
    <3>1. PICK stage \in Raises(p, r) : h = InterruptedAt(p, l, Note(r), stage)
      BY <2>7
    <3>2. stage \in {"layout", "functions", "alias"}
      BY <3>1, RuntimeAssumption DEF RuntimeAssumption, Raises, Stages
    <3>3. CASE stage = "layout"
      <4>1. h = p
        BY <3>1, <3>3 DEF InterruptedAt
      <4>. QED BY <4>1, <1>1, <1>2, <1>3
           DEF Sound, OwnPrinter, Whole, Confirmed, Fit, ScanOwned
    <3>4. CASE stage = "functions"
      <4>1. h = [q EXCEPT !.interrupted = TRUE]
        BY <3>1, <3>4 DEF InterruptedAt
      <4> HIDE DEF q
      <4>2. h \in Session /\ h.adapter = None /\ h.interrupted /\ h.watches = {}
            /\ h.scan = Unset /\ h.sections = p.sections /\ h.generation = g.generation
        BY <4>1, <2>4 DEF Session
      <4>. QED BY <4>2, <1>2, <1>3
           DEF Sound, OwnPrinter, Whole, Confirmed, Fit, ScanOwned
    <3>5. CASE stage = "alias"
      <4> DEFINE t == WithTree(q, r, "command")
      <4>1. h = [t EXCEPT !.interrupted = TRUE]
        BY <3>1, <3>5 DEF InterruptedAt
      <4>2. t \in Session /\ t.adapter = None /\ t.watches = {} /\ t.scan = Unset
            /\ t.sections = p.sections /\ t.generation = g.generation
        BY <2>5
      <4> HIDE DEF t
      <4>3. h \in Session /\ h.adapter = None /\ h.interrupted /\ h.watches = {}
            /\ h.scan = Unset /\ h.sections = p.sections /\ h.generation = g.generation
        BY <4>1, <4>2 DEF Session
      <4>. QED BY <4>3, <1>2, <1>3
           DEF Sound, OwnPrinter, Whole, Confirmed, Fit, ScanOwned
    <3>. QED BY <3>2, <3>3, <3>4, <3>5
  <2>. QED BY <2>1, <2>6, <2>7
<1>. QED BY <1>4, <1>5

\* The set-up and initialization of a session, whatever is active in it.
LEMMA InitIsSound ==
  ASSUME image \in Loaded,
         NEW g, Sound(g), Fresh(g),
         NEW r \in Rtos, NEW v \in Versions, NEW force \in BOOLEAN,
         NEW unverified \in BOOLEAN,
         NEW h \in InitOutcomes(g, r, v, force, unverified)
  PROVE  /\ Sound(h) /\ Fresh(h)
         /\ \/ h = g
            \/ /\ g.adapter = None
               /\ h.adapter # None => h.printer = h.adapter.layout \/ g.interrupted
            \/ /\ h.generation = g.generation + 1
               /\ h.watches = {} /\ h.scan = Unset /\ h.sections \in {Unset, image}
               /\ h.adapter # None => h.printer = h.adapter.layout
<1>1. CASE g.adapter = None
  <2>1. h \in SetupOutcomes(g, r, v, unverified)
    BY <1>1 DEF InitOutcomes
  <2>2. /\ Sound(h) /\ h.sections \in Fills(g.sections) /\ h.scan = g.scan
        /\ h.adapter # None /\ g.printer = None => h.printer = h.adapter.layout
    BY <1>1, <2>1, SetupIsSound
  <2>3. g.printer = None \/ g.interrupted
    BY <1>1 DEF Sound, OwnPrinter
  <2>. QED BY <1>1, <2>2, <2>3 DEF Fresh, Fills
<1>2. CASE g.adapter # None /\ ~force
  BY <1>2 DEF InitOutcomes
<1>3. CASE g.adapter # None /\ force
  <2> DEFINE s == Reset(g)
  <2>1. h \in SetupOutcomes(s, r, v, unverified)
    BY <1>3 DEF InitOutcomes
  <2>2. /\ Sound(s) /\ s.adapter = None /\ s.printer = None /\ s.watches = {}
        /\ s.sections = Unset /\ s.scan = Unset /\ s.generation = g.generation + 1
    BY <1>3, ResetIsWhole
  <2> HIDE DEF s
  <2>3. /\ Sound(h) /\ h.sections \in Fills(s.sections) /\ h.scan = s.scan
        /\ h.watches = s.watches /\ h.generation = s.generation
        /\ h.adapter # None /\ s.printer = None => h.printer = h.adapter.layout
    BY <2>1, <2>2, SetupIsSound
  <2>. QED BY <2>2, <2>3 DEF Fresh, Fills
<1>. QED BY <1>1, <1>2, <1>3

\* The hook of a new image forgets both caches.
LEMMA HookForgets ==
  ASSUME hooks \in Nat, NEW g, Sound(g)
  PROVE  /\ Sound(OnNewObjfile(g)) /\ OnNewObjfile(g).adapter = g.adapter
         /\ OnNewObjfile(g).sections = Unset /\ OnNewObjfile(g).scan = Unset
         /\ OnNewObjfile(g).generation = g.generation + hooks
<1>1. g \in Session /\ ScanOwned(g)
  BY DEF Sound
<1> DEFINE s == ResetAdapter(g)
<1>2. /\ s \in Session /\ s.scan = Unset
      /\ s.adapter = g.adapter /\ s.printer = g.printer /\ s.trees = g.trees
      /\ s.watches = g.watches /\ s.generation = g.generation
      /\ s.interrupted = g.interrupted
  BY <1>1 DEF ResetAdapter, Session, ScanOwned
<1>3. OnNewObjfile(g) = [s EXCEPT !.sections = Unset, !.generation = s.generation + hooks]
  BY DEF OnNewObjfile
<1> DEFINE t == OnNewObjfile(g)
<1> HIDE DEF s
<1>4. /\ t \in Session /\ t.scan = Unset /\ t.sections = Unset
      /\ t.adapter = g.adapter /\ t.printer = g.printer /\ t.trees = g.trees
      /\ t.watches = g.watches /\ t.generation = g.generation + hooks
      /\ t.interrupted = g.interrupted
  <2>1. s.generation + hooks \in Nat
    BY <1>2 DEF Session
  <2>. QED BY <1>2, <1>3, <2>1 DEF Session
<1> HIDE DEF t
<1>5. Sound(t)
  BY <1>4 DEF Sound, OwnPrinter, Whole, Confirmed, Fit, ScanOwned
<1>. QED BY <1>4, <1>5 DEF t

-----------------------------------------------------------------------------
\* The record GDR starts with is sound, its caches empty.
LEMMA InvInit == Init => Inv
<1> SUFFICES ASSUME Init PROVE Inv
  OBVIOUS
<1>1. gdr \in Session
  BY DEF Init, Session
<1>. QED BY <1>1 DEF Init, Inv, Sound, Fresh, OwnPrinter, Whole, Confirmed, Fit, ScanOwned

\* Every step keeps the invariant.
LEMMA InvNext == Inv /\ [Next]_vars => Inv'
<1> SUFFICES ASSUME Inv, [Next]_vars PROVE Inv'
  OBVIOUS
<1>0. image \in Loaded /\ hooks \in Nat /\ Sound(gdr) /\ Fresh(gdr) /\ gdr \in Session
  BY DEF Inv, Sound
<1>1. ASSUME NEW r \in Rtos, NEW v \in Versions, NEW force \in BOOLEAN,
             NEW unverified \in BOOLEAN, InitCommand(r, v, force, unverified)
      PROVE  Inv'
  <2>1. Sound(gdr') /\ image' = image /\ hooks' = hooks /\ hooks # 0
        /\ (image # NoImage => gdr'.sections \in {Unset, image} /\ gdr'.scan \in {Unset, image})
    BY <1>0, <1>1, InitIsSound DEF InitCommand, Fresh, Sourced
  <2>. QED BY <1>0, <2>1 DEF Inv, Fresh, Sound, OwnPrinter, Whole, Confirmed, Fit, ScanOwned
<1>2. CASE Source
  <2>1. image' = image /\ hooks' = hooks + 1 /\ hooks' \in Nat /\ hooks' # 0
    BY <1>0, <1>2 DEF Source
  <2>2. CASE gdr' = gdr
    BY <1>0, <2>1, <2>2 DEF Inv, Fresh, Sound, OwnPrinter, Whole, Confirmed, Fit, ScanOwned
  <2>3. CASE \E r \in Rtos, v \in Versions : gdr' \in SetupOutcomes(gdr, r, v, FALSE)
    <3>1. PICK r \in Rtos, v \in Versions : gdr' \in SetupOutcomes(gdr, r, v, FALSE)
      BY <2>3
    <3>2. gdr' \in InitOutcomes(gdr, r, v, FALSE, FALSE)
      BY <3>1 DEF InitOutcomes, SetupOutcomes
    <3>3. Sound(gdr') /\ (image # NoImage => gdr'.sections \in {Unset, image}
                                            /\ gdr'.scan \in {Unset, image})
      BY <1>0, <3>2, InitIsSound DEF Fresh
    <3>. QED BY <1>0, <2>1, <3>3 DEF Inv, Fresh, Sound, OwnPrinter, Whole, Confirmed, Fit, ScanOwned
  <2>. QED BY <1>2, <2>2, <2>3 DEF Source
<1>3. ASSUME NEW r \in Rtos, NEW force \in BOOLEAN, NEW unverified \in BOOLEAN,
             InitAuto(r, force, unverified)
      PROVE  Inv'
  <2>1. Detected(r) \in Versions
    BY <1>0, <1>3, RuntimeAssumption
       DEF InitAuto, Exact, Detected, Present, RuntimeAssumption, Loaded
  <2>. QED BY <1>1, <1>3, <2>1 DEF InitAuto
<1>4. CASE ResetCommand
  <2>1. Sound(gdr') /\ gdr'.sections = Unset /\ gdr'.scan = Unset
        /\ image' = image /\ hooks' = hooks
    BY <1>0, <1>4, ResetIsWhole DEF ResetCommand
  <2>. QED BY <1>0, <2>1 DEF Inv, Fresh, Sound, OwnPrinter, Whole, Confirmed, Fit, ScanOwned
<1>5. CASE ReadTarget
  <2>1. PICK c \in Fills(gdr.sections), s \in Fills(gdr.scan) :
          /\ s = gdr.scan \/ (gdr.adapter # None /\ gdr.adapter.layout.rtos = "freertos")
          /\ gdr' = [gdr EXCEPT !.sections = c, !.scan = s]
    BY <1>5 DEF ReadTarget, Fills
  <2>2. image' = image /\ hooks' = hooks /\ hooks # 0
    BY <1>0, <1>5 DEF ReadTarget, Sourced
  <2>3. c \in Loaded \cup {Unset} /\ s \in Loaded \cup {Unset}
    BY <1>0, <2>1 DEF Fills, Session
  <2>4. /\ gdr' \in Session /\ gdr'.adapter = gdr.adapter /\ gdr'.printer = gdr.printer
        /\ gdr'.trees = gdr.trees /\ gdr'.watches = gdr.watches
        /\ gdr'.interrupted = gdr.interrupted /\ gdr'.sections = c /\ gdr'.scan = s
    BY <1>0, <2>1, <2>3 DEF Session
  <2>5. (Sound(gdr))'
    BY <1>0, <2>1, <2>4 DEF Sound, OwnPrinter, Whole, Confirmed, Fit, ScanOwned
  <2>6. (Fresh(gdr))'
    BY <1>0, <2>1, <2>2, <2>4 DEF Fresh, Fills
  <2>. QED BY <1>0, <2>2, <2>5, <2>6 DEF Inv
<1>6. ASSUME NEW W \in SUBSET AllKinds, gdr' = [gdr EXCEPT !.watches = W],
             W # {} => gdr.adapter # None /\ W \subseteq Kinds[gdr.adapter.layout.rtos],
             UNCHANGED <<image, hooks>>
      PROVE  Inv'
  <2>1. /\ gdr' \in Session /\ gdr'.adapter = gdr.adapter /\ gdr'.printer = gdr.printer
        /\ gdr'.trees = gdr.trees /\ gdr'.watches = W /\ gdr'.sections = gdr.sections
        /\ gdr'.interrupted = gdr.interrupted /\ gdr'.scan = gdr.scan
    BY <1>0, <1>6 DEF Session
  <2>. QED BY <1>6, <2>1 DEF Inv, Fresh, Sound, OwnPrinter, Whole, Confirmed, Fit, ScanOwned
<1>7. ASSUME NEW tree \in Rtos, NEW kind \in AllKinds, AddWatch(tree, kind)
      PROVE  Inv'
  <2> DEFINE W == gdr.watches \cup {kind}
  <2>1. W \in SUBSET AllKinds
    BY <1>0 DEF Session
  <2>2. gdr.adapter # None /\ W \subseteq Kinds[gdr.adapter.layout.rtos]
    BY <1>0, <1>7 DEF AddWatch, Sound, Fit
  <2>3. gdr' = [gdr EXCEPT !.watches = W] /\ UNCHANGED <<image, hooks>>
    BY <1>7 DEF AddWatch
  <2> HIDE DEF W
  <2>. QED BY <1>6, <2>1, <2>2, <2>3
<1>8. ASSUME NEW kind \in AllKinds, RemoveWatch(kind)
      PROVE  Inv'
  <2> DEFINE W == gdr.watches \ {kind}
  <2>1. W \in SUBSET AllKinds
    BY <1>0 DEF Session
  <2>2. W # {} => gdr.adapter # None /\ W \subseteq Kinds[gdr.adapter.layout.rtos]
    BY <1>0 DEF Sound, Fit
  <2>3. gdr' = [gdr EXCEPT !.watches = W] /\ UNCHANGED <<image, hooks>>
    BY <1>8 DEF RemoveWatch
  <2> HIDE DEF W
  <2>. QED BY <1>6, <2>1, <2>2, <2>3
<1>9. CASE ClearWatches
  <2>1. gdr' = [gdr EXCEPT !.watches = {}] /\ UNCHANGED <<image, hooks>>
    BY <1>9 DEF ClearWatches
  <2>2. {} \in SUBSET AllKinds
    OBVIOUS
  <2>. QED BY <1>6, <2>1, <2>2
<1>10. CASE OnStop
  <2>1. gdr' = [gdr EXCEPT !.generation = gdr.generation + hooks]
        /\ image' = image /\ hooks' = hooks
    BY <1>10 DEF OnStop
  <2>2. gdr.generation + hooks \in Nat
    BY <1>0 DEF Session
  <2>3. /\ gdr' \in Session /\ gdr'.adapter = gdr.adapter /\ gdr'.printer = gdr.printer
        /\ gdr'.trees = gdr.trees /\ gdr'.watches = gdr.watches
        /\ gdr'.sections = gdr.sections /\ gdr'.interrupted = gdr.interrupted
        /\ gdr'.scan = gdr.scan
    BY <1>0, <2>1, <2>2 DEF Session
  <2>. QED BY <2>1, <2>3 DEF Inv, Fresh, Sound, OwnPrinter, Whole, Confirmed, Fit, ScanOwned
<1>11. ASSUME NEW i \in Images, LoadImage(i)
       PROVE  Inv'
  <2>1. image' = i /\ hooks' = hooks /\ i \in Loaded
    BY <1>11 DEF LoadImage, Loaded
  <2>2. CASE Sourced
    <3>1. gdr' = OnNewObjfile(gdr)
      BY <1>11, <2>2 DEF LoadImage
    <3>2. Sound(gdr') /\ gdr'.sections = Unset /\ gdr'.scan = Unset
      BY <1>0, <3>1, HookForgets
    <3>. QED BY <1>0, <2>1, <3>2
         DEF Inv, Fresh, Sound, OwnPrinter, Whole, Confirmed, Fit, ScanOwned
  <2>3. CASE ~Sourced
    <3>1. gdr' = gdr /\ gdr.sections = Unset /\ gdr.scan = Unset
      BY <1>0, <1>11, <2>3 DEF LoadImage, Sourced, Inv
    <3>. QED BY <1>0, <2>1, <3>1
         DEF Inv, Fresh, Sound, OwnPrinter, Whole, Confirmed, Fit, ScanOwned
  <2>. QED BY <2>2, <2>3
<1>12. CASE UnloadImage
  BY <1>0, <1>12
     DEF UnloadImage, Inv, Fresh, Sound, OwnPrinter, Whole, Confirmed, Fit, ScanOwned, Loaded
<1>13. CASE UNCHANGED vars
  BY <1>0, <1>13 DEF vars, Inv, Fresh, Sound, OwnPrinter, Whole, Confirmed, Fit, ScanOwned
<1>. QED BY <1>1, <1>2, <1>3, <1>4, <1>5, <1>7, <1>8, <1>9, <1>10, <1>11, <1>12, <1>13
     DEF Next

\* The session record stays sound and its caches fresh, in every behaviour.
THEOREM SessionIsSound == Spec => []Inv
BY InvInit, InvNext, PTL DEF Spec

\* Type correctness.
THEOREM TypeCorrect == Spec => []TypeOK
<1>1. Inv => TypeOK
  BY DEF Inv, Sound, TypeOK
<1>. QED BY <1>1, SessionIsSound, PTL

\* Objects fold through the layout of the active adapter unless a set-up was
\* interrupted and nothing was reset since.
THEOREM PrintersFollowAdapter == Spec => []FoldsItsOwn
<1>1. Inv => FoldsItsOwn
  <2> SUFFICES ASSUME Inv, gdr.adapter # None, gdr.printer # gdr.adapter.layout
               PROVE  gdr.interrupted
    BY DEF FoldsItsOwn
  <2>1. OwnPrinter(gdr) /\ Whole(gdr)
    BY DEF Inv, Sound
  <2>. QED BY <2>1 DEF OwnPrinter, Whole
<1>. QED BY <1>1, SessionIsSound, PTL

\* No adapter is active before its registrations are done.
THEOREM AdapterComesLast == Spec => []ActivatedLast
<1>1. Inv => ActivatedLast
  BY DEF Inv, Sound, Whole, ActivatedLast
<1>. QED BY <1>1, SessionIsSound, PTL

\* An adapter without a note was confirmed by the image it was set up on.
THEOREM UnnotedIsVerified == Spec => []SilenceIsVerified
<1>1. Inv => SilenceIsVerified
  BY DEF Inv, Sound, Confirmed, SilenceIsVerified
<1>. QED BY <1>1, SessionIsSound, PTL

\* No cache of an image is taken for another image.
THEOREM CachesFollowImage == Spec => []CachesAreOfTheImage
<1>1. Inv => CachesAreOfTheImage
  BY DEF Inv, Fresh, CachesAreOfTheImage
<1>. QED BY <1>1, SessionIsSound, PTL

\* The watches are of kinds the active adapter knows.
THEOREM WatchesFollowAdapter == Spec => []WatchesFit
<1>1. Inv => WatchesFit
  BY DEF Inv, Sound, Fit, WatchesFit
<1>. QED BY <1>1, SessionIsSound, PTL

-----------------------------------------------------------------------------
\* Only an initialization or a reset touches the adapter, and what they drop
\* they drop whole; only a load brings another image.
LEMMA Steps ==
  ASSUME Inv, [Next]_vars
  PROVE  \/ /\ gdr'.adapter = gdr.adapter
            /\ \/ image' \in {image, NoImage} \/ ~Sourced
               \/ gdr'.generation > gdr.generation
         \/ /\ gdr.adapter = None /\ image' = image
            /\ gdr'.adapter # None => gdr'.printer = gdr'.adapter.layout \/ gdr.interrupted
         \/ /\ image' = image /\ gdr'.generation > gdr.generation
            /\ gdr'.watches = {} /\ gdr'.scan = Unset /\ gdr'.sections \in {Unset, image}
            /\ gdr'.adapter # None => gdr'.printer = gdr'.adapter.layout
<1>0. image \in Loaded /\ hooks \in Nat /\ Sound(gdr) /\ Fresh(gdr) /\ gdr \in Session
      /\ gdr.generation \in Nat
  BY DEF Inv, Sound, Session
<1>1. ASSUME NEW r \in Rtos, NEW v \in Versions, NEW force \in BOOLEAN,
             NEW unverified \in BOOLEAN, gdr' \in InitOutcomes(gdr, r, v, force, unverified),
             image' = image
      PROVE  \/ gdr'.adapter = gdr.adapter /\ image' = image
             \/ /\ gdr.adapter = None /\ image' = image
                /\ gdr'.adapter # None => gdr'.printer = gdr'.adapter.layout \/ gdr.interrupted
             \/ /\ image' = image /\ gdr'.generation > gdr.generation
                /\ gdr'.watches = {} /\ gdr'.scan = Unset /\ gdr'.sections \in {Unset, image}
                /\ gdr'.adapter # None => gdr'.printer = gdr'.adapter.layout
  <2>1. \/ gdr' = gdr
        \/ /\ gdr.adapter = None
           /\ gdr'.adapter # None => gdr'.printer = gdr'.adapter.layout \/ gdr.interrupted
        \/ /\ gdr'.generation = gdr.generation + 1
           /\ gdr'.watches = {} /\ gdr'.scan = Unset /\ gdr'.sections \in {Unset, image}
           /\ gdr'.adapter # None => gdr'.printer = gdr'.adapter.layout
    BY <1>0, <1>1, InitIsSound
  <2>. QED BY <1>0, <1>1, <2>1
<1>2. CASE Source
  <2>1. CASE gdr' = gdr
    BY <1>2, <2>1 DEF Source
  <2>2. CASE \E r \in Rtos, v \in Versions : gdr' \in SetupOutcomes(gdr, r, v, FALSE)
    <3>1. PICK r \in Rtos, v \in Versions : gdr' \in SetupOutcomes(gdr, r, v, FALSE)
      BY <2>2
    <3>2. gdr.adapter # None => gdr' = gdr
      BY <3>1 DEF SetupOutcomes
    <3>3. gdr.adapter = None /\ gdr'.adapter # None /\ gdr.printer = None => gdr'.printer = gdr'.adapter.layout
      BY <1>0, <3>1, SetupIsSound
    <3>4. gdr.adapter = None => gdr.printer = None \/ gdr.interrupted
      BY <1>0 DEF Sound, OwnPrinter
    <3>. QED BY <1>2, <3>2, <3>3, <3>4 DEF Source
  <2>. QED BY <1>2, <2>1, <2>2 DEF Source
<1>3. ASSUME NEW r \in Rtos, NEW force \in BOOLEAN, NEW unverified \in BOOLEAN,
             \/ \E v \in Versions : InitCommand(r, v, force, unverified)
             \/ InitAuto(r, force, unverified)
      PROVE  \E v \in Versions :
               gdr' \in InitOutcomes(gdr, r, v, force, unverified) /\ image' = image
  <2>1. Exact(r) => Detected(r) \in Versions
    BY <1>0, RuntimeAssumption DEF Exact, Detected, Present, RuntimeAssumption, Loaded
  <2>. QED BY <1>3, <2>1 DEF InitAuto, InitCommand
<1>4. CASE ResetCommand
  BY <1>0, <1>4, ResetIsWhole DEF ResetCommand
<1>5. CASE \/ ReadTarget \/ ClearWatches \/ OnStop
           \/ \E r \in Rtos, k \in AllKinds : AddWatch(r, k)
           \/ \E k \in AllKinds : RemoveWatch(k)
  <2>1. image' = image
    BY <1>5 DEF ReadTarget, ClearWatches, OnStop, AddWatch, RemoveWatch
  <2>2. gdr'.adapter = gdr.adapter
    <3>1. CASE ReadTarget
      <4>1. PICK c, s : gdr' = [gdr EXCEPT !.sections = c, !.scan = s]
        BY <3>1 DEF ReadTarget
      <4>. QED BY <1>0, <4>1 DEF Session
    <3>2. CASE OnStop
      BY <1>0, <3>2 DEF OnStop, Session
    <3>3. CASE \/ ClearWatches
               \/ \E r \in Rtos, k \in AllKinds : AddWatch(r, k)
               \/ \E k \in AllKinds : RemoveWatch(k)
      BY <1>0, <3>3 DEF ClearWatches, AddWatch, RemoveWatch, Session
    <3>. QED BY <1>5, <3>1, <3>2, <3>3
  <2>. QED BY <2>1, <2>2
<1>6. ASSUME NEW i \in Images, LoadImage(i)
      PROVE  gdr'.adapter = gdr.adapter /\ (~Sourced \/ gdr'.generation > gdr.generation)
  <2>1. CASE Sourced
    <3>1. gdr' = OnNewObjfile(gdr) /\ hooks > 0
      BY <1>6, <2>1 DEF LoadImage, Sourced
    <3>2. gdr'.adapter = gdr.adapter /\ gdr'.generation = gdr.generation + hooks
      BY <1>0, <3>1, HookForgets
    <3>. QED BY <1>0, <3>1, <3>2
  <2>. QED BY <1>6, <2>1 DEF LoadImage
<1>7. CASE UnloadImage
  BY <1>7 DEF UnloadImage
<1>8. CASE UNCHANGED vars
  BY <1>8 DEF vars
<1>9. ASSUME NEW r \in Rtos, NEW force \in BOOLEAN, NEW unverified \in BOOLEAN,
             \/ \E v \in Versions : InitCommand(r, v, force, unverified)
             \/ InitAuto(r, force, unverified)
      PROVE  \/ gdr'.adapter = gdr.adapter /\ image' = image
             \/ /\ gdr.adapter = None /\ image' = image
                /\ gdr'.adapter # None => gdr'.printer = gdr'.adapter.layout \/ gdr.interrupted
             \/ /\ image' = image /\ gdr'.generation > gdr.generation
                /\ gdr'.watches = {} /\ gdr'.scan = Unset /\ gdr'.sections \in {Unset, image}
                /\ gdr'.adapter # None => gdr'.printer = gdr'.adapter.layout
  <2>1. PICK v \in Versions :
          gdr' \in InitOutcomes(gdr, r, v, force, unverified) /\ image' = image
    BY <1>3, <1>9
  <2>. QED BY <1>1, <2>1
<1>. QED BY <1>2, <1>4, <1>5, <1>6, <1>7, <1>8, <1>9 DEF Next

\* Whatever drops an adapter drops everything made for it and tells its clients;
\* what comes folds through its own layout, unless a set-up was interrupted.
THEOREM AdapterDropsWhole == Spec => DroppedWhole
<1>1. Inv /\ [Next]_vars =>
        [gdr'.adapter # gdr.adapter =>
           /\ gdr.adapter # None =>
                /\ gdr'.generation > gdr.generation
                /\ gdr'.watches = {} /\ gdr'.scan = Unset
                /\ gdr'.sections \in {Unset, image'}
           /\ gdr'.adapter # None =>
                gdr'.printer = gdr'.adapter.layout \/ (gdr.adapter = None /\ gdr.interrupted)]_vars
  BY Steps
<1>. QED BY <1>1, SessionIsSound, PTL DEF Spec, DroppedWhole

\* No change of the image or of the active adapter leaves the generation as it was.
THEOREM GenerationMovesOn == Spec => GenerationTells
<1>1. Inv /\ [Next]_vars =>
        [/\ Sourced
         /\ image' \notin {image, NoImage} \/ (gdr.adapter # None /\ gdr'.adapter # gdr.adapter)
         => gdr'.generation > gdr.generation]_vars
  BY Steps
<1>. QED BY <1>1, SessionIsSound, PTL DEF Spec, GenerationTells

-----------------------------------------------------------------------------
\* Its initialization by the extension.

\* The versions the image tells of.
Known == ExactOnes(Candidates)

\* What a run learnt of the image, until it has used it.
CarriedBy(r) ==
  /\ r.pc = "decide" => r.payload \in {None, Candidates}
  /\ r.pc = "ask" => r.options \subseteq Known
  /\ r.pc \in {"init", "verify"} => r.target \in Target /\ r.source \in Sources
  /\ r.pc = "init" /\ r.source = "probe" => r.target \in Known

Carried == \A n \in Runs : CarriedBy(run[n])

\* Who set the adapter up, and what that says of it.
Founded ==
  /\ by = "probe" => gdr.adapter # None /\ gdr.adapter.note = None
  /\ gdr.adapter # None /\ gdr.adapter.note = "forced" => by \in {"settings", "user"}

\* Nothing has run before the loader was sourced.
Begun == hooks = 0 => stop = 0 /\ \A n \in Runs : run[n].pc = "idle"

ClientInv == Inv /\ ClientTypeOK /\ Carried /\ Founded /\ Begun

-----------------------------------------------------------------------------
\* What an adapter says of itself is a candidate, and an exact one a target.
LEMMA CandidatesTyped ==
  ASSUME image \in Loaded
  PROVE  /\ Candidates \in SUBSET Candidate /\ Known \in SUBSET Target
         /\ \A c \in Known : c.rtos \in Rtos /\ Detected(c.rtos) # None /\ Present(c.rtos)
<1>1. \A r \in Rtos : Detected(r) \in Versions \cup {None}
  BY RuntimeAssumption DEF Detected, Loaded, RuntimeAssumption
<1>2. Candidates \in SUBSET Candidate
  BY <1>1 DEF Candidates, Candidate
<1>3. ASSUME NEW c \in Known
      PROVE  c \in Target /\ c.rtos \in Rtos /\ Detected(c.rtos) # None /\ Present(c.rtos)
  <2>1. PICK r \in Rtos : Present(r) /\ c = [rtos |-> r, version |-> Detected(r)]
    BY <1>3 DEF Known, ExactOnes, Candidates
  <2>2. Detected(r) # None
    BY <1>3, <2>1 DEF Known, ExactOnes
  <2>. QED BY <1>1, <2>1, <2>2 DEF Target
<1>. QED BY <1>2, <1>3

\* The decision names a target, from the probe one the image tells of; and a
\* question offers none but those.
LEMMA DecisionIsKnown ==
  ASSUME image \in Loaded, NEW payload \in {None, Candidates},
         NEW set \in Setting, NEW cached \in Target \cup {None}
  PROVE  LET d == Decision(payload, set, cached)
         IN  \/ d.kind = "none"
             \/ d.kind = "ask" /\ d.options \subseteq Known
             \/ /\ d.kind = "init" /\ d.target \in Target /\ d.source \in Sources
                /\ d.source = "probe" => d.target \in Known
<1> DEFINE d == Decision(payload, set, cached)
<1>1. \A t \in Target, s \in Sources :
        /\ Use(t, s).kind = "init" /\ Use(t, s).target = t /\ Use(t, s).source = s
  BY DEF Use, Target
<1>2. \A o \in SUBSET Known : Ask(o) = [kind |-> "none"] \/ Ask(o) = [kind |-> "ask", options |-> o]
  BY Zenon DEF Ask
<1>3. CASE set.rtos # None /\ set.version # None
  <2>1. d = [kind |-> "init", target |-> [rtos |-> set.rtos, version |-> set.version],
             source |-> "settings"]
    BY <1>3 DEF Decision, Use
  <2>2. [rtos |-> set.rtos, version |-> set.version] \in Target
    BY <1>3 DEF Setting, Target
  <2>. QED BY <2>1, <2>2 DEF Sources
<1>4. CASE ~(set.rtos # None /\ set.version # None) /\ cached # None
  <2>1. d = Use(cached, "cache") /\ cached \in Target
    BY <1>4 DEF Decision
  <2>. QED BY <1>1, <2>1 DEF Sources
<1>5. CASE ~(set.rtos # None /\ set.version # None) /\ cached = None
  <2>1. CASE payload = None
    BY <1>5, <2>1 DEF Decision
  <2>2. CASE payload # None
    <3>1. Options(payload) = Known /\ Resolved(payload) \subseteq Known
      BY <2>2 DEF Options, Resolved, Known
    <3>2. CASE set.rtos # None
      <4>1. d = Ask({o \in Options(payload) : o.rtos = set.rtos})
        BY <1>5, <2>2, <3>2 DEF Decision
      <4>. QED BY <1>2, <3>1, <4>1
    <3>3. CASE set.rtos = None /\ Resolved(payload) = {}
      <4>1. d = Ask(Options(payload))
        BY <1>5, <2>2, <3>3 DEF Decision
      <4>. QED BY <1>2, <3>1, <4>1
    <3>4. CASE set.rtos = None /\ Resolved(payload) # {} /\ set.autoInit
      <4> DEFINE c == CHOOSE x \in Resolved(payload) : TRUE
      <4>1. c \in Known
        BY <3>1, <3>4
      <4>2. d = Use(c, "probe")
        BY <1>5, <2>2, <3>4 DEF Decision
      <4>3. c \in Target
        BY <4>1, CandidatesTyped
      <4> HIDE DEF c
      <4>. QED BY <1>1, <4>1, <4>2, <4>3 DEF Sources
    <3>5. CASE set.rtos = None /\ Resolved(payload) # {} /\ ~set.autoInit
      <4>1. d = Ask(Resolved(payload))
        BY <1>5, <2>2, <3>5 DEF Decision
      <4>. QED BY <1>2, <3>1, <4>1
    <3>. QED BY <3>2, <3>3, <3>4, <3>5
  <2>. QED BY <2>1, <2>2
<1>. QED BY <1>3, <1>4, <1>5

\* An adapter that a set-up leaves active is of the RTOS and version asked for,
\* which were accepted.
LEMMA SetupIsAsked ==
  ASSUME Inv, NEW r \in Rtos, NEW v \in Versions, NEW unverified \in BOOLEAN,
         NEW h \in InitOutcomes(gdr, r, v, FALSE, unverified), h.adapter # gdr.adapter
  PROVE  /\ Accepts(r, v, unverified)
         /\ h.adapter = [layout |-> [rtos |-> r, version |-> v, image |-> image], note |-> Note(r)]
<1>1. gdr.adapter = None /\ h \in SetupOutcomes(gdr, r, v, unverified) /\ gdr \in Session
  BY DEF InitOutcomes, Inv, Sound
<1> DEFINE l == [rtos |-> r, version |-> v, image |-> image]
<1>2. \A p \in Probed(gdr) : p \in Session /\ p.adapter = None
  BY <1>1 DEF Probed, Session, Fills, Inv
<1>3. \A p \in Probed(gdr), stage \in Stages : InterruptedAt(p, l, Note(r), stage).adapter = None
  BY <1>2 DEF Stages, InterruptedAt, WithPrinter, WithTree, Session
<1>4. \A p \in Probed(gdr) : Completed(p, l, Note(r)).adapter = [layout |-> l, note |-> Note(r)]
  BY <1>2 DEF Completed, WithPrinter, WithTree, Session
<1>5. Accepts(r, v, unverified)
  BY <1>1, <1>2 DEF SetupOutcomes
<1>6. \E p \in Probed(gdr) : \/ h = Completed(p, l, Note(r))
                             \/ \E stage \in Raises(p, r) : h = InterruptedAt(p, l, Note(r), stage)
  BY <1>1, <1>5 DEF SetupOutcomes
<1>7. \A p \in Probed(gdr) : Raises(p, r) \subseteq Stages
  BY RuntimeAssumption DEF Raises, RuntimeAssumption
<1>. QED BY <1>1, <1>3, <1>4, <1>5, <1>6, <1>7

\* The adapter a set-up of the extension registers: confirmed by the image if
\* its target was, forced only if the user vouches for it.
LEMMA SetupIsFounded ==
  ASSUME Inv, NEW r \in Rtos, NEW v \in Versions, NEW unverified \in BOOLEAN,
         NEW h \in InitOutcomes(gdr, r, v, FALSE, unverified), h.adapter # gdr.adapter
  PROVE  /\ h.adapter # None
         /\ Detected(r) # None /\ Present(r) => h.adapter.note = None
         /\ h.adapter.note = "forced" => unverified
<1> DEFINE l == [rtos |-> r, version |-> v, image |-> image]
<1>1. Accepts(r, v, unverified) /\ h.adapter = [layout |-> l, note |-> Note(r)]
  BY SetupIsAsked
<1>2. l \in Layout
  BY DEF Inv, Layout
<1>3. Note(r) \in Notes \cup {None}
  BY NoteIsTrue, <1>1 DEF Inv
<1>4. h.adapter # None
  BY <1>1, <1>2, <1>3, RuntimeAssumption DEF Adapter, RuntimeAssumption
<1>5. h.adapter.note = Note(r)
  BY <1>1
<1>6. Note(r) = "forced" => ~Present(r)
  BY RuntimeAssumption DEF Note, RuntimeAssumption, Notes
<1>7. Detected(r) # None /\ Present(r) => Note(r) = None
  BY DEF Note
<1>. QED BY <1>1, <1>4, <1>5, <1>6, <1>7 DEF Accepts

-----------------------------------------------------------------------------
\* A session that starts has runs that have learnt nothing.
LEMMA ClientInvInit == ClientInit => ClientInv
<1> SUFFICES ASSUME ClientInit PROVE ClientInv
  OBVIOUS
<1>1. Inv
  BY InvInit DEF ClientInit
<1>2. TypeOK
  BY <1>1 DEF Inv, Sound, TypeOK
<1>3. IdleRun \in Run
  BY DEF IdleRun, Run
<1>4. ClientTypeOK
  <2>1. 0 \in 0..MaxSessions /\ 0 \in 0..MaxStops /\ Settings \subseteq Setting
    BY ClientAssumption DEF ClientAssumption
  <2>. QED BY <1>2, <1>3, <2>1 DEF ClientTypeOK, ClientInit
<1>5. Carried
  BY DEF ClientInit, Carried, CarriedBy, IdleRun
<1>6. Founded
  BY ClientAssumption DEF ClientInit, Founded, Init, Sources, ClientAssumption
<1>7. Begun
  BY DEF ClientInit, Begun, IdleRun
<1>. QED BY <1>1, <1>4, <1>5, <1>6, <1>7 DEF ClientInv

\* A run that goes on, in a session left as it is, is a run that carries what
\* is true.
LEMMA RunGoesOn ==
  ASSUME Carried, run \in [Runs -> Run], NEW n \in Runs, NEW r \in Run, CarriedBy(r),
         run' = [run EXCEPT ![n] = r], image' = image
  PROVE  run' \in [Runs -> Run] /\ Carried'
<1>1. Candidates' = Candidates /\ Known' = Known
  BY DEF Candidates, Present, Detected, Known, ExactOnes
<1>2. \A m \in Runs : CarriedBy(run'[m])
  BY DEF Carried
<1>3. \A m \in Runs : (CarriedBy(run[m]))' <=> CarriedBy(run'[m])
  BY <1>1 DEF CarriedBy
<1>. QED BY <1>2, <1>3 DEF Carried

\* Every step keeps the invariant.
LEMMA ClientInvNext == ClientInv /\ [ClientNext]_allVars => ClientInv'
<1> SUFFICES ASSUME ClientInv, [ClientNext]_allVars PROVE ClientInv'
  OBVIOUS
<1>0. /\ Inv /\ ClientTypeOK /\ Carried /\ Founded /\ Begun
      /\ run \in [Runs -> Run] /\ image \in Loaded
  BY DEF ClientInv, ClientTypeOK, Inv
<1> DEFINE Others == /\ session' \in 0..MaxSessions /\ settings' \in Setting
                     /\ stopped' \in BOOLEAN /\ stop' \in 0..MaxStops
                     /\ recorded' \in Target \cup {None} /\ cache' \in Target \cup {None}
                     /\ by' \in Sources \cup {"user", None} /\ meddled' \in BOOLEAN
<1>1. ASSUME Inv', Others, run' \in [Runs -> Run], Carried', Founded', Begun'
      PROVE  ClientInv'
  <2>1. TypeOK'
    BY <1>1 DEF Inv, Sound, TypeOK
  <2>. QED BY <1>1, <2>1 DEF ClientInv, ClientTypeOK
<1>2. IdleRun \in Run /\ CarriedBy(IdleRun)
  BY DEF IdleRun, Run, CarriedBy
<1>3. ASSUME UNCHANGED <<run, image>>
      PROVE  run' \in [Runs -> Run] /\ Carried'
  BY <1>0, <1>3 DEF Carried, CarriedBy, Candidates, Present, Detected, Known, ExactOnes
<1>4. ASSUME UNCHANGED <<by, gdr>>
      PROVE  Founded'
  BY <1>0, <1>4 DEF Founded
<1>5. ASSUME UNCHANGED vars
      PROVE  Inv'
  BY <1>0, <1>5, InvNext
<1>6. CASE StartSession
  <2>1. /\ image' \in Images /\ hooks' = 1 /\ settings' \in Setting
        /\ session' \in 0..MaxSessions /\ stop' = 0 /\ stopped' = FALSE
        /\ run' = [n \in Runs |-> IdleRun] /\ by' = None
        /\ recorded' = None /\ cache' = cache /\ meddled' = FALSE
        /\ gdr' = [adapter |-> None, printer |-> None, trees |-> [r \in Rtos |-> "none"],
                   watches |-> {}, sections |-> Unset, scan |-> Unset, generation |-> 0,
                   interrupted |-> FALSE]
    <3>1. session + 1 \in 0..MaxSessions
      BY <1>0, <1>6, ClientAssumption DEF StartSession, ClientTypeOK, ClientAssumption
    <3>. QED BY <1>6, <3>1, ClientAssumption DEF StartSession, ClientAssumption
  <2>2. Inv'
    <3>1. gdr' \in Session /\ image' \in Loaded
      BY <2>1 DEF Session, Loaded
    <3>. QED BY <2>1, <3>1 DEF Inv, Sound, Fresh, OwnPrinter, Whole, Confirmed, Fit, ScanOwned
  <2>3. run' \in [Runs -> Run] /\ Carried'
    BY <1>2, <2>1 DEF Carried, CarriedBy, IdleRun
  <2>4. Founded'
    BY <2>1, ClientAssumption DEF Founded, ClientAssumption, Sources
  <2>5. Others
    <3>1. 0 \in 0..MaxStops /\ stop' \in 0..MaxStops
      BY <2>1, ClientAssumption DEF ClientAssumption
    <3>. QED BY <1>0, <2>1, <3>1 DEF ClientTypeOK
  <2>6. Begun'
    BY <2>1 DEF Begun
  <2>. QED BY <1>1, <2>2, <2>3, <2>4, <2>5, <2>6
<1>7. CASE StopTarget
  <2>1. Inv'
    BY <1>0, <1>7, InvNext DEF StopTarget, Next
  <2>2. /\ UNCHANGED <<run, image, session, settings, recorded, cache, by, meddled>>
        /\ stopped' = TRUE /\ stop' = stop + 1 /\ stop < MaxStops
    BY <1>7 DEF StopTarget, OnStop
  <2>3. gdr'.adapter = gdr.adapter
    BY <1>0, <1>7 DEF StopTarget, OnStop, Inv, Sound, Session
  <2>4. Founded'
    BY <1>0, <2>2, <2>3 DEF Founded
  <2>5. stop + 1 \in 0..MaxStops
    BY <1>0, <2>2, ClientAssumption DEF ClientTypeOK, ClientAssumption
  <2>6. Others
    BY <1>0, <2>2, <2>5 DEF ClientTypeOK
  <2>7. Begun'
    BY <1>0, <1>7 DEF StopTarget, OnStop, Sourced, Begun, Inv
  <2>. QED BY <1>1, <1>3, <2>1, <2>2, <2>4, <2>6, <2>7
<1>8. CASE Resume
  <2>1. Others /\ UNCHANGED <<run, image, gdr, by>> /\ UNCHANGED vars
    BY <1>0, <1>8 DEF Resume, ClientTypeOK, vars
  <2>2. Begun'
    BY <1>0, <1>8 DEF Resume, Begun, vars
  <2>. QED BY <1>1, <1>3, <1>4, <1>5, <2>1, <2>2
<1>9. CASE TypeCommand
  <2>1. /\ \/ \E r \in Rtos, v \in Versions, force \in BOOLEAN, unverified \in BOOLEAN :
                InitCommand(r, v, force, unverified)
           \/ ResetCommand
        /\ meddled' = TRUE
        /\ UNCHANGED <<session, settings, stopped, stop, run, recorded, cache>>
        /\ by' = IF gdr'.adapter = gdr.adapter THEN by
                 ELSE IF gdr'.adapter = None THEN None ELSE "user"
    BY <1>9 DEF TypeCommand
  <2>2. Inv' /\ UNCHANGED <<image, hooks>>
    <3>1. Next
      BY <2>1 DEF Next
    <3>. QED BY <1>0, <2>1, <3>1, InvNext DEF InitCommand, ResetCommand
  <2>3. Others
    BY <1>0, <2>1 DEF ClientTypeOK
  <2>4. Founded'
    <3>1. CASE gdr'.adapter = gdr.adapter
      BY <1>0, <2>1, <3>1 DEF Founded
    <3>2. CASE gdr'.adapter # gdr.adapter /\ gdr'.adapter = None
      BY <2>1, <3>2, ClientAssumption DEF Founded, ClientAssumption, Sources
    <3>3. CASE gdr'.adapter # gdr.adapter /\ gdr'.adapter # None
      BY <2>1, <3>3 DEF Founded
    <3>. QED BY <3>1, <3>2, <3>3
  <2>5. Begun'
    BY <1>0, <2>1, <2>2 DEF Begun
  <2>. QED BY <1>1, <1>3, <2>1, <2>2, <2>3, <2>4, <2>5
<1>10. ASSUME NEW n \in Runs, NEW r \in Run, CarriedBy(r), run' = [run EXCEPT ![n] = r],
              UNCHANGED <<vars, session, settings, stopped, stop, by, meddled>>,
              n <= stop \/ run[n].pc # "idle",
              recorded' \in Target \cup {None}, cache' \in Target \cup {None}
       PROVE  ClientInv'
  <2>1. UNCHANGED vars /\ image' = image /\ UNCHANGED <<by, gdr>>
    BY <1>10 DEF vars
  <2>2. Others
    BY <1>0, <1>10 DEF ClientTypeOK
  <2>3. run' \in [Runs -> Run] /\ Carried'
    BY <1>0, <1>10, <2>1, RunGoesOn
  <2>4. hooks # 0
    BY <1>0, <1>10 DEF Begun, Runs
  <2>5. Begun'
    BY <2>1, <2>4 DEF Begun, vars
  <2>. QED BY <1>1, <1>4, <1>5, <2>1, <2>2, <2>3, <2>5
<1>11. \A n \in Runs : run[n] \in Run /\ CarriedBy(run[n])
  BY <1>0 DEF Carried
<1>12. [IdleRun EXCEPT !.pc = "done"] \in Run /\ CarriedBy([IdleRun EXCEPT !.pc = "done"])
  BY DEF IdleRun, Run, CarriedBy
<1>13. recorded \in Target \cup {None} /\ cache \in Target \cup {None} /\ settings \in Setting
  BY <1>0 DEF ClientTypeOK
<1>14. ASSUME NEW n \in Runs, FirstStop(n)
       PROVE  ClientInv'
  <2>1. [IdleRun EXCEPT !.pc = "probe"] \in Run /\ CarriedBy([IdleRun EXCEPT !.pc = "probe"])
    BY DEF IdleRun, Run, CarriedBy
  <2>. QED BY <1>10, <1>12, <1>13, <1>14, <2>1 DEF FirstStop, Goto, Done
<1>15. ASSUME NEW n \in Runs, Probe(n)
       PROVE  ClientInv'
  <2>1. PICK p \in {None, Candidates} :
          run' = [run EXCEPT ![n] = [run[n] EXCEPT !.pc = "decide", !.payload = p]]
    BY <1>15 DEF Probe, Goto
  <2> DEFINE r == [run[n] EXCEPT !.pc = "decide", !.payload = p]
  <2>2. p \in (SUBSET Candidate) \cup {None}
    BY <1>0, CandidatesTyped
  <2>3. r \in Run /\ r.pc = "decide" /\ r.payload = p
    BY <1>11, <2>2 DEF Run
  <2>4. CarriedBy(r)
    BY <2>1, <2>3 DEF CarriedBy
  <2> HIDE DEF r
  <2>. QED BY <1>10, <1>13, <1>15, <2>1, <2>3, <2>4 DEF Probe, r
<1>16. ASSUME NEW n \in Runs, Decide(n)
       PROVE  ClientInv'
  <2> DEFINE d == Decision(run[n].payload, settings, cache)
  <2>1. \/ d.kind = "none"
        \/ d.kind = "ask" /\ d.options \subseteq Known
        \/ /\ d.kind = "init" /\ d.target \in Target /\ d.source \in Sources
           /\ d.source = "probe" => d.target \in Known
    <3>1. run[n].payload \in {None, Candidates}
      BY <1>11, <1>16 DEF Decide, CarriedBy
    <3>. QED BY <1>0, <1>13, <3>1, DecisionIsKnown
  <2>2. UNCHANGED <<vars, session, settings, stopped, stop, recorded, cache, by, meddled>> /\ run[n].pc # "idle"
    BY <1>16 DEF Decide
  <2>3. CASE d.kind = "none"
    <3>1. Done(n)
      BY <1>16, <2>3 DEF Decide
    <3>. QED BY <1>10, <1>12, <1>13, <2>2, <3>1 DEF Done, Goto
  <2>4. CASE d.kind = "ask" /\ d.options \subseteq Known
    <3> DEFINE r == [IdleRun EXCEPT !.pc = "ask", !.options = d.options]
    <3>1. Goto(n, r)
      BY <1>16, <2>4 DEF Decide
    <3>2. d.options \in SUBSET Target
      BY <1>0, <2>4, CandidatesTyped
    <3> HIDE DEF d
    <3>3. r \in Run /\ CarriedBy(r)
      BY <2>4, <3>2 DEF IdleRun, Run, CarriedBy
    <3>. QED BY <1>10, <1>13, <2>2, <3>1, <3>3 DEF Goto
  <2>5. CASE /\ d.kind = "init" /\ d.target \in Target /\ d.source \in Sources
             /\ d.source = "probe" => d.target \in Known
    <3> DEFINE r == [IdleRun EXCEPT !.pc = "init", !.target = d.target, !.source = d.source]
    <3>1. Goto(n, r)
      BY <1>16, <2>5 DEF Decide
    <3> HIDE DEF d
    <3>2. r \in Run /\ CarriedBy(r)
      BY <2>5 DEF IdleRun, Run, CarriedBy
    <3>. QED BY <1>10, <1>13, <2>2, <3>1, <3>2 DEF Goto
  <2>. QED BY <2>1, <2>3, <2>4, <2>5
<1>17. ASSUME NEW n \in Runs, Pick(n)
       PROVE  ClientInv'
  <2>1. UNCHANGED <<vars, session, settings, stopped, stop, recorded, cache, by, meddled>> /\ run[n].pc # "idle"
    BY <1>17 DEF Pick
  <2>2. CASE Done(n)
    BY <1>10, <1>12, <1>13, <2>1, <2>2 DEF Done, Goto
  <2>3. CASE \E o \in run[n].options :
               Goto(n, [IdleRun EXCEPT !.pc = "init", !.target = o, !.source = "probe"])
    <3>1. PICK o \in run[n].options :
            Goto(n, [IdleRun EXCEPT !.pc = "init", !.target = o, !.source = "probe"])
      BY <2>3
    <3>2. o \in Known /\ o \in Target
      BY <1>0, <1>11, <1>17, <3>1, CandidatesTyped DEF Pick, CarriedBy
    <3>3. /\ [IdleRun EXCEPT !.pc = "init", !.target = o, !.source = "probe"] \in Run
          /\ CarriedBy([IdleRun EXCEPT !.pc = "init", !.target = o, !.source = "probe"])
      BY <3>2 DEF IdleRun, Run, CarriedBy, Sources
    <3>. QED BY <1>10, <1>13, <2>1, <3>1, <3>3 DEF Goto
  <2>. QED BY <1>17, <2>2, <2>3 DEF Pick
<1>18. ASSUME NEW n \in Runs, EvaluateInit(n)
       PROVE  ClientInv'
  <2> DEFINE t == run[n].target
  <2>1. /\ t \in Target /\ run[n].source \in Sources
        /\ run[n].source = "probe" => t \in Known
    BY <1>11, <1>18 DEF EvaluateInit, CarriedBy
  <2>2. /\ gdr' \in InitOutcomes(gdr, t.rtos, t.version, FALSE, run[n].source = "settings") \/ gdr' = gdr
        /\ by' = IF gdr'.adapter = gdr.adapter THEN by ELSE run[n].source
        /\ run' = [run EXCEPT ![n] = [run[n] EXCEPT !.pc = "verify"]]
        /\ UNCHANGED <<image, hooks, session, settings, stopped, stop, recorded, cache, meddled>>
    BY <1>18 DEF EvaluateInit, Goto, InitOf
  <2>3. t.rtos \in Rtos /\ t.version \in Versions /\ (run[n].source = "settings") \in BOOLEAN
    BY <2>1 DEF Target
  <2> HIDE DEF t
  <2>4. Inv'
    <3>1. Sound(gdr') /\ Fresh(gdr') /\ Fresh(gdr)
      BY <1>0, <2>2, <2>3, InitIsSound DEF Inv
    <3>2. (Sound(gdr))' /\ (Fresh(gdr))'
      BY <2>2, <3>1 DEF Fresh, Sound, OwnPrinter, Whole, Confirmed, Fit, ScanOwned
    <3>3. hooks # 0
      BY <1>0, <1>18 DEF EvaluateInit, Begun
    <3>. QED BY <1>0, <2>2, <3>2, <3>3 DEF Inv
  <2>5. Founded'
    <3>1. CASE gdr'.adapter = gdr.adapter
      BY <1>0, <2>2, <3>1 DEF Founded
    <3>2. CASE gdr'.adapter # gdr.adapter
      <4>0. gdr' \in InitOutcomes(gdr, t.rtos, t.version, FALSE, run[n].source = "settings")
        BY <2>2, <3>2
      <4>1. /\ gdr'.adapter # None
            /\ Detected(t.rtos) # None /\ Present(t.rtos) => gdr'.adapter.note = None
            /\ gdr'.adapter.note = "forced" => run[n].source = "settings"
        BY <1>0, <2>3, <3>2, <4>0, SetupIsFounded
      <4>2. run[n].source = "probe" => Detected(t.rtos) # None /\ Present(t.rtos)
        BY <1>0, <2>1, CandidatesTyped
      <4>. QED BY <2>2, <3>2, <4>1, <4>2 DEF Founded
    <3>. QED BY <3>1, <3>2
  <2>6. [run[n] EXCEPT !.pc = "verify"] \in Run /\ CarriedBy([run[n] EXCEPT !.pc = "verify"])
    BY <1>11, <1>18 DEF Run, CarriedBy, EvaluateInit
  <2>7. run' \in [Runs -> Run] /\ Carried'
    BY <1>0, <2>2, <2>6, RunGoesOn
  <2>8. Others
    BY <1>0, <2>1, <2>2 DEF ClientTypeOK
  <2>9. Begun'
    <3>1. hooks # 0
      BY <1>0, <1>18 DEF EvaluateInit, Begun
    <3>. QED BY <2>2, <3>1 DEF Begun
  <2>. QED BY <1>1, <2>4, <2>5, <2>7, <2>8, <2>9
<1>19. ASSUME NEW n \in Runs, Verify(n)
       PROVE  ClientInv'
  <2>1. recorded' \in Target \cup {None} /\ cache' \in Target \cup {None}
    <3>1. run[n].target \in Target
      BY <1>11, <1>19 DEF Verify, CarriedBy
    <3>. QED BY <1>13, <1>19, <3>1 DEF Verify
  <2>2. /\ run' = [run EXCEPT ![n] = [IdleRun EXCEPT !.pc = "done"]]
        /\ UNCHANGED <<vars, session, settings, stopped, stop, by, meddled>> /\ run[n].pc # "idle"
    BY <1>19 DEF Verify, Done, Goto
  <2>. QED BY <1>10, <1>12, <2>1, <2>2
<1>20. CASE UNCHANGED allVars
  <2>1. Others /\ UNCHANGED <<run, image, gdr, by>> /\ UNCHANGED vars
    BY <1>0, <1>20 DEF allVars, clientVars, vars, ClientTypeOK
  <2>2. Begun'
    BY <1>0, <1>20 DEF allVars, clientVars, vars, Begun
  <2>. QED BY <1>1, <1>3, <1>4, <1>5, <2>1, <2>2
<1>. QED BY <1>6, <1>7, <1>8, <1>9, <1>14, <1>15, <1>16, <1>17, <1>18, <1>19, <1>20
     DEF ClientNext, Advance

\* The session record stays sound in the extension's hands, and what its runs
\* carry stays true of the firmware.
THEOREM ClientIsSound == ClientSpec => []ClientInv
BY ClientInvInit, ClientInvNext, PTL DEF ClientSpec

\* An adapter the extension chose from the probe is confirmed by the image, and
\* one on a target without a trace of its RTOS was vouched for by the user.
THEOREM ProbedIsConfirmed == ClientSpec => []ProbeIsConfirmed
<1>1. ClientInv => ProbeIsConfirmed
  BY DEF ClientInv, Founded, ProbeIsConfirmed
<1>. QED BY <1>1, ClientIsSound, PTL
-----------------------------------------------------------------------------
\* What is recorded.

NoChoice == ~meddled /\ \A a, b \in Choices : a = b

\* What the extension aims at: the settings, else the cache, else the probe.
Meant(t) ==
  IF settings.rtos # None /\ settings.version # None
  THEN t.rtos = settings.rtos /\ t.version = settings.version
  ELSE IF cache # None THEN t = cache ELSE t \in Choices

AimedAt(r) ==
  /\ r.pc = "ask" => \A o \in r.options : Meant(o)
  /\ r.pc \in {"init", "verify"} => Meant(r.target)

\* Without a choice all runs aim at one target, and it is the active one.
OneAim ==
  NoChoice =>
    /\ gdr.adapter # None =>
         \E t \in Target : /\ Meant(t)
                           /\ gdr.adapter.layout.rtos = t.rtos /\ gdr.adapter.layout.version = t.version
    /\ recorded # None => gdr.adapter # None /\ Meant(recorded)
    /\ \A n \in Runs : AimedAt(run[n])

\* It is one target.
LEMMA MeantIsOne ==
  ASSUME NoChoice, NEW a \in Target, NEW b \in Target, Meant(a), Meant(b)
  PROVE  a = b
BY DEF NoChoice, Meant, Target

\* Whatever the extension decides, it is what it aims at.
LEMMA DecisionIsMeant ==
  ASSUME ClientInv, NEW payload \in {None, Candidates}
  PROVE  LET d == Decision(payload, settings, cache)
         IN  /\ d.kind = "ask" => \A o \in d.options : Meant(o)
             /\ d.kind = "init" => Meant(d.target)
<1> DEFINE d == Decision(payload, settings, cache)
<1>1. cache \in Target \cup {None} /\ settings \in Setting
  BY DEF ClientInv, ClientTypeOK
<1>2. CASE settings.rtos # None /\ settings.version # None
  BY <1>2 DEF Decision, Use, Meant
<1>3. CASE ~(settings.rtos # None /\ settings.version # None) /\ cache # None
  BY <1>1, <1>3 DEF Decision, Use, Meant, Target
<1>4. CASE /\ ~(settings.rtos # None /\ settings.version # None) /\ cache = None /\ payload = None
  BY <1>4 DEF Decision
<1>5. CASE /\ ~(settings.rtos # None /\ settings.version # None) /\ cache = None /\ payload # None
  <2>1. payload = Candidates
    BY <1>5
  <2>2. Resolved(payload) \subseteq Options(payload) /\ Options(payload) = ExactOnes(Candidates)
    BY <2>1 DEF Resolved, Options
  <2>3. CASE settings.rtos # None
    <3>1. d = Ask({o \in Options(payload) : o.rtos = settings.rtos})
      BY <1>5, <2>3 DEF Decision
    <3>. QED BY <1>5, <2>2, <2>3, <3>1 DEF Ask, Meant, Choices
  <2>4. CASE settings.rtos = None
    <3>1. Choices = ExactOnes(Candidates)
      BY <2>4 DEF Choices
    <3>2. \A o : Meant(o) <=> o \in Choices
      BY <1>5, <2>4 DEF Meant
    <3>3. CASE Resolved(payload) = {}
      BY <1>5, <2>2, <2>4, <3>1, <3>2, <3>3 DEF Decision, Ask
    <3>4. CASE Resolved(payload) # {} /\ ~settings.autoInit
      BY <1>1, <1>5, <2>2, <2>4, <3>1, <3>2, <3>4 DEF Decision, Ask
    <3>5. CASE Resolved(payload) # {} /\ settings.autoInit
      <4>1. PICK c \in Resolved(payload) : d = Use(c, "probe")
        BY <1>5, <2>4, <3>5 DEF Decision
      <4>2. c \in Known /\ c \in Target
        BY <2>2, <4>1, CandidatesTyped DEF Known, ClientInv, Inv
      <4>3. d.target = c
        BY <4>1, <4>2 DEF Use, Target
      <4>. QED BY <2>2, <3>1, <3>2, <4>1, <4>3 DEF Use
    <3>. QED BY <3>3, <3>4, <3>5
  <2>. QED BY <2>3, <2>4
<1>. QED BY <1>2, <1>3, <1>4, <1>5

\* Every step keeps the aim.
LEMMA OneAimNext == ClientInv /\ OneAim /\ [ClientNext]_allVars => OneAim'
<1> SUFFICES ASSUME ClientInv, OneAim, [ClientNext]_allVars, NoChoice' PROVE OneAim'
  BY DEF OneAim
<1>0. /\ run \in [Runs -> Run] /\ cache \in Target \cup {None} /\ recorded \in Target \cup {None}
      /\ \A n \in Runs : CarriedBy(run[n])
  BY DEF ClientInv, ClientTypeOK, Carried
<1>1. ASSUME UNCHANGED <<image, settings, meddled>>
      PROVE  Choices' = Choices /\ NoChoice
  BY <1>1 DEF NoChoice, Choices, ExactOnes, Candidates, Present, Detected
<1>2. ASSUME UNCHANGED <<image, settings, cache, meddled>>, NEW x
      PROVE  Meant(x)' <=> Meant(x)
  BY <1>1, <1>2 DEF Meant
<1>3. ASSUME UNCHANGED <<image, settings, cache, meddled, recorded, run>>, gdr'.adapter = gdr.adapter
      PROVE  OneAim'
  BY <1>1, <1>2, <1>3 DEF OneAim, AimedAt
<1>4. ASSUME NEW n \in Runs, NEW r, r.pc \in {"ask", "init", "verify"} => (NoChoice => AimedAt(r)),
             run' = [run EXCEPT ![n] = r],
             UNCHANGED <<image, settings, cache, meddled, recorded>>, gdr'.adapter = gdr.adapter
      PROVE  OneAim'
  <2>1. NoChoice /\ \A m \in Runs : AimedAt(run'[m])
    BY <1>0, <1>1, <1>4 DEF OneAim, AimedAt
  <2>. QED BY <1>2, <1>4, <2>1 DEF OneAim, AimedAt
<1>5. CASE StartSession
  BY <1>5 DEF StartSession, OneAim, AimedAt, IdleRun
<1>6. CASE StopTarget
  <2>1. gdr'.adapter = gdr.adapter
    BY <1>6 DEF StopTarget, OnStop, ClientInv, Inv, Sound, Session
  <2>. QED BY <1>3, <1>6, <2>1 DEF StopTarget, OnStop
<1>7. CASE Resume
  BY <1>3, <1>7 DEF Resume, vars
<1>8. CASE TypeCommand
  BY <1>8 DEF TypeCommand, NoChoice
<1>9. ASSUME NEW n \in Runs, FirstStop(n)
      PROVE  OneAim'
  BY <1>4, <1>9 DEF FirstStop, Goto, Done, IdleRun, vars
<1>10. ASSUME NEW n \in Runs, Probe(n)
       PROVE  OneAim'
  <2>1. PICK p : run' = [run EXCEPT ![n] = [run[n] EXCEPT !.pc = "decide", !.payload = p]]
    BY <1>10 DEF Probe, Goto
  <2> DEFINE r == [run[n] EXCEPT !.pc = "decide", !.payload = p]
  <2>2. r.pc = "decide"
    BY <1>0 DEF Run
  <2> HIDE DEF r
  <2>. QED BY <1>4, <1>10, <2>1, <2>2 DEF Probe, vars, r
<1>11. ASSUME NEW n \in Runs, Decide(n)
       PROVE  OneAim'
  <2> DEFINE d == Decision(run[n].payload, settings, cache)
  <2>1. /\ d.kind = "ask" => \A o \in d.options : Meant(o)
        /\ d.kind = "init" => Meant(d.target)
    BY <1>0, <1>11, DecisionIsMeant DEF Decide, CarriedBy
  <2>2. \/ Done(n)
        \/ d.kind = "ask" /\ Goto(n, [IdleRun EXCEPT !.pc = "ask", !.options = d.options])
        \/ d.kind = "init" /\ Goto(n, [IdleRun EXCEPT !.pc = "init", !.target = d.target, !.source = d.source])
    <3>1. d.kind \in {"none", "ask", "init"}
      BY DEF Decision, Use, Ask
    <3>. QED BY <1>11, <3>1 DEF Decide
  <2>3. UNCHANGED <<image, settings, cache, meddled, recorded, gdr>>
    BY <1>11 DEF Decide, vars
  <2> HIDE DEF d
  <2>4. CASE Done(n)
    BY <1>4, <2>3, <2>4 DEF Done, Goto, IdleRun
  <2>5. CASE d.kind = "ask" /\ Goto(n, [IdleRun EXCEPT !.pc = "ask", !.options = d.options])
    <3>1. AimedAt([IdleRun EXCEPT !.pc = "ask", !.options = d.options])
      BY <2>1, <2>5 DEF AimedAt, IdleRun
    <3>. QED BY <1>4, <2>3, <2>5, <3>1 DEF Goto
  <2>6. CASE d.kind = "init" /\ Goto(n, [IdleRun EXCEPT !.pc = "init", !.target = d.target, !.source = d.source])
    <3>1. AimedAt([IdleRun EXCEPT !.pc = "init", !.target = d.target, !.source = d.source])
      BY <2>1, <2>6 DEF AimedAt, IdleRun
    <3>. QED BY <1>4, <2>3, <2>6, <3>1 DEF Goto
  <2>. QED BY <2>2, <2>4, <2>5, <2>6
<1>12. ASSUME NEW n \in Runs, Pick(n)
       PROVE  OneAim'
  <2>1. UNCHANGED <<image, settings, cache, meddled, recorded, gdr>> /\ run[n].pc = "ask"
    BY <1>12 DEF Pick, vars
  <2>2. CASE Done(n)
    BY <1>4, <2>1, <2>2 DEF Done, Goto, IdleRun
  <2>3. CASE \E o \in run[n].options :
               Goto(n, [IdleRun EXCEPT !.pc = "init", !.target = o, !.source = "probe"])
    <3>1. PICK o \in run[n].options :
            Goto(n, [IdleRun EXCEPT !.pc = "init", !.target = o, !.source = "probe"])
      BY <2>3
    <3>2. NoChoice => AimedAt([IdleRun EXCEPT !.pc = "init", !.target = o, !.source = "probe"])
      BY <2>1, <3>1 DEF OneAim, AimedAt, IdleRun
    <3>. QED BY <1>4, <2>1, <3>1, <3>2 DEF Goto
  <2>. QED BY <1>12, <2>2, <2>3 DEF Pick
<1>13. ASSUME NEW n \in Runs, EvaluateInit(n)
       PROVE  OneAim'
  <2> DEFINE t == run[n].target
  <2>1. t \in Target /\ run[n].pc = "init" /\ run[n].source \in Sources
    BY <1>0, <1>13 DEF EvaluateInit, CarriedBy
  <2>2. /\ gdr' \in InitOutcomes(gdr, t.rtos, t.version, FALSE, run[n].source = "settings") \/ gdr' = gdr
        /\ run' = [run EXCEPT ![n] = [run[n] EXCEPT !.pc = "verify"]]
        /\ UNCHANGED <<image, settings, recorded, cache, meddled>>
    BY <1>13 DEF EvaluateInit, Goto, InitOf
  <2>3. t.rtos \in Rtos /\ t.version \in Versions /\ (run[n].source = "settings") \in BOOLEAN
    BY <2>1 DEF Target
  <2>4. NoChoice /\ Meant(t)
    BY <1>1, <2>1, <2>2 DEF OneAim, AimedAt
  <2>5. [run[n] EXCEPT !.pc = "verify"].target = t
    BY <1>0 DEF Run
  <2>6. NoChoice => AimedAt([run[n] EXCEPT !.pc = "verify"])
    BY <1>0, <2>4, <2>5 DEF AimedAt, Run
  <2> HIDE DEF t
  <2>7. CASE gdr'.adapter = gdr.adapter
    BY <1>4, <2>2, <2>6, <2>7
  <2>8. CASE gdr'.adapter # gdr.adapter
    <3>1. gdr.adapter = None
      BY <2>2, <2>8 DEF InitOutcomes
    <3>2. gdr'.adapter.layout.rtos = t.rtos /\ gdr'.adapter.layout.version = t.version
      <4>1. Inv /\ gdr' \in InitOutcomes(gdr, t.rtos, t.version, FALSE, run[n].source = "settings")
        BY <2>2, <2>8 DEF ClientInv
      <4>2. gdr'.adapter = [layout |-> [rtos |-> t.rtos, version |-> t.version, image |-> image], note |-> Note(t.rtos)]
        BY <2>3, <2>8, <4>1, SetupIsAsked
      <4>. QED BY <4>2
    <3>3. recorded = None /\ recorded' = None
      BY <2>2, <2>4, <3>1 DEF OneAim
    <3>4. \A m \in Runs : AimedAt(run'[m])
      BY <1>0, <2>2, <2>4, <2>6 DEF OneAim
    <3>. QED BY <1>2, <2>1, <2>2, <2>4, <3>2, <3>3, <3>4 DEF OneAim, AimedAt
  <2>. QED BY <2>7, <2>8
<1>14. ASSUME NEW n \in Runs, Verify(n)
       PROVE  OneAim'
  <2> DEFINE r == [IdleRun EXCEPT !.pc = "done"]
  <2>1. /\ run' = [run EXCEPT ![n] = r] /\ run[n].pc = "verify"
        /\ UNCHANGED <<image, settings, meddled, gdr>>
    BY <1>14 DEF Verify, Done, Goto, vars
  <2>2. r.pc = "done"
    BY DEF IdleRun
  <2> HIDE DEF r
  <2>3. CASE UNCHANGED <<recorded, cache>>
    BY <1>4, <2>1, <2>2, <2>3
  <2>4. CASE gdr.adapter # None /\ recorded' = run[n].target /\ cache' = run[n].target
    <3>0. PICK t : t = run[n].target
      OBVIOUS
    <3>1. t \in Target /\ NoChoice /\ Meant(t)
      BY <1>0, <1>1, <2>1, <3>0 DEF CarriedBy, OneAim, AimedAt
    <3>2. t # None /\ recorded' = t /\ cache' = t
      BY <2>4, <3>0, <3>1, ClientAssumption DEF ClientAssumption
    <3>3. \A x \in Target : Meant(x) => x = t
      BY <3>1, MeantIsOne
    <3>4. Meant(t)'
      BY <2>1, <3>1, <3>2 DEF Meant
    <3>5. \A x \in Target : Meant(x) => Meant(x)'
      BY <3>3, <3>4
    <3>6. \A o \in Known : o \in Target
      BY CandidatesTyped DEF ClientInv, Inv
    <3>7. ASSUME NEW m \in Runs
          PROVE  AimedAt(run[m])'
      <4>1. CASE m = n
        <5>1. run'[m].pc = "done"
          BY <1>0, <2>1, <2>2, <4>1
        <5>. QED BY <5>1 DEF AimedAt
      <4>2. CASE m # n
        <5>1. run'[m] = run[m] /\ AimedAt(run[m]) /\ CarriedBy(run[m])
          BY <1>0, <2>1, <3>1, <4>2 DEF OneAim
        <5>2. run[m].pc = "ask" => \A o \in run[m].options : Meant(o)'
          BY <3>5, <3>6, <5>1 DEF AimedAt, CarriedBy
        <5>3. run[m].pc \in {"init", "verify"} => Meant(run[m].target)'
          <6>1. PICK x : x = run[m].target
            OBVIOUS
          <6>2. run[m].pc \in {"init", "verify"} => Meant(x)'
            BY <3>5, <5>1, <6>1 DEF AimedAt, CarriedBy
          <6>3. run'[m].target = x
            BY <5>1, <6>1
          <6>. QED BY <6>1, <6>2, <6>3
        <5>. QED BY <5>1, <5>2, <5>3 DEF AimedAt
      <4>. QED BY <4>1, <4>2
    <3>8. gdr'.adapter # None =>
            \E x \in Target : /\ Meant(x)'
                              /\ gdr'.adapter.layout.rtos = x.rtos /\ gdr'.adapter.layout.version = x.version
      BY <2>1, <3>1, <3>5 DEF OneAim
    <3>. QED BY <2>1, <2>4, <3>2, <3>4, <3>7, <3>8 DEF OneAim
  <2>. QED BY <1>14, <2>3, <2>4 DEF Verify, Verified
<1>15. CASE UNCHANGED allVars
  BY <1>3, <1>15 DEF allVars, clientVars, vars
<1>. QED BY <1>5, <1>6, <1>7, <1>8, <1>9, <1>10, <1>11, <1>12, <1>13, <1>14, <1>15
     DEF ClientNext, Advance

\* What the extension takes for initialized is what is active, for any
\* overlapping runs, unless the user interfered or had more than one version
\* to pick from.
THEOREM RecordedStaysActive == ClientSpec => []RecordedIsActive
<1>1. ClientInit => OneAim
  BY ClientAssumption DEF ClientInit, Init, OneAim, AimedAt, IdleRun
<1>2. ClientInv /\ OneAim => RecordedIsActive
  <2> SUFFICES ASSUME ClientInv, OneAim, recorded # None, NoChoice
               PROVE  /\ gdr.adapter # None
                      /\ gdr.adapter.layout.rtos = recorded.rtos
                      /\ gdr.adapter.layout.version = recorded.version
    BY DEF RecordedIsActive, NoChoice
  <2>1. recorded \in Target
    BY DEF ClientInv, ClientTypeOK
  <2>. QED BY <2>1, MeantIsOne DEF OneAim
<1>. QED BY <1>1, <1>2, OneAimNext, ClientIsSound, PTL DEF ClientSpec
=============================================================================
