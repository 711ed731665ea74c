---------------------------- MODULE AtomicFetch ----------------------------
(***************************************************************************)
(* What GdrSession.fetch promises the panel, whatever the route a payload  *)
(* takes: a fetch of a verb answers either nothing (null) or one whole     *)
(* envelope of that verb, which GDR computed between the moment the fetch  *)
(* began and the moment it answered.  The transport of Transport.tla       *)
(* (inline results, chunk frames pulled one per evaluate, files written by *)
(* $gdr_dump) is shown to implement this module.                           *)
(***************************************************************************)
EXTENDS Naturals

CONSTANTS
  Fetchers,   \* the concurrent fetches of the extension host
  Keys,       \* what a fetch asks for: a verb and its arguments
  VerbOf,     \* VerbOf[k]: the verb of key k
  Envelopes,  \* every envelope; a record with fields key and generation
  Null        \* a fetch that answered with no envelope

VARIABLES
  generation, \* GDR's session generation (gdr.api._generation)
  phase,      \* phase[f]: "idle", "busy" or "answered"
  asked,      \* asked[f]: the key f fetches, Null when idle
  began,      \* began[f]: the generation when f's fetch began
  answer      \* answer[f]: what the fetch answered

vars == <<generation, phase, asked, began, answer>>

Init ==
  /\ generation = 0
  /\ phase = [f \in Fetchers |-> "idle"]
  /\ asked = [f \in Fetchers |-> Null]
  /\ began = [f \in Fetchers |-> 0]
  /\ answer = [f \in Fetchers |-> Null]

\* A stop or an objfile load; it may land in the middle of any fetch.
NextGeneration ==
  /\ generation' = generation + 1
  /\ UNCHANGED <<phase, asked, began, answer>>

Begin(f, k) ==
  /\ phase[f] = "idle"
  /\ phase' = [phase EXCEPT ![f] = "busy"]
  /\ asked' = [asked EXCEPT ![f] = k]
  /\ began' = [began EXCEPT ![f] = generation]
  /\ answer' = [answer EXCEPT ![f] = Null]
  /\ UNCHANGED generation

\* What a fetch may answer with.
Admissible(f, a) ==
  \/ a = Null
  \/ /\ a \in Envelopes
     /\ VerbOf[a.key] = VerbOf[asked[f]]
     /\ a.generation \in began[f]..generation

Return(f) ==
  /\ phase[f] = "busy"
  /\ phase' = [phase EXCEPT ![f] = "answered"]
  /\ Admissible(f, answer'[f])
  /\ answer' = [answer EXCEPT ![f] = answer'[f]]
  /\ UNCHANGED <<generation, asked, began>>

Consume(f) ==
  /\ phase[f] = "answered"
  /\ phase' = [phase EXCEPT ![f] = "idle"]
  /\ asked' = [asked EXCEPT ![f] = Null]
  /\ began' = [began EXCEPT ![f] = 0]
  /\ answer' = [answer EXCEPT ![f] = Null]
  /\ UNCHANGED generation

Next ==
  \/ NextGeneration
  \/ \E f \in Fetchers : \/ \E k \in Keys : Begin(f, k)
                         \/ Return(f)
                         \/ Consume(f)

Spec == Init /\ [][Next]_vars

=============================================================================
