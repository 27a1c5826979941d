--------------------------- MODULE DurableConfig ---------------------------
(***************************************************************************)
(* What the configuration store promises, without files, locks or threads: *)
(* one configuration in memory while some panel process runs, one saved.   *)
(* Saving is a single step and takes what is in memory at that moment, so  *)
(* memory is never behind what a restart would bring, and nobody ever      *)
(* reads a configuration that was not complete.                            *)
(***************************************************************************)
CONSTANTS
  Config,    \* configurations
  Missing,   \* nothing was ever saved
  None,      \* no process runs
  Restored   \* function: the configuration a process starts with, from what is saved

VARIABLES memory, saved

Init == memory = None /\ saved \in Config \cup {Missing}

Start ==
  /\ memory = None
  /\ memory' = Restored[saved]
  /\ UNCHANGED saved

\* A request changes the configuration; it may or may not be saved later.
Change ==
  /\ memory # None
  /\ memory' \in Config
  /\ UNCHANGED saved

Persist ==
  /\ memory # None
  /\ saved' = memory
  /\ UNCHANGED memory

\* The process ends or dies; what was not saved is lost.
Stop ==
  /\ memory # None
  /\ memory' = None
  /\ UNCHANGED saved

Next == Start \/ Change \/ Persist \/ Stop

Spec == Init /\ [][Next]_<<memory, saved>>
=============================================================================
