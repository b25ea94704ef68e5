------------------------------ MODULE RWMutex -------------------------------
(***************************************************************************)
(* sync.RWMutex, as encoder.go uses it.  A writer that has called Lock     *)
(* holds back every later RLock; it enters once the readers that were      *)
(* inside have left.  Unlock lets in all the readers that wait, before any *)
(* other writer.                                                           *)
(***************************************************************************)
EXTENDS FiniteSets

CONSTANTS
  Procs, \* goroutines
  None   \* no goroutine

ASSUME NoneAssumption == None \notin Procs

VARIABLES
  readers, \* goroutines that hold the read lock
  waiting, \* goroutines blocked in RLock behind a writer
  writer   \* the goroutine that is in Lock or holds the write lock, or None

rwVars == <<readers, waiting, writer>>

RWTypeOK ==
  /\ readers \subseteq Procs
  /\ waiting \subseteq Procs
  /\ writer \in Procs \cup {None}

RWInit == readers = {} /\ waiting = {} /\ writer = None

(* Mutant: readers are let in as long as the writer is still waiting.      *)
AdmitsWhileDraining == writer = None \/ readers # {}

Admits == writer = None

RLock(p) ==
  /\ readers' = IF Admits THEN readers \cup {p} ELSE readers
  /\ waiting' = IF Admits THEN waiting ELSE waiting \cup {p}
  /\ UNCHANGED writer

HoldsRead(p) == p \in readers

RUnlock(p) ==
  /\ HoldsRead(p)
  /\ readers' = readers \ {p}
  /\ UNCHANGED <<waiting, writer>>

(* Lock, up to the wait for the readers inside.                            *)
Lock(p) ==
  /\ writer = None
  /\ writer' = p
  /\ UNCHANGED <<readers, waiting>>

(* Mutant: Lock does not wait for the readers inside.                      *)
HoldsWriteUndrained(p) == writer = p

HoldsWrite(p) == writer = p /\ readers = {}

Unlock(p) ==
  /\ HoldsWrite(p)
  /\ writer' = None
  /\ readers' = waiting
  /\ waiting' = {}
=============================================================================
