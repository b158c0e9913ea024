--------------------------- MODULE ReadersWriters ---------------------------
(***************************************************************************)
(* What a readers-writer lock promises: any number of threads hold it for  *)
(* reading, or one thread holds it for writing.                            *)
(***************************************************************************)
CONSTANT Thread

VARIABLES reading, writing   \* the threads that hold the lock

rwVars == <<reading, writing>>

RWInit == reading = {} /\ writing = {}

AcquireRead(t) ==
  /\ writing = {}
  /\ t \notin reading
  /\ reading' = reading \cup {t}
  /\ UNCHANGED writing

AcquireWrite(t) ==
  /\ reading = {} /\ writing = {}
  /\ writing' = {t}
  /\ UNCHANGED reading

Release(t) ==
  /\ t \in reading \cup writing
  /\ reading' = reading \ {t}
  /\ writing' = writing \ {t}

RWNext == \E t \in Thread : AcquireRead(t) \/ AcquireWrite(t) \/ Release(t)

RWSpec == RWInit /\ [][RWNext]_rwVars
=============================================================================
