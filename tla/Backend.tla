--------------------------------- MODULE Backend ---------------------------------
(***************************************************************************)
(* What the modules about the smaller services share: each handler runs in *)
(* a worker with a database session of its own, and may be lost between    *)
(* any two of its writes.                                                  *)
(***************************************************************************)
EXTENDS Integers, Sequences, FiniteSets

CONSTANTS
    None,           \* SQL NULL, a missing key, Python's None
    Requests        \* requests that can be open at the same time
=============================================================================
