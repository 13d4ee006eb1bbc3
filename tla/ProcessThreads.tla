--------------------------- MODULE ProcessThreads ---------------------------
(* The threads of one process, which share its Health and its Registry.     *)
CONSTANTS
    Threads,
    None            \* Option::None
=============================================================================
