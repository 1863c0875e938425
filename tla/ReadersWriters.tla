--------------------------- MODULE ReadersWriters ---------------------------
(***************************************************************************)
(* What a read_write_mutex promises: any number of threads up to max_locks *)
(* may read, one may write, and while it does nobody reads.                *)
(***************************************************************************)
EXTENDS Naturals, FiniteSets

CONSTANTS Threads, max_locks

VARIABLES readers, writers

Init == readers = {} /\ writers = {}

StartReading(t) ==
    /\ writers = {}
    /\ t \notin readers
    /\ Cardinality(readers) < max_locks
    /\ readers' = readers \cup {t}
    /\ UNCHANGED writers

StartWriting(t) ==
    /\ readers = {} /\ writers = {}
    /\ writers' = {t}
    /\ UNCHANGED readers

Stop(t) ==
    /\ t \in readers \cup writers
    /\ readers' = readers \ {t}
    /\ writers' = writers \ {t}

Next == \E t \in Threads : StartReading(t) \/ StartWriting(t) \/ Stop(t)

Spec == Init /\ [][Next]_<<readers, writers>>
=============================================================================
