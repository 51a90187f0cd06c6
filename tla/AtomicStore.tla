---------------------------- MODULE AtomicStore ----------------------------
(***************************************************************************)
(* What the cache promises to the scheduler: each collector's last good    *)
(* partial is replaced whole and at once by the next good one, and a       *)
(* failure only takes the collector's up flag away.                        *)
(***************************************************************************)
CONSTANTS Collectors, Items

VARIABLES
    parts,   \* the last good partial of each collector, {} before the first
    up       \* whether its last recorded attempt succeeded

Init ==
    /\ parts = [c \in Collectors |-> {}]
    /\ up = [c \in Collectors |-> FALSE]

Publish(c, p) ==
    /\ parts' = [parts EXCEPT ![c] = p]
    /\ up' = [up EXCEPT ![c] = TRUE]

RecordFailure(c) ==
    /\ up' = [up EXCEPT ![c] = FALSE]
    /\ UNCHANGED parts

Next == \E c \in Collectors : RecordFailure(c) \/ \E p \in SUBSET Items : Publish(c, p)

Spec == Init /\ [][Next]_<<parts, up>>
=============================================================================
