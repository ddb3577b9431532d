--------------------------- MODULE DataBufObject ---------------------------
(***************************************************************************)
(* A DataBuf from construction to destruction, used by one thread at a     *)
(* time, as the class requires.                                            *)
(***************************************************************************)
EXTENDS DataBuf

CONSTANT Value      \* the objects that can be stored

ASSUME ValueAssumption == Raw \notin Value

VARIABLE alive      \* FALSE once ~DataBuf has run

vars == <<head, tail, storage, alive>>

Init == BufInit /\ alive = TRUE

PushStep(d) == alive /\ Push(d) /\ UNCHANGED alive

PopStep == alive /\ Pop /\ UNCHANGED alive

DestroyStep == alive /\ DestroyAll /\ alive' = FALSE

Next == PopStep \/ DestroyStep \/ \E d \in Value : PushStep(d)

Spec == Init /\ [][Next]_vars

TypeOK == BufTypeOK(Value) /\ alive \in BOOLEAN

(* Exactly the cells from head up to, but not including, tail hold a live  *)
(* object: pop and the eviction of push destroy an object exactly once,    *)
(* construct_at never overwrites one, one cell is always free, and the     *)
(* destructor leaves no constructed object behind.                         *)
CellsExact == LiveCells /\ (~alive => \A c \in Slot : storage[c] = Raw)

(* The ring read oldest first is a drop-oldest queue of Cells - 1: nothing *)
(* is lost before the ring is full, then the oldest element goes, and      *)
(* elements leave in the order in which they came.                         *)
Queue == INSTANCE DropOldestQueue
           WITH Capacity <- Cells - 1, queue <- Contents, open <- alive

ImplementsDropOldestQueue == Queue!Spec
=============================================================================
