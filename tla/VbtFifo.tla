------------------------------- MODULE VbtFifo -------------------------------
(***************************************************************************)
(* What a queue of the system promises its reader: items arrive in the     *)
(* order they were offered, each at most once and never in part.  An item  *)
(* is refused only if Room items are left waiting, and what waits is lost  *)
(* only from the end of the queue, when the queue is cut (a closed socket, *)
(* a device reset).  Items are numbered in the order they are offered, so  *)
(* that a queue is a set of numbers, the lowest at its head.               *)
(***************************************************************************)
EXTENDS Integers, FiniteSets

CONSTANT Room      \* items that always fit

VARIABLES
  queue,     \* the items that wait
  offered,   \* number of the last item offered
  taken,     \* number of the last item the reader took
  cuts       \* flips when the queue is cut

vars == <<queue, offered, taken, cuts>>

Init == queue = {} /\ offered = 0 /\ taken = 0 /\ cuts \in BOOLEAN

Before(S, T) == \A i \in S, j \in T : i < j

\* One step of the writer and the reader: some of the items now offered are accepted
\* behind those that wait, the reader takes the first of them all, one after the
\* other, and the last of them are lost with a cut.
Pass(accepted, read, lost) ==
  /\ queue' = (queue \cup accepted) \ (read \cup lost)
  /\ Before(read, queue') /\ Before(read, lost) /\ Before(queue', lost)
  /\ IF read = {} THEN taken' = taken ELSE taken' \in read /\ \A i \in read : i <= taken'
  /\ lost # {} => cuts' # cuts
  /\ accepted # offered + 1 .. offered' => Cardinality(queue') >= Room

Next ==
  /\ offered' >= offered /\ cuts' \in BOOLEAN
  /\ \E accepted \in SUBSET (offered + 1 .. offered') :
       LET gone == (queue \cup accepted) \ queue'
       IN  \E read \in SUBSET gone : Pass(accepted, read, gone \ read)

Spec == Init /\ [][Next]_vars
=============================================================================
