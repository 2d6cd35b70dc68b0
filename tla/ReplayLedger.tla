---------------------------- MODULE ReplayLedger ----------------------------
(***************************************************************************)
(* What the replay of a set of runtimes promises, whichever workers run    *)
(* it: the committed evaluations form one log, to which every step adds    *)
(* one.  A runtime's evaluations are its interval closes, each once and in *)
(* order; those of the runtimes that share the paper account are in the    *)
(* order of their closes, ties in the order of the runtimes' ids.          *)
(***************************************************************************)
EXTENDS Integers, Sequences, SequencesExt

CONSTANTS
    Runtimes,   \* runtime ids: numbers, their order breaks ties
    Paper,      \* the runtimes that execute on the paper account
    OpenAt,     \* OpenAt[r]: open of r's replay window
    CloseAt,    \* CloseAt[r]: its last interval close
    Timeframe   \* Timeframe[r]: length of r's interval

VARIABLE log    \* committed evaluations, oldest first

(* Close b of runtime r comes before close c of runtime s. *)
Earlier(b, r, c, s) == b < c \/ (b = c /\ r < s)

(* The closes of r that are evaluated, and the one that follows them. *)
Done(r) == {e.boundary : e \in {f \in ToSet(log) : f.runtime = r}}
IsNext(r, b) ==
    /\ b = OpenAt[r] + Timeframe[r] \/ b - Timeframe[r] \in Done(r)
    /\ \A c \in Done(r) : c < b

Commit(r) ==
    \E b \in (OpenAt[r] + 1)..CloseAt[r] :
       /\ IsNext(r, b)
       /\ r \in Paper =>
            \A e \in ToSet(log) :
               e.runtime \in Paper => Earlier(e.boundary, e.runtime, b, r)
       /\ log' = Append(log, [runtime |-> r, boundary |-> b])

Init == log = <<>>
Next == \E r \in Runtimes : Commit(r)
Spec == Init /\ [][Next]_log
=============================================================================
