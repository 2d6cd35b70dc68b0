--------------------------- MODULE CandleJournal ---------------------------
(***************************************************************************)
(* What the evaluation of provider candles promises of one runtime: the    *)
(* candles of the series are entered into the journal one after the other, *)
(* each at most once, and none is passed over.  A decision moves the       *)
(* cursor to its candle.  A candle that is too old, or lies outside the    *)
(* session, is noted without moving the cursor, and nothing follows it.    *)
(***************************************************************************)
EXTENDS Naturals

CONSTANTS
    Candles,    \* 1..n: the candle with number c closes at time c
    Absent      \* the candles the provider's series lacks

VARIABLES
    cursor,     \* the last candle decided, 0 when there is none
    journal     \* journal[c]: what was entered for candle c

Decisions == {"NO_TRIGGER", "REJECTED", "ENTRY", "NOTHING_OPEN", "EXIT"}
Notes == {"PRICE_STALE", "MARKET_CLOSED"}

(* The candle after the cursor; the first one of the series at the start. *)
IsNext(c) ==
    /\ c \notin Absent
    /\ IF cursor = 0 THEN \A d \in Candles : d < c => d \in Absent
                     ELSE c = cursor + 1

Enter(c, what) ==
    /\ IsNext(c)
    /\ journal[c] = "NONE"
    /\ journal' = [journal EXCEPT ![c] = what]

Decide(c) == \E what \in Decisions : Enter(c, what) /\ cursor' = c
Note(c) == \E what \in Notes : Enter(c, what) /\ UNCHANGED cursor

Init == cursor = 0 /\ journal = [c \in Candles |-> "NONE"]
Next == \E c \in Candles : Decide(c) \/ Note(c)
Spec == Init /\ [][Next]_<<cursor, journal>>
=============================================================================
