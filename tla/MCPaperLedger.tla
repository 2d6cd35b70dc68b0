--------------------------- MODULE MCPaperLedger ----------------------------
(* Instances of PaperLedger for TLC. *)
EXTENDS PaperLedger, TLC

CONSTANTS r1, r2

(* Two replays, or a manual runtime and a replay, on one account. *)
ReplayPair == {[r \in {r1, r2} |-> "replay"]}
Mixed == ReplayPair \cup {[r \in {r1, r2} |-> IF r = r1 THEN "manual" ELSE "replay"]}

(* A quiet candle that fills one unit, a lively one that fills three. *)
Quiet  == [open |-> 990, high |-> 1010, low |-> 985, close |-> 1000, volume |-> 10, closing |-> FALSE]
Lively == [open |-> 1003, high |-> 1030, low |-> 995, close |-> 1020, volume |-> 30, closing |-> TRUE]
TwoCandles == {Quiet, Lively}

Entry == [id |-> "a", effect |-> "ENTRY", side |-> "BUY", limit |-> 1001, quantity |-> 3]
Exit  == [id |-> "b", effect |-> "EXIT", side |-> "SELL", limit |-> 1010, quantity |-> 2]
EntryAndExit == <<Entry, Exit>>
=============================================================================
