--------------------------- MODULE MCDatasetSplit ---------------------------
(* An instance of DatasetSplit for TLC: a source of two files with labels *)
(* two and one rows of a label and a row to drop, one with a single label,  *)
(* one without a valid row, and a raw table.                                *)
EXTENDS DatasetSplit

CONSTANTS a, b, c

MCPrepared == [mixed |-> << <<a, BadLabel, b>>, <<b, a, b>> >>, single |-> << <<a, c>> >>,
               empty |-> << <<BadLabel>> >>]
MCRaw == [raw |-> << <<1, a>>, <<1, a>>, <<2, a>>, <<3, BadLabel>> >>]
MCTestSizes == {<<1, 5>>, <<1, 2>>, <<4, 5>>}
=============================================================================
