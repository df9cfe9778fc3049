--------------------------- MODULE MCMappingRounds ----------------------------
(***************************************************************************)
(* A workbook with two rows of one key, a GMV row whose label looks like   *)
(* revenue to the embedding, a row on a sheet whose name has a "!", and    *)
(* equal row numbers on different sheets; two identities that may lack a   *)
(* concept at once, and a finding that may ask.                            *)
(***************************************************************************)
EXTENDS MappingRounds

Line(s, r, l) == [sheet |-> s, row |-> r, label |-> l, parent |-> ""]

Rows == <<Line("a", 2, "GMV"), Line("b", 2, "Sales (net)"), Line("b", 3, "sales"),
          Line("c!", 3, "other")>>

Lower(label) ==
  CASE label = "Sales (net)" -> "sales"
    [] label = "GMV"         -> "gmv"
    [] OTHER                 -> label

Concepts == <<"pnl.revenue", "pnl.gmv">>

Similar == [l \in {Rows[i].label : i \in DOMAIN Rows} |-> Concepts]

Sure == {"GMV", "sales"}

Rules == <<[has |-> {"pnl.gmv"}, lacks |-> {}, needs |-> {"pnl.revenue"}],
           [has |-> {}, lacks |-> {}, needs |-> {"pnl.revenue", "pnl.gmv"}]>>

Title == [sheet |-> "a", row |-> 1]

Outliers == <<{[sheet |-> "b", row |-> 2]}>>

NoEntries == [k \in Keys |-> None]

Earlier == {NoEntries, [NoEntries EXCEPT ![<<"gmv", "">>] = Revenue]}
=============================================================================
