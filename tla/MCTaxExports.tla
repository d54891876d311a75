---------------------------- MODULE MCTaxExports ----------------------------
(* Small instances of TaxExports for TLC. *)
EXTENDS TaxExports, TLC

CONSTANTS c1, c2, c3, x1, x2, o1, a, b

TwoCalculations   == {c1, c2}
ThreeCalculations == {c1, c2, c3}
TwoExporters      == {x1, x2}
BothKinds         == {"tax_journal_csv", "annual_summary_csv"}

AnyRequest == Permutations(Calculations) \cup Permutations(Exporters) \cup Permutations(Rules)
=============================================================================
