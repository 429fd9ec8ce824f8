--------------------------- MODULE MCSummaryTable ---------------------------
\* Instances of SummaryTable for TLC.
EXTENDS SummaryTable, TLC

CONSTANTS i1, i2

MCInfos == {i1, i2}
MCContents == {"a"}
Symmetry == Permutations(MCInfos)
=============================================================================
