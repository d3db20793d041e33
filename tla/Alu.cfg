\* Four-bit words: every sign, carry and overflow case of a 32-bit word,
\* and one-bit byte lanes for the unaligned patches.
CONSTANT Width = 4
SPECIFICATION Spec
INVARIANTS TypeOK HiLoIsIsa OverflowMatchesIsa CountLeadingMatchesIsa LoadsMatchIsa UnalignedStorePair BranchMatchesIsa
\* A DIV of the most negative word by -1 may kill the host process with a
\* division trap; the simulator then stops.
CHECK_DEADLOCK FALSE
