---------------------------- MODULE MCEmission ----------------------------
EXTENDS Emission

MCNums     == -1..1
MCStraight == {[op |-> "ldcst", cst |-> Num(0)]}

\* A function of up to four instructions or branches and their ends, between
\* two without statements.
MCMaxPc == <<12, 43, 12>>
=============================================================================
