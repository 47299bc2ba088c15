------------------------------ MODULE MCSetup ------------------------------
EXTENDS Setup, TLC

CONSTANTS p1, p2

Paragraphs == <<"one", "two">>
OneParagraph == <<"one">>
Twins == Permutations(Run)
=============================================================================
