--------------------------- MODULE MCCollections ---------------------------
EXTENDS Collections

A == <<0>>
B == <<1>>
C == <<1, 0>>
MCListItems == {A, B, C}
=============================================================================
