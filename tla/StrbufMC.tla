------------------------------ MODULE StrbufMC ------------------------------
(* A small instance of Strbuf.                                             *)
EXTENDS Strbuf

CONSTANTS x, y   \* characters

\* A character, and a text that needs two doublings of size 1.
ShortTexts == {<<x>>, <<x, y, x>>}
=============================================================================
