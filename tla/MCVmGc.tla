-------------------------------- MODULE MCVmGc --------------------------------
(* Texts for the memory of a VM.                                              *)
EXTENDS VmGc

\* "!\1" and "B\2" have one hash; a long string is never pooled.
Colliding == {<<33, 1>>, <<66, 2>>, <<97, 97, 97>>}
\* The empty string and "\1" have one hash, and one begins the other.
Beginning == {<<>>, <<1>>}
\* These have one hash and differ behind a NUL.
BehindNul == {<<0, 220>>, <<0, 227>>}
MCTexts == Colliding \cup Beginning \cup BehindNul
=============================================================================
