----------------------------- MODULE MCWatcher -----------------------------
EXTENDS Watcher

\* Texts of one and of two characters: in a sector of six, two entries fit and the third
\* is cut, ends on the edge or begins again at the front, as the newlines come through.
MCTextLength == [e \in 1 .. MaxEvents |-> 1 + (e % 2)]
=============================================================================
