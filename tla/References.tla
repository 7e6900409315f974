----------------------------- MODULE References -----------------------------
(***************************************************************************)
(* What the reference counts of the content-addressed store promise,       *)
(* whoever asks and however often: a holder takes at most one reference    *)
(* ever, each operation that gives a reference back does so at most once,  *)
(* and nobody gives back what is not counted.                              *)
(***************************************************************************)
EXTENDS Integers, FiniteSets

CONSTANTS Holders,    \* who may hold a reference
          Contents,   \* what is shared
          Releases    \* the operations that give a reference back

VARIABLES count,      \* references to each content
          taken,      \* the holders that have taken theirs
          returned    \* the operations that have been applied

referenceVars == <<count, taken, returned>>

\* The holders there are from the start share one content.
Init ==
    /\ taken \in SUBSET Holders /\ returned = {}
    /\ \E c \in Contents :
          count = [d \in Contents |-> IF d = c THEN Cardinality(taken) ELSE 0]

Take(h, c) ==
    /\ h \notin taken
    /\ count' = [count EXCEPT ![c] = @ + 1] /\ taken' = taken \cup {h}
    /\ UNCHANGED returned

Return(op, h, c) ==
    /\ <<op, h>> \notin returned /\ count[c] > 0
    /\ count' = [count EXCEPT ![c] = @ - 1] /\ returned' = returned \cup {<<op, h>>}
    /\ UNCHANGED taken

Next == \E h \in Holders, c \in Contents : Take(h, c) \/ \E op \in Releases : Return(op, h, c)

Spec == Init /\ [][Next]_referenceVars
=============================================================================
