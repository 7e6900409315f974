---------------------------- MODULE MCCasJournal ----------------------------
(* Small instance of CasJournal for TLC. *)
EXTENDS CasJournal, TLC

Symmetry == Permutations(Actors)

\* Only differences of times matter: two states that differ by a shift of the
\* clock, or in instants that have passed, have the same future.
Left(t) == IF t >= now THEN t - now ELSE -1

Journaled(d) == [d EXCEPT !.intents = {[i EXCEPT !.recoverAfter = Left(@)] : i \in @}]

Relative == <<size, physical, {[r EXCEPT !.until = Left(@)] : r \in wire},
              Journaled(db), Journaled(aof), fence, lease, pc,
              [a \in Actors |-> [loc[a] EXCEPT !.until = Left(@), !.deadline = Left(@)]],
              uuid, faults>>
=============================================================================
