----------------------------- MODULE MCMemeStore -----------------------------
(* MemeStore on small instances: values for its record-valued constants.    *)
EXTENDS MemeStore, TLC

Option(extract, storage, dedupe, manual) ==
  [extract |-> extract, storage |-> storage, dedupe |-> dedupe, manual |-> manual]
Update(text, o, thumb) == [text |-> text, orig |-> o, thumb |-> thumb]

\* What the web application asks for, what a plain re-extraction asks for, and
\* a change of the stored artifacts alone: none checks for duplicates, and those that
\* include edited memes extract.
NoDedupe == {Option(TRUE, TRUE, FALSE, TRUE), Option(TRUE, FALSE, FALSE, FALSE),
             Option(FALSE, TRUE, FALSE, FALSE)}
ExtractOnly == {Option(TRUE, FALSE, FALSE, FALSE)}
DedupeOnly == {Option(FALSE, FALSE, TRUE, FALSE)}
NoOptions == {}

TextOnly == {Update(TRUE, None, FALSE)}
AnyUpdate == TextOnly \cup {Update(FALSE, None, TRUE)} \cup
             {Update(FALSE, f, TRUE) : f \in Files} \cup
             {Update(TRUE, f, FALSE) : f \in Files}
NoUpdates == {}

AnyOp == Operation
NoDeletion == {"create", "update", "recompute"}
CreateDelete == {"create", "delete", "wipe"}
CreateRecompute == {"create", "recompute"}

Symmetry == Permutations(Memes) \cup Permutations(Files) \cup Permutations(Procs)
=============================================================================
