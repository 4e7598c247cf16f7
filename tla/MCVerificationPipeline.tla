------------------------ MODULE MCVerificationPipeline ------------------------
(* A small instance of VerificationPipeline: two ids, one of which a hard, a soft and a
   learned rule share. *)
EXTENDS VerificationPipeline, TLC

CONSTANTS t1, t2, good, bad

TwoThreads == {t1, t2}
TwoContents == {good, bad}

Rule(id, type, fails) == [id |-> id, type |-> type, fails |-> fails]

SharedIds == {Rule("shared", "hard", {bad}), Rule("shared", "soft", {}),
              Rule("shared", "learned", {good}), Rule("other", "hard", {bad}),
              Rule("other", "soft", {good})}

Symmetry == Permutations(TwoThreads)
=============================================================================
