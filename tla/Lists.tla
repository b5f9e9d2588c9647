--------------------------------- MODULE Lists ---------------------------------
(***************************************************************************)
(* What a list comprehension with a condition keeps of a list, as the stores  *)
(* remove an id from the lists they keep (run_store.py, interrupts.py).       *)
(***************************************************************************)
EXTENDS Naturals, Sequences

(* The entries of a sequence at some of its positions, in their order; a       *)
(* function, which proofs can look into, as they cannot into SelectSeq.        *)
Selected(seq, positions) ==
  LET upTo[n \in 0 .. Len(seq)] ==
        IF n = 0 THEN <<>>
        ELSE IF n \in positions THEN Append(upTo[n - 1], seq[n]) ELSE upTo[n - 1]
  IN upTo[Len(seq)]
=============================================================================
