------------------------------- MODULE Lists -------------------------------
(***************************************************************************)
(* What the code does to a list: it filters the list, keeps of each entry  *)
(* the first one, and cuts the list.  Recursion is by functions, over      *)
(* which induction can be stated.                                          *)
(***************************************************************************)
EXTENDS Integers, Sequences

\* SelectSeq, the elements to keep being chosen by their places in s.
Chosen(s, places) ==
    LET f[i \in 0 .. Len(s)] ==
            IF i = 0 THEN <<>> ELSE IF i \in places THEN Append(f[i - 1], s[i]) ELSE f[i - 1]
    IN f[Len(s)]

\* Of equal elements the first.
Once(s) == Chosen(s, {i \in DOMAIN s : \A j \in 1 .. (i - 1) : s[j] # s[i]})

\* At most n elements.
First(s, n) == SubSeq(s, 1, IF Len(s) < n THEN Len(s) ELSE n)
=============================================================================
