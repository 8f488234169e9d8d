---------------------------- MODULE MCGuessWord ----------------------------
(* Four users; a dictionary with words of two lengths. The users type one of *)
(* them in another case, or another word of one letter.                      *)
EXTENDS GuessWord

\* Characters: 0 newline, 1.. lower-case letters, 11.. the same in upper case.
MCToLower == [x \in 0..12 |-> x % 10]
MCDictionary == {<<1, 2, 0, 1>>, <<2>>}
MCLines == {<<11, 2, 0>>, <<1, 0>>}
============================================================================
