----------------------------- MODULE MCScreens -----------------------------
(* Two words, "Barn" and "barge", and the texts "", "Ba" and "r": the      *)
(* first is a prefix of one word in Firestore's order and occurs in both   *)
(* when case is ignored, the second occurs in both and begins neither.     *)
EXTENDS Screens

MCRank == [w \in Word \union Text |->
    CASE w = "" -> 0 [] w = "Ba" -> 1 [] w = "Barn" -> 2 [] w = "barge" -> 4 [] w = "r" -> 5]
MCRankEnd == [t \in Text |-> CASE t = "" -> 6 [] t = "Ba" -> 3 [] t = "r" -> 6]
MCContains == Text \X Word
=============================================================================
