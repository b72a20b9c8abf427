------------------------------ MODULE MCMemories ------------------------------
(* What one user says: a name three times over, once in a text too long to *)
(* be remembered, next to something liked and something that is not to be  *)
(* kept; and what only the model may find a name in.                       *)
EXTENDS Memories

CONSTANTS s1, s2

Says(fits) == [question |-> FALSE, fits |-> fits]

Said ==
  { Says("remember_name" :> "long" @@ "call" :> "plain" @@ "name" :> "plain"
         @@ "like" :> "plain" @@ "dislike" :> "unfit"),
    Says(<< >>) }

Name == "identity.display_name"
Guess(sure) == [id |-> "llm", key |-> Name, source |-> "observed", sure |-> sure]
Symmetry == Permutations(Slots)
Guesses == {<<Guess(TRUE)>>}

(* The hypothesis of the theorem on what is recalled.                      *)
ASSUME SaidIsStored == Extracts
=============================================================================
