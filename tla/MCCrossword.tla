----------------------------- MODULE MCCrossword -----------------------------
(* An instance of Crossword for TLC: the lists of three short answers, and    *)
(* lists of four.                                                             *)
EXTENDS Crossword

CONSTANTS a, b, c, d

Short == {<<a, b>>, <<b, c>>, <<c, d>>, <<a, b, a>>, <<b, d, c>>, <<a, c, b>>}
Four  == {<<<<a, b>>, <<c, d>>, <<a, c>>, <<b, d>>>>,             \* a full square
          <<<<a, b, c>>, <<a, d, b>>, <<c, d, a>>, <<b, d, c>>>>,   \* a ring
          <<<<a, b, c>>, <<b, d>>, <<d, c>>, <<c, a, a>>>>}
Lists == {<<x, y, z>> : x, y, z \in Short} \cup Four

=============================================================================
