---------------------------- MODULE MCIndexFile ----------------------------
(* IndexFile on a few sets of references, all but two dimensions zero.     *)
EXTENDS IndexFile

GivenRow(a, b, label) ==
  [vector |-> [d \in 1..Dims |-> IF d = 1 THEN a ELSE IF d = 6 THEN b ELSE 0],
   label |-> label]

(* A grid, its last row twice, with more values than FewValues and the     *)
(* sentinel.                                                               *)
Grid ==
  [i \in 1..20 |->
     GivenRow((i - 1) % 4, <<-4, 0, 2, 4, 4>>[(i - 1) \div 4 + 1],
         IF i \in {1, 4, 11, 16} THEN "fraud" ELSE "legit")]

(* Most references are equal; few values, in one scale next to each other. *)
Crowd ==
  [i \in 1..13 |->
     GivenRow(IF i <= 4 THEN 4 ELSE 1, IF i = 13 THEN -4 ELSE IF i <= 7 THEN 2 ELSE 3,
         IF i % 2 = 0 THEN "fraud" ELSE "legit")]

(* Too few for a tree; none; and one with a dimension missing.             *)
Few == <<GivenRow(1, 2, "fraud"), GivenRow(3, -4, "legit"), GivenRow(3, 0, "legit")>>
Short == <<GivenRow(1, 2, "fraud"), [vector |-> <<1>>, label |-> "legit"]>>

Given(rows, leafSize, scale) == [rows |-> rows, leafSize |-> leafSize, scale |-> scale]

(* A second run finds the file of the first in whatever state it is.       *)
MCInputs ==
  << {Given(Grid, 1, 10), Given(Grid, 64, 10), Given(Crowd, 1, 10), Given(Crowd, 64, 7),
      Given(Few, 64, 10), Given(<< >>, 64, 10), Given(Short, 64, 10)},
     {Given(Few, 64, 10)} >>
=============================================================================
