----------------------------- MODULE MCMatching -----------------------------
(***************************************************************************)
(* Finite instances of Matching: four cells, of which the man's and the    *)
(* woman's are as far apart as may be, the visitor's is one ring further   *)
(* from hers, and h3.GridDistance fails between hers and the student's.    *)
(* The student accepts neither of the two men, who accept her.  Some       *)
(* client spells the woman's cell in a way of its own.                     *)
(***************************************************************************)
EXTENDS Matching, TLC

MCCell == {"here", "edge", "side", "beyond"}

\* Each cell's printed text is its name; one cell has another spelling.
MCText == MCCell \cup {"EDGE"}
MCCellFromString == [t \in MCText |-> IF t = "EDGE" THEN "edge" ELSE t]
MCString == [x \in MCCell |-> x]

MCDistance ==
  [xy \in MCCell \X MCCell |->
     CASE xy[1] = xy[2] -> 0
       [] "side" \in {xy[1], xy[2]} /\ xy[1] # xy[2] -> 3
       [] {xy[1], xy[2]} = {"here", "edge"} -> 5
       [] {xy[1], xy[2]} = {"edge", "beyond"} -> 6
       [] {xy[1], xy[2]} = {"here", "beyond"} -> 1]
MCMeasurable == {xy \in MCCell \X MCCell : {xy[1], xy[2]} # {"edge", "side"}}

man == [locationH3 |-> "here", gender |-> "M", seeking |-> "F",
        age |-> 40, ageMin |-> 25, ageMax |-> 45]
visitor == [man EXCEPT !.locationH3 = "beyond"]
woman == [locationH3 |-> "edge", gender |-> "F", seeking |-> "any",
          age |-> 30, ageMin |-> 25, ageMax |-> 50]
spelled == [woman EXCEPT !.locationH3 = "EDGE"]
student == [locationH3 |-> "side", gender |-> "F", seeking |-> "any",
            age |-> 25, ageMin |-> 20, ageMax |-> 35]
enby == [woman EXCEPT !.gender = "NB"]

MCTwoProfiles == {man, woman}
MCSpelledProfiles == {man, spelled}
MCFourProfiles == {man, visitor, spelled, student}
MCNonBinaryProfiles == {man, enby}

MCSymmetry == Permutations(User) \cup Permutations(Request)

=============================================================================
