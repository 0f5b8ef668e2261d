--------------------------- MODULE Compatibility ---------------------------
(***************************************************************************)
(* When two availability signals may be matched.                           *)
(*                                                                         *)
(* The broker decides this twice: the periodic sweep decides it in Go over *)
(* two rows it has loaded (internal/matching/job.go), and the real-time    *)
(* path decides it in the WHERE clause of one SQL statement                *)
(* (FindCandidatesForSignal, internal/store/postgres.go).  Both decisions  *)
(* are translated here, so that they can be compared.                      *)
(*                                                                         *)
(* A signal names its cell by a text, which the broker stores as it came.  *)
(* The sweep and the validation parse it; the SQL statement compares it,   *)
(* letter by letter, with the spelling the H3 library prints.  A cell has  *)
(* other spellings that parse: upper-case digits, a prefix 0x, leading     *)
(* zeros.                                                                  *)
(*                                                                         *)
(* The H3 library is external.  Cells and texts are abstract; Distance is  *)
(* the grid distance between two cells, and Measurable holds the pairs for *)
(* which h3.GridDistance returns an answer rather than an error (it may    *)
(* fail across pentagons, where h3.GridDisk still works).  Of printing a   *)
(* cell only this is used: the text parses back to the cell.               *)
(***************************************************************************)
EXTENDS Integers

CONSTANTS
  Cell,            \* the valid H3 cells of resolution 9
  Text,            \* the texts isValidH3Resolution9 accepts
  CellFromString,  \* the cell a text names: [Text -> Cell]
  String,          \* the text the H3 library prints for a cell: [Cell -> Text]
  Distance,        \* grid distance: [Cell \X Cell -> Nat]
  Measurable       \* pairs of cells whose distance h3.GridDistance can compute

ASSUME GridAssumption ==
  /\ CellFromString \in [Text -> Cell]
  /\ String \in [Cell -> Text]
  /\ \A x \in Cell : CellFromString[String[x]] = x
  /\ Distance \in [Cell \X Cell -> Nat]
  /\ \A x, y \in Cell : Distance[<<x, y>>] = Distance[<<y, x>>]
  /\ Measurable \subseteq Cell \X Cell
  /\ \A x, y \in Cell : <<x, y>> \in Measurable => <<y, x>> \in Measurable

validGender  == {"M", "F", "NB"}
validSeeking == validGender \cup {"any"}

h3KRingRadius == 5

(***************************************************************************)
(* The columns of a signal that matching reads.  A request that fails      *)
(* ValidateSignalRequest is answered 400 and never stored, so every stored *)
(* signal has a profile that satisfies ValidProfile.                       *)
(***************************************************************************)
ProfileRecord ==
  [locationH3 : Text, gender : validGender, seeking : validSeeking,
   age : Nat, ageMin : Nat, ageMax : Nat]

ValidProfile(p) ==
  /\ p \in ProfileRecord
  /\ p.ageMin >= 18 /\ p.ageMax <= 120 /\ p.ageMin <= p.ageMax
  /\ p.age >= 18 /\ p.age <= 120

-----------------------------------------------------------------------------
(* The sweep's decision, in Go. *)

\* Mutant: the error of h3.GridDistance is not looked at, and its distance is 0.
geographicallyCloseErrIgnored(t, s) ==
  LET ends == <<CellFromString[t], CellFromString[s]>> IN
  ends \in Measurable => Distance[ends] <= h3KRingRadius

geographicallyClose(t, s) ==
  LET ends == <<CellFromString[t], CellFromString[s]>> IN
  ends \in Measurable /\ Distance[ends] <= h3KRingRadius

ageInRange(p, q) == p.age >= q.ageMin /\ p.age <= q.ageMax

ageCompatible(p, q) == ageInRange(p, q) /\ ageInRange(q, p)

\* "aMatchesBSeeking": p's gender is one q is looking for.
matchesSeeking(p, q) == q.seeking = "any" \/ p.gender = q.seeking

seekingCompatible(p, q) == matchesSeeking(p, q) /\ matchesSeeking(q, p)

compatible(p, q) ==
  /\ geographicallyClose(p.locationH3, q.locationH3)
  /\ ageCompatible(p, q)
  /\ seekingCompatible(p, q)

-----------------------------------------------------------------------------
(* The real-time decision, in SQL: is the row q a candidate for signal p? *)

GridDisk(x) == {y \in Cell : Distance[<<x, y>>] <= h3KRingRadius}

\* The texts MatchSingle passes to the statement for a signal with text t.
h3Cells(t) == {String[y] : y \in GridDisk(CellFromString[t])}

\* Mutant: the candidate's own age range is not asked for.
candidateOneSided(p, q) ==
  /\ q.locationH3 \in h3Cells(p.locationH3)
  /\ q.gender = p.seeking \/ p.seeking = "any"
  /\ p.gender = q.seeking \/ q.seeking = "any"
  /\ q.age >= p.ageMin /\ q.age <= p.ageMax

candidate(p, q) ==
  /\ q.locationH3 \in h3Cells(p.locationH3)
  /\ q.gender = p.seeking \/ p.seeking = "any"
  /\ p.gender = q.seeking \/ q.seeking = "any"
  /\ q.age >= p.ageMin /\ q.age <= p.ageMax
  /\ p.age >= q.ageMin /\ p.age <= q.ageMax

-----------------------------------------------------------------------------
(* What both are to decide, stated once: each of p and q is somebody the    *)
(* other asked for, and they are near enough to meet; and what each of the  *)
(* two needs besides.                                                       *)

\* The two cells named.
Ends(p, q) == <<CellFromString[p.locationH3], CellFromString[q.locationH3]>>

Mutual(p, q) ==
  /\ Distance[Ends(p, q)] <= 5
  /\ \A d \in {<<p, q>>, <<q, p>>} :
       /\ d[1].age \in d[2].ageMin..d[2].ageMax
       /\ d[2].seeking \in {"any", d[1].gender}

\* The cell is spelled as the library prints it.
Canonical(p) == p.locationH3 = String[CellFromString[p.locationH3]]

=============================================================================
