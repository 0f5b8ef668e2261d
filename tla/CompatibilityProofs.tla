------------------------ MODULE CompatibilityProofs ------------------------
(***************************************************************************)
(* What the two compatibility decisions of the broker come to, for every   *)
(* grid of cells, every spelling of them and every pair of profiles.       *)
(***************************************************************************)
EXTENDS Compatibility, TLAPS

\* The texts of profiles parse to cells.
LEMMA EndsAreCells ==
  ASSUME NEW p \in ProfileRecord, NEW q \in ProfileRecord
  PROVE  Ends(p, q) \in Cell \X Cell
  BY GridAssumption DEF ProfileRecord, Ends

\* Who accepts whom does not depend on whose signal is looked at first.
LEMMA MutualSymmetric ==
  ASSUME NEW p \in ProfileRecord, NEW q \in ProfileRecord
  PROVE  /\ Mutual(p, q) <=> Mutual(q, p)
         /\ Ends(p, q) \in Measurable <=> Ends(q, p) \in Measurable
<1>1. /\ Distance[Ends(p, q)] = Distance[Ends(q, p)]
      /\ Ends(p, q) \in Measurable <=> Ends(q, p) \in Measurable
  BY GridAssumption DEF ProfileRecord, Ends
<1>2. {<<p, q>>, <<q, p>>} = {<<q, p>>, <<p, q>>}
  OBVIOUS
<1> QED BY <1>1, <1>2 DEF Mutual

\* One direction: p is somebody q asked for.
LEMMA AcceptsAgree ==
  ASSUME NEW p \in ProfileRecord, NEW q \in ProfileRecord
  PROVE  /\ p.age \in q.ageMin..q.ageMax <=> ageInRange(p, q)
         /\ q.seeking \in {"any", p.gender} <=> matchesSeeking(p, q)
  BY DEF ProfileRecord, ageInRange, matchesSeeking

\* Both directions, and the distance: what the Go functions spell out.
LEMMA MutualSpelledOut ==
  ASSUME NEW p \in ProfileRecord, NEW q \in ProfileRecord
  PROVE  Mutual(p, q) <=>
           /\ Distance[Ends(p, q)] <= h3KRingRadius
           /\ ageInRange(p, q) /\ ageInRange(q, p)
           /\ matchesSeeking(p, q) /\ matchesSeeking(q, p)
<1>1. Mutual(p, q) <=>
        /\ Distance[Ends(p, q)] <= h3KRingRadius
        /\ p.age \in q.ageMin..q.ageMax /\ q.age \in p.ageMin..p.ageMax
        /\ q.seeking \in {"any", p.gender} /\ p.seeking \in {"any", q.gender}
  BY DEF Mutual, h3KRingRadius
<1> QED BY <1>1, AcceptsAgree

(***************************************************************************)
(* A text is among those MatchSingle passes to the statement exactly if it *)
(* is the canonical spelling of a cell in the disk.                        *)
(***************************************************************************)
LEMMA AmongPassedTexts ==
  ASSUME NEW p \in ProfileRecord, NEW q \in ProfileRecord
  PROVE  q.locationH3 \in h3Cells(p.locationH3) <=>
           Canonical(q) /\ Distance[Ends(p, q)] <= h3KRingRadius
<1> DEFINE here == CellFromString[p.locationH3]
           there == CellFromString[q.locationH3]
<1>1. there \in Cell /\ Ends(p, q) = <<here, there>>
  BY GridAssumption DEF ProfileRecord, Ends
<1>2. ASSUME q.locationH3 \in h3Cells(p.locationH3)
      PROVE  Canonical(q) /\ Distance[<<here, there>>] <= h3KRingRadius
  <2>1. PICK y \in Cell :
          q.locationH3 = String[y] /\ Distance[<<here, y>>] <= h3KRingRadius
    BY <1>2 DEF h3Cells, GridDisk
  <2>2. y = there
    BY <2>1, GridAssumption
  <2> QED BY <2>1, <2>2 DEF Canonical
<1>3. ASSUME Canonical(q), Distance[<<here, there>>] <= h3KRingRadius
      PROVE  q.locationH3 \in h3Cells(p.locationH3)
  BY <1>1, <1>3 DEF h3Cells, GridDisk, Canonical
<1> QED BY <1>1, <1>2, <1>3

(***************************************************************************)
(* FindCandidatesForSignal (store/postgres.go) selects exactly the signals *)
(* that are mutually acceptable and whose cell is stored in the canonical  *)
(* spelling: its one-sided WHERE clauses together say the symmetric        *)
(* condition, and its comparison of texts is not symmetric.                *)
(***************************************************************************)
THEOREM CandidateExact ==
  ASSUME NEW p \in ProfileRecord, NEW q \in ProfileRecord
  PROVE  candidate(p, q) <=> Mutual(p, q) /\ Canonical(q)
<1>1. candidate(p, q) <=>
        /\ q.locationH3 \in h3Cells(p.locationH3)
        /\ ageInRange(p, q) /\ ageInRange(q, p)
        /\ matchesSeeking(p, q) /\ matchesSeeking(q, p)
  BY DEF candidate, ageInRange, matchesSeeking
<1> QED BY <1>1, AmongPassedTexts, MutualSpelledOut

(***************************************************************************)
(* The sweep's Go functions (matching/job.go) accept exactly the pairs     *)
(* that are mutually acceptable, however their cells are spelled, and      *)
(* whose distance the H3 library can compute.                              *)
(***************************************************************************)
THEOREM CompatibleExact ==
  ASSUME NEW p \in ProfileRecord, NEW q \in ProfileRecord
  PROVE  compatible(p, q) <=> Mutual(p, q) /\ Ends(p, q) \in Measurable
<1>1. compatible(p, q) <=>
        /\ Ends(p, q) \in Measurable /\ Distance[Ends(p, q)] <= h3KRingRadius
        /\ ageInRange(p, q) /\ ageInRange(q, p)
        /\ matchesSeeking(p, q) /\ matchesSeeking(q, p)
  BY DEF compatible, geographicallyClose, Ends, ageCompatible, seekingCompatible
<1> QED BY <1>1, MutualSpelledOut

=============================================================================
