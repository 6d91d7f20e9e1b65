------------------------- MODULE MCAnomalyDetector -------------------------
(* Instances of AnomalyDetector.                                            *)
EXTENDS AnomalyDetector, TLC

MCSymmetry == Permutations(Users) \cup Permutations(Events)

=============================================================================
