--------------------------- MODULE MCLandingUploader ---------------------------
(* LandingUploader for model checking: windows of two ticks, two or more    *)
(* windows to a day, one tick of grace.                                     *)
EXTENDS LandingUploader, TLC

CONSTANTS f1, f2, a, b

OneFeed == {f1}
TwoFeeds == {f1, f2}
OneDigest == {a}
TwoDigests == {a, b}

\* Contents are interchangeable.
DigestSymmetry == Permutations(TwoDigests)

=============================================================================
