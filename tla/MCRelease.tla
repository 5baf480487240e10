----------------------------- MODULE MCRelease -----------------------------
(* Small instances of Release, over those of CemodPackager.                 *)
EXTENDS Release, MCPackager

\* a package the verifier takes, and one it refuses
ReleaseManifests == {PlainWups}
ReleasePayloads == {Wps1, Sparse}
ReleaseInputs == Inputs(ReleaseManifests, ReleasePayloads)
ReleaseJobs == {Job("wups", FALSE, "none")}

RunSymmetry == Permutations(Runs)
=============================================================================
