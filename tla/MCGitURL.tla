------------------------------ MODULE MCGitURL ------------------------------
(***************************************************************************)
(* Drives convertToCommitDetailURL over the material URIs and commit ids   *)
(* an attestation can carry: a material is read, then converted.           *)
(***************************************************************************)
EXTENDS GitURL

\* A plain repository, a GitHub Pages repository "<owner>.github.io", and
\* a repository URI given without the ".git" suffix.
Uris == { <<"https://", "github.com", "/", "acme", "/", "app", ".git">>,
          <<"https://", "github.com", "/", "acme", "/", "acme", ".git", "hub.io", ".git">>,
          <<"https://", "github.com", "/", "acme", "/", "app">> }

\* Commit ids as getCommitID returns them: "" when the digest has no commit.
CommitIds == {"abc123", ""}

VARIABLES uri, commit, url

vars == <<uri, commit, url>>

Init == /\ uri \in Uris
        /\ commit \in CommitIds
        /\ url = <<>>

Convert == /\ url = <<>>
           /\ url' = convertToCommitDetailURL(uri, commit)
           /\ UNCHANGED <<uri, commit>>

Spec == Init /\ [][Convert]_vars

(***************************************************************************)
(* spec.md 4.2 and 8 (round trip): the commit-detail URL is the material   *)
(* URI with its trailing ".git" turned into "/commits" and its github.com  *)
(* host into api.github.com/repos, followed by "/" + commit.  The code     *)
(* (convertToCommitDetailURL) replaces the FIRST ".git" instead.           *)
(***************************************************************************)
CommitURLAsSpecified == url # <<>> => url = SpecCommitDetailURL(uri, commit)
=============================================================================
