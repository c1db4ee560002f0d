----------------------------- MODULE MCObserver -----------------------------
(***************************************************************************)
(* Two Deployments, two repositories, two commits; GitHub answers a        *)
(* well-formed commit URL with the commit, an unauthenticated request may  *)
(* be rate limited (a JSON message), and any request may fail outright.    *)
(***************************************************************************)
EXTENDS Observer

web == [kind |-> "Deployment", namespace |-> "default", name |-> "web"]
api == [kind |-> "Deployment", namespace |-> "default", name |-> "api"]
MCResources == {web, api}

App == <<"https://", "github.com", "/", "acme", "/", "app", ".git">>
Lib == <<"https://", "github.com", "/", "acme", "/", "lib", ".git">>

\* The commits endpoint GitHub serves for each repository.
ApiBase == (App :> <<"https://", "api.github.com/repos", "/", "acme", "/", "app", "/commits">>)
        @@ (Lib :> <<"https://", "api.github.com/repos", "/", "acme", "/", "lib", "/commits">>)

\* c2 has no author email (a commit by an unlinked identity).
GitHub == ("c1" :> [email |-> "dev@acme.io", date |-> "2021-08-01", files |-> <<[filename |-> "deploy.yaml"]>>])
       @@ ("c2" :> [email |-> JNull, date |-> "2021-08-02", files |-> << >>])

Mat(u, c) == [uri |-> u, digest |-> [commit |-> c]]
Stmt(ms) == [artifactType |-> "manifestImage", artifact |-> "quay.io/acme/app-manifest", materials |-> ms]
OtherStmt == [artifactType |-> "other", artifact |-> "quay.io/acme/app", materials |-> <<Mat(Lib, "c2")>>]

\* web may move from c1 to c2; a snapshot with two repositories at c1 lets
\* both resources need the same key in one cycle.
MCSnapshots == { << Stmt(<<Mat(App, "c1")>>) >>,
                 << Stmt(<<Mat(App, "c2")>>) >>,
                 << OtherStmt, Stmt(<<Mat(App, "c1"), Mat(Lib, "c1")>>) >> }

\* For the token and abort runs: web and api on the same repository, c1 or c2.
MCSnapshotsOneRepo == { << Stmt(<<Mat(App, "c1")>>) >>, << Stmt(<<Mat(App, "c2")>>) >> }

\* For the abort run: web's material may also carry no commit digest, so
\* its URL ends in ".../commits/" and GitHub answers with an array.
MCSnapshotsAbort == MCSnapshotsOneRepo
                    \cup { << Stmt(<<[uri |-> App, digest |-> [sha256 |-> "e3b0"]]>>) >> }

CommitBody(c) == [kind |-> "commit", email |-> GitHub[c].email,
                  date |-> GitHub[c].date, files |-> GitHub[c].files]

MCReplies(req) ==
    LET served == { c \in DOMAIN GitHub :
                      \E u \in DOMAIN ApiBase : req.url = ApiBase[u] \o <<"/", c>> }
        answer == IF served # {} THEN { CommitBody(CHOOSE c \in served : TRUE) }
                  ELSE IF Last(req.url) = "/" THEN { [kind |-> "array"] }
                  ELSE { [kind |-> "message"] }
    IN  answer
        \cup (IF req.authorization = "" THEN { [kind |-> "message"] } ELSE {})
        \cup { [kind |-> "none"] }

\* spec.md 4.3: the CommitDetail of a commit; a missing email is "".
MCTruth(info) ==
    LET g == GitHub[info.commitID]
    IN  [ commit |-> info.commitID,
          author |-> IF g.email = JNull THEN "" ELSE g.email,
          date   |-> g.date,
          files  |-> [k \in DOMAIN g.files |-> g.files[k].filename] ]
=============================================================================
