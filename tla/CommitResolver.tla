--------------------------- MODULE CommitResolver ---------------------------
(***************************************************************************)
(* Commit Resolver: accessGitRepo, getCommitInfoFromDetail,                *)
(* setNewManifestProvenanceResult, getCommitInfo and getParentsFromDetail  *)
(* (src/unnamed/part_000).                                                 *)
(*                                                                         *)
(* A response body is abstracted to what getCommitInfoFromDetail looks at: *)
(*   [kind |-> "commit", email, date, files]  a commit-detail object;      *)
(*        email / date are JNull when absent, files is JAbsent when the    *)
(*        "files" array is missing, else a sequence of file entries,       *)
(*        records that may lack "filename"; a body may carry "parents",   *)
(*        JNull or a sequence of records that may lack "url" / "sha";      *)
(*   [kind |-> "message"]  a JSON object without "commit" (401, 403 rate   *)
(*        limit, 404 for a malformed URL);                                 *)
(*   [kind |-> "array"]    a JSON array (".../commits/" lists commits, so  *)
(*        json.Unmarshal into a map fails and leaves data nil);            *)
(*   [kind |-> "none"]     client.Get failed: there is no response.        *)
(* Every failed Go type assertion x.(T) on a missing field panics: the     *)
(* outcome of a step is a record [panic, value].                           *)
(***************************************************************************)
EXTENDS Naturals, Sequences, GitURL

CONSTANTS JNull,    \* a JSON null / missing field
          JAbsent   \* a missing "files" array

(***************************************************************************)
(* accessGitRepo: builds req with "Authorization: Bearer " + token, but    *)
(* sends client.Get(url), a fresh request without that header.  When Get   *)
(* fails, res is nil and ioutil.ReadAll(res.Body) dereferences it.         *)
(***************************************************************************)
RequestSent(url, token) == [url |-> url, authorization |-> ""]

accessGitRepo(reply) == [panic |-> reply.kind = "none", value |-> reply]

\* Mutant: the file names are collected but "cmtdata.Files = fileNames" is
\* missing, so every result has no files.
getCommitInfoFromDetail_NoFiles(body, cmtid) ==
    IF \/ body.kind # "commit"
       \/ body.date = JNull
       \/ body.files = JAbsent
       \/ \E k \in DOMAIN body.files : "filename" \notin DOMAIN body.files[k]
    THEN [panic |-> TRUE, value |-> cmtid]
    ELSE [panic |-> FALSE,
          value |-> [ commit |-> cmtid,
                      author |-> IF body.email = JNull THEN "" ELSE body.email,
                      date   |-> body.date,
                      files  |-> << >> ] ]

(***************************************************************************)
(* getCommitInfoFromDetail: data["commit"].(map)["author"].(map) panics    *)
(* unless the body is a commit object; a nil email gives Author ""; a      *)
(* missing date, a missing "files" array or a file entry without           *)
(* "filename" panics.                                                      *)
(***************************************************************************)
getCommitInfoFromDetail(body, cmtid) ==
    IF \/ body.kind # "commit"
       \/ body.date = JNull
       \/ body.files = JAbsent
       \/ \E k \in DOMAIN body.files : "filename" \notin DOMAIN body.files[k]
    THEN [panic |-> TRUE, value |-> cmtid]
    ELSE [panic |-> FALSE,
          value |-> [ commit |-> cmtid,
                      author |-> IF body.email = JNull THEN "" ELSE body.email,
                      date   |-> body.date,
                      files  |-> [ k \in DOMAIN body.files |-> body.files[k].filename ] ] ]

\* The ManifestProvenanceResult literal of setNewManifestProvenanceResult.
ManifestProvenanceResult(prov, cmtd) ==
    [ gitRepo    |-> prov.gitRepo,
      gitApiURL  |-> prov.gitApiURL,
      commitID   |-> prov.commitID,
      commitDate |-> cmtd.date,
      author     |-> cmtd.author,
      files      |-> cmtd.files,
      artifact   |-> prov.artifact ]

(***************************************************************************)
(* setNewManifestProvenanceResult, given the reply to the request it sent: *)
(* fetch, parse, merge.  It panics if either step does.                    *)
(***************************************************************************)
setNewManifestProvenanceResult(prov, reply) ==
    LET got  == accessGitRepo(reply)
        cmtd == getCommitInfoFromDetail(reply, prov.commitID)
    IN  IF got.panic \/ cmtd.panic
        THEN [panic |-> TRUE, value |-> prov]
        ELSE [panic |-> FALSE, value |-> ManifestProvenanceResult(prov, cmtd.value)]

(***************************************************************************)
(* getCommitInfo resolves every material of an in-toto attestation.  An    *)
(* attestation is [kind |-> "invalid"] (json.Unmarshal fails) or           *)
(* [kind |-> "statement", predicate]; a predicate is [kind |-> "scalar"]   *)
(* or [kind |-> "object", materials], materials JAbsent, JNull (not an     *)
(* array) or a sequence; a material JNull (not an object) or [uri, digest] *)
(* with uri and digest possibly JNull and a digest possibly without        *)
(* "commit".  server gives GitHub's reply to a URL (ReplyFor).             *)
(***************************************************************************)
\* GitHub's answer to a GET of url: no response when server is down, the
\* commit it serves at url, an array for ".../commits/", else a 404 message.
ReplyFor(server, url) ==
    IF ~server.up THEN [kind |-> "none"]
    ELSE IF url \in DOMAIN server.commits THEN server.commits[url]
    ELSE IF Last(url) = "/" THEN [kind |-> "array"]
    ELSE [kind |-> "message"]

\* The material's fields are asserted unchecked: m.(map), digest.(map),
\* commit.(string), uri.(string) panic on anything else.
MaterialValid(m) ==
    /\ m # JNull
    /\ m.uri # JNull
    /\ m.digest # JNull
    /\ "commit" \in DOMAIN m.digest

\* One loop iteration: url, accessGitRepo, getCommitInfoFromDetail.
ResolveMaterial(m, server) ==
    LET url  == convertToCommitDetailURL(m.uri, m.digest["commit"])
        got  == accessGitRepo(ReplyFor(server, url))
        cmtd == getCommitInfoFromDetail(got.value, m.digest["commit"])
    IN  [panic |-> got.panic \/ cmtd.panic, value |-> cmtd.value]

\* Mutant: the loop stops before the last material.
getCommitInfo_SkipLast(att, server) ==
    IF att.kind # "statement" \/ att.predicate.kind # "object"
    THEN [panic |-> TRUE, value |-> << >>]
    ELSE LET ms == IF att.predicate.materials \in {JAbsent, JNull}
                   THEN << >> ELSE att.predicate.materials
             n  == IF ms = << >> THEN 0 ELSE Len(ms) - 1
         IN  IF \E k \in 1..n : ~MaterialValid(ms[k]) \/ ResolveMaterial(ms[k], server).panic
             THEN [panic |-> TRUE, value |-> << >>]
             ELSE [panic |-> FALSE, value |-> [k \in 1..n |-> ResolveMaterial(ms[k], server).value]]

(***************************************************************************)
(* getCommitInfo: a failed Unmarshal leaves statement nil and              *)
(* statement.Predicate panics; a predicate that is not an object panics;   *)
(* missing or non-array materials only print and give an empty result; a   *)
(* malformed material, or a failed fetch or parse, panics.                 *)
(***************************************************************************)
getCommitInfo(att, server) ==
    IF att.kind # "statement" \/ att.predicate.kind # "object"
    THEN [panic |-> TRUE, value |-> << >>]
    ELSE LET ms == IF att.predicate.materials \in {JAbsent, JNull}
                   THEN << >> ELSE att.predicate.materials
         IN  IF \E k \in DOMAIN ms : ~MaterialValid(ms[k]) \/ ResolveMaterial(ms[k], server).panic
             THEN [panic |-> TRUE, value |-> << >>]
             ELSE [panic |-> FALSE, value |-> [k \in DOMAIN ms |-> ResolveMaterial(ms[k], server).value]]

(***************************************************************************)
(* getParentsFromDetail: data["parents"].([]interface{}) panics unless the *)
(* body is an object with a parents array; every entry must have "url" and *)
(* "sha" strings.                                                          *)
(***************************************************************************)
getParentsFromDetail(body) ==
    IF \/ body.kind # "commit"
       \/ "parents" \notin DOMAIN body
       \/ body.parents = JNull
       \/ \E k \in DOMAIN body.parents : ~({"url", "sha"} \subseteq DOMAIN body.parents[k])
    THEN [panic |-> TRUE, value |-> << >>]
    ELSE [panic |-> FALSE,
          value |-> [ k \in DOMAIN body.parents |->
                        [commit |-> body.parents[k].sha, url |-> body.parents[k].url] ] ]
=============================================================================
