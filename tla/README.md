# TLA+ models of the integrity-shield observer

This directory holds TLA+ specifications of the provenance observer of
integrity-shield (`src/unnamed/part_000`, package `observer`), and of the
cycle that drives it as `spec.md` describes. TLC checks them.
`PROJECT.json` lists the components, runs, mutants, the map from every
definition to its source lines, findings and hazards.

## The system

The observer runs in cycles. In each cycle it does the following:

1. **List resources.** It lists the live resources and their verification
   results (`VerifyResult`: the resource and the in-toto provenance
   statements of its signed manifest image).
2. **Extract provenance** (`GetProvenanceFromVerifyResourceResult`). It keeps
   the statements whose artifact type is `manifestImage`. It turns every
   material of those statements into a `ManifestProvenanceInfo`: the repository
   URI, the commit from the digest (`getCommitID`) and a GitHub API URL
   (`convertToCommitDetailURL`).
3. **Resolve commits** (`setNewManifestProvenanceResult`). For each info it
   calls `accessGitRepo` and `getCommitInfoFromDetail` and merges the commit's
   author, date and changed files into a `ManifestProvenanceResult`.
   - Workers run concurrently.
   - Every info is fetched: src/ has no cache. spec.md 3 and 8 ask for a
     cycle-local cache keyed by (repo, commit), so that two resources on
     one commit cause one request (`observer_dedup`).
   - `getTargetResourceLog` and `getTargetProvenanceLog` exist in src/, but
     nothing calls them. They match by repository only, not by commit.
     spec.md 9 says the observed path does not consult them.
4. **Record** (spec.md 4.4, 5). It replaces the history wholesale with one entry
   per live resource. A resource not finished at the deadline gets an
   incomplete entry. spec.md 4.4 also describes a drift signal, but no
   code computes one, so it is not modelled.

The **manifest locator** (`getManifestYaml`) is separate. It finds, in a
signed image, the manifest that a live object was created from:
- It pulls the image, splits the YAML and keeps the documents of the object's
  kind, skipping any document that does not parse.
- It searches by identity (GVK, name, namespace) first, then by content.

`request_handler_config.go` configures the admission request handler:
- `SetupLogger` sets the process-wide logger for each request.
- `LoadKeySecret` writes the key files of a Secret to `/tmp` for the verifier.

Admission requests are served concurrently, so both run in parallel
handlers. `zz_generated.deepcopy.go` holds the generated deep copies of the
operator's `IntegrityShield` types, which a reconciler takes before changing
an object from the informer cache.

## Modules

| Module | Models | State / actions |
|---|---|---|
| `GitURL` | `convertToCommitDetailURL`, `convertToCommitHistoryURL`, `strings.Replace(...,1)` | Pure operators. Strings are token sequences in which every `.git` and `github.com` is its own token, so a first-occurrence replace is a first-subsequence replace. `SpecCommitDetailURL` is the conversion as spec.md 4.2 words it. |
| `Provenance` | `GetProvenanceFromVerifyResourceResult`, `getCommitID` | Pure operators. `ExtractRef` is an independent recursive reference. |
| `CommitResolver` | `accessGitRepo`, `getCommitInfoFromDetail`, `setNewManifestProvenanceResult`, `getCommitInfo`, `getParentsFromDetail` | A reply is abstracted to what the parser looks at: a commit object (email or date possibly null, files possibly missing or entries without filename), an error message object, an array, or no response. Every failed Go type assertion, and the nil `res` dereference, is a `panic` outcome. `RequestSent` is the request `client.Get(url)` really sends. |
| `ObservationRecorder` | `getTargetResourceLog`, `getTargetProvenanceLog` | First-match lookups returning `<<found, entry>>`. They are operators only: no action uses them, because no code calls them. |
| `ManifestLocator` | `getManifestYaml` | Returns the set of outcomes: the content search of the library may return any match. An empty document (`NullDoc`) is accepted by `yaml.Unmarshal` and leaves the pointer nil, so `GetKind` panics (`PanicOutcome`). |
| `Observer` | The cycle of spec.md 5, composed with all of the above | State: `phase`, `live` (the snapshot each resource is in), per-resource `stage`, per-slot `status` (`todo`, `fetching`, `done`) and `result`, `fetches` (a bag of requests sent this cycle), `history`, `histLive` (the snapshot the history was taken from), `lastEnd`. Actions: see below. |
| `ObservationHistory` | What the recorder promises (spec.md 4.4, 8) | The history is always a faithful picture of one cluster snapshot. `Observer` refines it. |
| `LogSetup` | `SetupLogger` | Process-wide `envLevel`, `logLevel` and `formatter`. Per handler: `pc`, `config`, plus two ghosts: `alone` (nothing overlapped the call) and `lastDone`. Actions `Begin`, `SetEnv` (lines 82-94), `SetLevel` (95-99) and `SetFormat` (101-103) are separate steps because each write takes its own lock. |
| `KeySecret` | `LoadKeySecret` | Variables: the Secret (`Rotate` replaces it) and the shared key `files`. Per handler: the data read, the keys tried, `sumErr`, `keyPath`, the return value and whether the verifier read, at the returned path, the key its own call wrote (`readOwn`). Actions: `GetSecret` fails or reads the Secret. `OpenKeyFile` picks any key not yet tried (random map order); the `O_TRUNC` open can fail. `WriteKeyFile` succeeds (then break) or fails, leaving the file truncated. `Return` gives the result of lines 128-135. `UseKey` is the caller loading the key. |
| `DeepCopy` | `zz_generated.deepcopy.go` | An object maps its reference fields to `Nil` or a heap cell; the heap is a sequence. Each generated `DeepCopyInto` is the set of reference fields it gives fresh storage (`...Refs`), composed as the generated calls compose. `CopyInto` is `*out = *in` plus the nil-guarded allocations. Every type's `DeepCopy` is `NewCopy` with its refs. `DeepCopyObject` returns a `runtime.Object`: a record of dynamic type and pointer, `NilObject` being the nil interface. List copies are `RECURSIVE` over the items. |
| `MCObserver`, `MCGitURL`, `MCManifestLocator`, `MCCommitInfo`, `MCLogSetup`, `MCKeySecret`, `MCDeepCopy` | Model-checking instances | Constants and harness actions. |
| `MCMalformedInput` | Model-checking instance | Instantiates `MCManifestLocator` and `MCCommitInfo` side by side: the parsers fed malformed input. |

The `Observer` actions and where they come from:
- From src (`setNewManifestProvenanceResult`, lines 70-84):
  - `SendRequest` sends `accessGitRepo`'s request for one info. It is the
    request `client.Get(url)` really sends, counted in `fetches`.
  - `FetchReturns` parses the reply with `getCommitInfoFromDetail` and
    merges the result into the slot.
- From spec.md 5 (the driver is not in `src/`; these are `spec_modelled` in
  the map):
  - `StartCycle` takes a new cluster snapshot.
  - `BeginResource` lets at most `Workers` resources be in progress.
  - `FetchPanics`: any reply that makes the Go code panic restarts the
    process. The persisted history survives; the cycle is lost.
  - `FinishResource`.
  - `EndCycle` and `Deadline` both `Record` the history. `Deadline` marks
    the unfinished resources incomplete.

## Runs

| Run | Expect | What it shows |
|---|---|---|
| `observer_cycle` (`MCObserver.cfg`) | pass | Checks `ExtractionMatchesReference` and `HistoryRefinement`. Over successive cycles with 2 workers, panics and deadlines, extraction agrees with the independent reference. The recorded history refines `ObservationHistory`: it is always one entry per resource of one cluster snapshot, with each complete entry carrying GitHub's metadata for exactly the commits of that snapshot. That composes extraction, URL conversion, the request, the parse and the merge. 61K distinct states, about 16 s. |
| `observer_dedup` (`MCObserver_dedup.cfg`) | violation | `NoDuplicateFetch` fails in 6 steps. `web` and `api` are both at `App c1`, and each worker sends its own request for the same (repo, commit). spec.md 3 and 8 say the cycle-local cache makes that one request. |
| `manifest_locator` (`MCManifestLocator.cfg`) | pass | `NoFalseNotFound`: a manifest of the object's kind that matches by identity or content is always found, even after an unparsable document. `IdentityPrecedence`: an identity match wins over a content match. 3.1K distinct states (every bundle), 1 s. |
| `commit_info` (`MCCommitInfo.cfg`) | pass | `CommitInfoPerMaterial`: when `getCommitInfo` returns, it returns one CommitData per material, in order, each GitHub's metadata for that commit. Checked over every attestation of up to three materials from six (good, unknown commit, no commit, not an object, no uri), with GitHub up or down. 12.6K distinct states, 2 s. |
| `log_setup` (`MCLogSetup.cfg`) | pass | `LoneSetupApplies`: two handlers run SetupLogger concurrently, forever, with any of 12 LogConfigs. When a call that nothing overlapped has returned and none is running, the env var and the logrus level are the configured names (each defaulting to the other, then to info; an unknown logrus name means info), and "json" gives the JSON formatter. |
| `key_secret` (`MCKeySecret.cfg`) | pass | `ErrorsMatchWrites`: with two handlers, failing opens and writes, any map order and key rotation, LoadKeySecret returns "failed to save" exactly when every key of the Secret it read failed. It returns "no key files" exactly when that Secret is empty, and otherwise a path of a key it wrote. `ReturnsFirstSaved`: the returned key is the first one the call saved in its map order, and every key tried before it failed (the `break` at line 126). `TypeOK` is the type invariant of the Secret, the files and each handler's state, its return value included. 1.35M distinct states, about 26 s. |
| `deep_copy` (`MCDeepCopy.cfg`) | pass | `CopiesIndependent`: a DeepCopy of a cached item, of one struct of it (Spec, Status, Security, Server, ControllerContainer, its Log, Observer) or of the list shares no cell with the cache or between items. `CopiesFaithful`: the copy equals its source, and nil stays nil. Checked over objects with no reference field set, one, or all, and lists that are nil, empty, or hold one or two items. |
| `malformed_input` (`MCMalformedInput.cfg`) | violation | `MalformedInputContained` fails. It conjoins four statements of spec.md 7-9. TLC's trace is an attestation that does not parse: `getCommitInfo` dereferences the nil statement. Each other conjunct, checked alone, fails too. A material without a commit digest panics at `commit.(string)`. A reply without parents panics at `data["parents"].([]interface{})`. A bundle holding an empty document panics at `GetKind`. |
| `key_secret_race` (`MCKeySecret_race.cfg`) | violation | `ReadsOwnKey` fails in 8 steps. h1 writes `cosign.pub` and returns its path. h2 opens the same file with `O_TRUNC`. h1's verifier reads an empty key. The same property also catches the rotation case (9 steps): h1 reads `k1`, the Secret is rotated to `k2`, h2 saves `k2`, and h1 then writes `k1` over it. |
| `commit_url_spec` (`MCGitURL_spec.cfg`) | violation | `CommitURLAsSpecified` fails for `https://github.com/acme/acme.github.io.git`: the first `.git` is replaced, not the trailing one. |
| `observer_token` (`MCObserver_token.cfg`) | violation | `FetchCarriesToken` fails: `client.Get(url)` sends a request without the `Authorization` header built on `req`. |
| `observer_abort` (`MCObserver_abort.cfg`) | violation | `CyclesKeepRecording` fails: a rejected request (401/403/404 body), a transport error or the array GitHub returns for a material without a commit digest panics. When that repeats, no cycle ever records. spec.md 7 says only that entry should be incomplete. |

Each property of a passing run has a mutant in `PROJECT.json`: a definition
of the code replaced by a plausible bug (no type filter in extraction, the
`Files` assignment dropped from `getCommitInfoFromDetail`, break instead of
continue, content search first, object bytes returned, the last material
skipped, no fallback between the two level names, the empty-Secret check
dropped, any write error reported, no break after a saved key, the
NodeSelector branch missing, the nil guards dropped). TLC finds each one.

## Bounds

`MCObserver` uses the following bounds:
- Two resources (`web`, `api`) and two repositories (`App`, `Lib`).
- Two commits: `c1` with full metadata; `c2` with a null email and no files.
- Three snapshots. The first two hold `App` at `c1` and `c2`. The third holds
  a non-manifest statement plus `App c1` and `Lib c1`.
- A resource may also be `Gone`.
- `Workers = 2`.

These bounds are enough for the cases that matter:
- Two resources sharing a key give the duplicate fetch.
- Two commits of one repository, one with a null email and no files, give
  a history that changes between cycles and both branches of the merge.
- A resource leaving and returning, together with panics and deadlines,
  gives stale history and incomplete entries.

The reply set serves the following:
- A commit body for a well-formed URL.
- A JSON array for a URL ending in `/`.
- An error object for any other URL, and for an unauthenticated request.
- No response, always possible.

The token run uses the one-repository snapshots. The abort run adds a
snapshot whose material has no commit digest. `MCManifestLocator` enumerates every bundle of up to 4
documents drawn from 5 (including an unparsable one and one of another kind)
against two objects. A match can therefore sit behind three other documents,
and a bundle can hold two identity matches and two content matches at once. `MCMalformedInput` uses bundles of up to 2 documents,
with an empty one among those drawn from, because its initial states are
the product of both harnesses.

`MCLogSetup`:
- Two handlers are enough for every interleaving of two SetupLogger calls.
- The configs cover each defaulting branch: Level empty, known or unknown;
  ManifestSigstoreLogLevel empty or set; Format empty or json.

`MCKeySecret`:
- Two handlers share one Secret.
- The Secret holds up to two keys, so both the random map order and the
  try-the-next-key-after-a-failure path occur.
- Each key has two versions, so a rotation can change a key's data.

`MCDeepCopy` sets each reference field alone, and all at once. A copy that
misses any one branch therefore meets a non-nil field.

## Fairness

`Observer`'s `Spec` has `WF_vars(StartCycle) /\ WF_vars(Work) /\
WF_vars(EndCycle) /\ WF_vars(Deadline)`. It is used only by `CyclesKeepRecording`:
- The observer is a periodic loop, so cycles keep starting.
- `Work` is the workers' own steps: beginning a resource, sending a request
  and finishing a resource. Go schedules a runnable goroutine.
- The cycle deadline of spec.md 5 fires once it is enabled.
- A reply gets no fairness. The `http.Client` at line 166 has no `Timeout`,
  so a request may hang for ever. The deadline still ends the cycle.

`MCCommitInfo` and `MCDeepCopy` evaluate one call and then stop, so they
set `CHECK_DEADLOCK FALSE`. `MCLogSetup` and `MCKeySecret` run without end. Their handlers loop
forever, so deadlock is checked, and none occurs.

## Not modelled, and the plan

- `convertToCommitHistoryURL` has no caller. It is an operator only.
- `role.yaml` and `go.mod` are declarative and have no behaviour to check.
- Overlapping SetupLogger calls with different configs reach mixed level
  states, and the JSON formatter is never reset. Nothing states what should
  happen instead, so these are listed as hazards, not runs.
- At most 12 runs are kept. The four malformed-input panics therefore share
  one violation run whose property is their conjunction.
- Considered and left out:
  - A liveness property that the observer records again once GitHub
    recovers. It would need fairness on GitHub's replies, which the code
    cannot assume. Also, any failed reply panics the process first
    (`observer_abort`).
  - Symmetry sets for the handler model values. The handler runs finish
    in seconds without them.
  - A liveness property that every cycle completes. With no `Timeout`, a
    hung request leaves its goroutine blocked for ever. Only the deadline
    ends the cycle, and `CyclesKeepRecording` covers that.
- The lookups `getTargetResourceLog` and `getTargetProvenanceLog` have no
  caller, so the stale reuse they would allow (a match by repository only)
  is a hazard with no property.
- Coverage: the map leaves out the license headers, the imports and the
  struct declarations of `request_handler_config.go` (`RequestHandlerConfig`,
  `SideEffectConfig`, `RequestFilterProfile` and the empty config structs).
  No function of src/ reads or writes them. Giving them map entries would
  add definitions that nothing uses. Every function under src/ that changes
  state is an action or operator of a module.
- Two hazards are left partly or wholly open, because no statement fixes
  the answer:
  - the JSON formatter is never reset, and no property covers it;
  - two calls may return different keys of one Secret. Within one call,
    `ReturnsFirstSaved` pins which key is returned. The difference across
    calls is a possibility, not an invariant.
- The k8s-manifest-sigstore library (image pull, YAML split, search) is
  modelled only by its contract.
