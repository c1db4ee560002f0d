------------------------------ MODULE KeySecret ------------------------------
(***************************************************************************)
(* LoadKeySecret (src/integrity-shield-server/pkg/config/                  *)
(* request_handler_config.go): fetch the key Secret, write its data to     *)
(* /tmp/<ns>/<name>/<file> and return the path of the first file written.  *)
(* Every admission handler calling it for the same Secret writes the same  *)
(* paths.  ioutil.WriteFile opens with O_TRUNC, then writes: two steps,    *)
(* either of which can fail (the directory could not be made, the disk is  *)
(* full).  A Go map is iterated in random order: the next key is any one   *)
(* not yet tried.  After the call the handler's verifier reads the key at  *)
(* the returned path (the caller, not under src/).                         *)
(***************************************************************************)
EXTENDS Naturals, FiniteSets

CONSTANTS Handlers,
          KeyNames,     \* the file names a Secret's data may hold
          KeyData,      \* the key versions a Secret may hold
          Empty,        \* a file truncated and not yet (or never) written
          Absent,       \* no such file
          NoPath        \* keyPath == ""

Secrets == UNION { [ns -> KeyData] : ns \in SUBSET KeyNames }

\* The locals of a handler between calls.
NoData == [f \in {} |-> NoPath]

VARIABLES secret,     \* the Secret's data in the cluster
          files,      \* /tmp/<ns>/<name>/<file>
          pc,
          data,       \* the secret.Data this handler's call read
          tried,      \* keys of data this call has tried to write
          sumErr,     \* keys whose WriteFile failed in this call
          cur,        \* the key being written
          keyPath,
          ret,        \* what the call returned: a path or an error kind
          readOwn     \* the verifier read, at the returned path, the key its call wrote

vars == <<secret, files, pc, data, tried, sumErr, cur, keyPath, ret, readOwn>>

Init == /\ secret \in Secrets
        /\ files = [f \in KeyNames |-> Absent]
        /\ pc = [h \in Handlers |-> "idle"]
        /\ data = [h \in Handlers |-> NoData]
        /\ tried = [h \in Handlers |-> {}]
        /\ sumErr = [h \in Handlers |-> {}]
        /\ cur = [h \in Handlers |-> NoPath]
        /\ keyPath = [h \in Handlers |-> NoPath]
        /\ ret = [h \in Handlers |-> NoPath]
        /\ readOwn = [h \in Handlers |-> TRUE]

\* The key is rotated: the Secret is replaced.
Rotate == /\ \E s \in Secrets : secret' = s
          /\ UNCHANGED <<files, pc, data, tried, sumErr, cur, keyPath, ret, readOwn>>

\* Lines 107-116: GetResource fails (return), or the data is read.
GetSecret(h) ==
    /\ pc[h] = "idle"
    /\ \/ /\ pc' = [pc EXCEPT ![h] = "returned"]
          /\ ret' = [ret EXCEPT ![h] = "getError"]
          /\ UNCHANGED data
       \/ /\ pc' = [pc EXCEPT ![h] = "loop"]
          /\ data' = [data EXCEPT ![h] = secret]
          /\ UNCHANGED ret
    /\ readOwn' = [readOwn EXCEPT ![h] = TRUE]
    /\ UNCHANGED <<secret, files, tried, sumErr, cur, keyPath>>

\* Lines 117-120: the next key in map order; WriteFile opens it with
\* O_TRUNC, or fails to (lines 121-123: the error is kept, continue).
OpenKeyFile(h) ==
    /\ pc[h] = "loop"
    /\ \E f \in DOMAIN data[h] \ tried[h] :
          /\ tried' = [tried EXCEPT ![h] = @ \cup {f}]
          /\ \/ /\ files' = [files EXCEPT ![f] = Empty]
                /\ cur' = [cur EXCEPT ![h] = f]
                /\ pc' = [pc EXCEPT ![h] = "write"]
                /\ UNCHANGED sumErr
             \/ /\ sumErr' = [sumErr EXCEPT ![h] = @ \cup {f}]
                /\ UNCHANGED <<files, cur, pc>>
    /\ UNCHANGED <<secret, data, keyPath, ret, readOwn>>

\* Mutant: the break after a saved key dropped; the loop goes on writing
\* the remaining keys and keyPath ends as the last one saved.
WriteKeyFile_NoBreak(h) ==
    LET f == cur[h] IN
    /\ pc[h] = "write"
    /\ \/ /\ files' = [files EXCEPT ![f] = data[h][f]]
          /\ keyPath' = [keyPath EXCEPT ![h] = f]
          /\ pc' = [pc EXCEPT ![h] = "loop"]
          /\ UNCHANGED sumErr
       \/ /\ sumErr' = [sumErr EXCEPT ![h] = @ \cup {f}]
          /\ pc' = [pc EXCEPT ![h] = "loop"]
          /\ UNCHANGED <<files, keyPath>>
    /\ UNCHANGED <<secret, data, tried, cur, ret, readOwn>>

\* WriteFile writes the data (lines 125-126: keyPath = fpath, break), or
\* the write fails and leaves the file truncated (error kept, continue).
WriteKeyFile(h) ==
    LET f == cur[h] IN
    /\ pc[h] = "write"
    /\ \/ /\ files' = [files EXCEPT ![f] = data[h][f]]
          /\ keyPath' = [keyPath EXCEPT ![h] = f]
          /\ pc' = [pc EXCEPT ![h] = "exit"]
          /\ UNCHANGED sumErr
       \/ /\ sumErr' = [sumErr EXCEPT ![h] = @ \cup {f}]
          /\ pc' = [pc EXCEPT ![h] = "loop"]
          /\ UNCHANGED <<files, keyPath>>
    /\ UNCHANGED <<secret, data, tried, cur, ret, readOwn>>

\* Mutant: any write error is reported, even when a later key was saved.
Result_AnyError(h) ==
    IF sumErr[h] # {} THEN "saveError"
    ELSE IF keyPath[h] = NoPath THEN "noKeys"
    ELSE keyPath[h]

\* Mutant: lines 131-133 dropped: ("", nil) when the Secret has no data.
Result_NoEmptyCheck(h) ==
    IF keyPath[h] = NoPath /\ sumErr[h] # {} THEN "saveError"
    ELSE keyPath[h]

\* Lines 128-135.
Result(h) ==
    IF keyPath[h] = NoPath /\ sumErr[h] # {} THEN "saveError"
    ELSE IF keyPath[h] = NoPath THEN "noKeys"
    ELSE keyPath[h]

\* The loop ends (break, or every key tried) and the call returns.
Return(h) ==
    /\ \/ pc[h] = "exit"
       \/ pc[h] = "loop" /\ tried[h] = DOMAIN data[h]
    /\ ret' = [ret EXCEPT ![h] = Result(h)]
    /\ pc' = [pc EXCEPT ![h] = "returned"]
    /\ UNCHANGED <<secret, files, data, tried, sumErr, cur, keyPath, readOwn>>

\* The verifier loads the key at the returned path; on an error the
\* request is handled without it.  The handler then takes a new request.
UseKey(h) ==
    /\ pc[h] = "returned"
    /\ readOwn' = [readOwn EXCEPT ![h] = ret[h] \in KeyNames => files[ret[h]] = data[h][ret[h]]]
    /\ pc' = [pc EXCEPT ![h] = "idle"]
    /\ data' = [data EXCEPT ![h] = NoData]
    /\ tried' = [tried EXCEPT ![h] = {}]
    /\ sumErr' = [sumErr EXCEPT ![h] = {}]
    /\ cur' = [cur EXCEPT ![h] = NoPath]
    /\ keyPath' = [keyPath EXCEPT ![h] = NoPath]
    /\ ret' = [ret EXCEPT ![h] = NoPath]
    /\ UNCHANGED <<secret, files>>

Next == \/ Rotate
        \/ \E h \in Handlers : \/ GetSecret(h) \/ OpenKeyFile(h) \/ WriteKeyFile(h)
                               \/ Return(h) \/ UseKey(h)

Spec == Init /\ [][Next]_vars

TypeOK == /\ secret \in Secrets
          /\ files \in [KeyNames -> KeyData \cup {Empty, Absent}]
          /\ pc \in [Handlers -> {"idle", "loop", "write", "exit", "returned"}]
          /\ data \in [Handlers -> Secrets]
          /\ tried \in [Handlers -> SUBSET KeyNames]
          /\ sumErr \in [Handlers -> SUBSET KeyNames]
          /\ cur \in [Handlers -> KeyNames \cup {NoPath}]
          /\ keyPath \in [Handlers -> KeyNames \cup {NoPath}]
          /\ ret \in [Handlers -> KeyNames \cup {NoPath, "getError", "saveError", "noKeys"}]
          /\ \A h \in Handlers : pc[h] = "returned" => ret[h] # NoPath
          /\ readOwn \in [Handlers -> BOOLEAN]

(***************************************************************************)
(* LoadKeySecret reports an error exactly when the call saved no key: the  *)
(* "failed to save secret data as a file" error only when every key of the *)
(* Secret it read failed to write, "no key files" only when that Secret    *)
(* holds none, and otherwise the path of a key of that Secret whose write  *)
(* succeeded, whatever the map order and the other handlers did.           *)
(***************************************************************************)
ErrorsMatchWrites ==
    \A h \in Handlers : pc[h] = "returned" /\ ret[h] # "getError" =>
        /\ ret[h] = "saveError" <=> (DOMAIN data[h] # {} /\ sumErr[h] = DOMAIN data[h])
        /\ ret[h] = "noKeys" <=> DOMAIN data[h] = {}
        /\ ret[h] \in KeyNames => ret[h] \in DOMAIN data[h] \ sumErr[h]

(***************************************************************************)
(* The path LoadKeySecret returns is the first key of the Secret that the  *)
(* call saved in Go's random map order: every other key it tried before    *)
(* the break failed to write.  So a Secret holding two keys gives one call *)
(* the one, another call the other, but never a key written after the     *)
(* returned one, which a later call could have truncated.                  *)
(***************************************************************************)
ReturnsFirstSaved ==
    \A h \in Handlers : pc[h] = "returned" /\ ret[h] \in KeyNames =>
        tried[h] \ {ret[h]} \subseteq sumErr[h]

(***************************************************************************)
(* A nil error from LoadKeySecret means the Secret's key was saved as a    *)
(* file at the returned path (its error text: "failed to save secret data  *)
(* as a file"): the verifier that loads that path reads the key this call  *)
(* wrote.  Another handler's WriteFile of the same path truncates it       *)
(* first, and one that read the Secret before a rotation writes the older  *)
(* key over the newer.                                                     *)
(***************************************************************************)
ReadsOwnKey == \A h \in Handlers : readOwn[h]

====
