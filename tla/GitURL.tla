------------------------------- MODULE GitURL -------------------------------
(***************************************************************************)
(* The string conversions of the observer (src/unnamed/part_000) that turn *)
(* the URI of an attestation material into a GitHub REST API URL.         *)
(*                                                                         *)
(* A string is a sequence of tokens.  The URIs given to these operators    *)
(* are tokenised so that every occurrence of ".git" and of "github.com" is *)
(* a token of its own (".github.io" is the two tokens ".git", "hub.io"),   *)
(* hence replacing the first occurrence of a substring is exactly          *)
(* replacing the first matching run of tokens, and "+" is \o.           *)
(***************************************************************************)
EXTENDS Integers, Sequences, SequencesExt

\* The string s as a token sequence: the empty string has no token.
Str(s) == IF s = "" THEN <<>> ELSE <<s>>

\* strings.Replace(s, old, new, 1): the first occurrence of old only.
Replace1(s, old, new) ==
    LET at == { i \in 1..(Len(s) - Len(old) + 1) : SubSeq(s, i, i + Len(old) - 1) = old }
    IN  IF at = {} THEN s ELSE ReplaceSubSeqAt(Min(at), new, old, s)

\* convertToCommitDetailURL: ".git" -> "/commits", then
\* "github.com" -> "api.github.com/repos", then "/" + commit appended.
convertToCommitDetailURL(uri, commit) ==
    LET replaced  == Replace1(uri, <<".git">>, <<"/commits">>)
        replaced1 == Replace1(replaced, <<"github.com">>, <<"api.github.com/repos">>)
    IN  replaced1 \o <<"/">> \o Str(commit)

\* convertToCommitHistoryURL: the same two replacements, nothing appended.
convertToCommitHistoryURL(uri, commit) ==
    Replace1(Replace1(uri, <<".git">>, <<"/commits">>),
             <<"github.com">>, <<"api.github.com/repos">>)

(***************************************************************************)
(* The transform as spec.md 4.2 words it: a TRAILING ".git" becomes        *)
(* "/commits", the github.com HOST segment (the token after "https://")    *)
(* becomes "api.github.com/repos", then "/" + commit.  Not code: the       *)
(* reference the conversion is checked against.                           *)
(***************************************************************************)
SpecCommitDetailURL(uri, commit) ==
    LET trimmed == IF uri # <<>> /\ Last(uri) = ".git"
                   THEN Front(uri) \o <<"/commits">> ELSE uri
        hosted  == IF Len(trimmed) >= 2 /\ trimmed[1] = "https://"
                                        /\ trimmed[2] = "github.com"
                   THEN [trimmed EXCEPT ![2] = "api.github.com/repos"]
                   ELSE trimmed
    IN  hosted \o <<"/">> \o Str(commit)
=============================================================================
