----------------------------- MODULE StorageKeys ----------------------------
(***************************************************************************)
(* The names under which videos are stored: how InitUpload makes a key out *)
(* of a file name, what DeleteObjectsByPrefix finds and deletes, and how   *)
(* the cleaner gets from a key back to the video.                          *)
(*                                                                         *)
(* A text is a sequence of characters; the service's own words ("users",   *)
(* an id, ...) count as one character each.  A key is the sequence of the  *)
(* texts between its slashes.                                              *)
(***************************************************************************)
EXTENDS Integers, Sequences, SequencesExt, FiniteSetsExt

White == {" ", "\t"}

Word(w) == <<w>>

\* strings.TrimSpace
TrimSpace(s) ==
    LET I == {i \in DOMAIN s : s[i] \notin White}
    IN  IF I = {} THEN << >> ELSE SubSeq(s, Min(I), Max(I))

\* strings.Split(s, "/")
Split(s) ==
    LET upTo[n \in 0 .. Len(s)] ==
            IF n = 0 THEN << << >> >>
            ELSE IF s[n] = "/" THEN Append(upTo[n - 1], << >>)
            ELSE Front(upTo[n - 1]) \o <<Append(Last(upTo[n - 1]), s[n])>>
    IN  upTo[Len(s)]

\* What path.Clean makes of one more part: empty parts and "." go, ".." takes
\* the part before it along.
Push(parts, p) ==
    IF p \in {<< >>, <<".">>} THEN parts
    ELSE IF p = <<".", ".">> /\ parts # << >> /\ Last(parts) # p THEN Front(parts)
    ELSE Append(parts, p)

Clean(parts) ==
    LET upTo[n \in 0 .. Len(parts)] ==
            IF n = 0 THEN << >> ELSE Push(upTo[n - 1], parts[n])
    IN  upTo[Len(parts)]

\* path.Join of texts
Join(texts) == Clean(FlattenSeq([i \in DOMAIN texts |-> Split(texts[i])]))

\* filepath.Base: trailing slashes go, then all up to the last slash.
Base(s) ==
    LET I == {i \in DOMAIN s : s[i] # "/"}
        slashes == {i \in 1 .. Max(I) : s[i] = "/"}
    IN  IF s = << >> THEN <<".">>
        ELSE IF I = {} THEN <<"/">>
        ELSE SubSeq(s, IF slashes = {} THEN 1 ELSE Max(slashes) + 1, Max(I))

Underscored(s) == [i \in DOMAIN s |-> IF s[i] = " " THEN "_" ELSE s[i]]

\* Mutant of SanitizeFilename: directories in the name are kept.
SanitizeFilenameDirs(name) ==
    LET safeName == TrimSpace(name)
    IN  IF safeName \in {<< >>, <<".">>, <<"/">>} THEN Word("file") ELSE Underscored(safeName)

SanitizeFilename(name) ==
    LET safeName == Base(TrimSpace(name))
    IN  IF safeName \in {<< >>, <<".">>, <<"/">>} THEN Word("file") ELSE Underscored(safeName)

\* The folder of a video, without the slash that ends the prefix.
MediaFolder(owner, id) == Join(<<Word("users"), Word(owner), Word("media"), Word(id)>>)

\* InitUpload's storageKey.
StorageKey(owner, id, name) ==
    Join(<<Word("users"), Word(owner), Word("media"), Word(id), Word("original"),
           SanitizeFilename(name)>>)

\* strings.TrimSpace of a key that begins with "users".
TrimKey(key) ==
    Front(key) \o << LET s == Last(key)
                         I == {i \in DOMAIN s : s[i] \notin White}
                     IN  IF I = {} THEN << >> ELSE SubSeq(s, 1, Max(I)) >>

\* What the bucket holds after DeleteObjectsByPrefix of a folder and its slash.
Purged(bucket, folder) ==
    LET listed == {k \in bucket : IsStrictPrefix(folder, k)}
    IN  bucket \ {TrimKey(k) : k \in listed}

\* The folders that ListMediaPrefixes takes from the keys of the bucket;
\* strings.Trim(key, "/") drops the empty parts at the end.
ExtractMediaPrefix(key) ==
    LET k == TrimKey(key)
        parts == IF Last(k) = << >> THEN Front(k) ELSE k
    IN  IF /\ Len(parts) >= 4
           /\ parts[1] = Word("users") /\ parts[3] = Word("media")
           /\ TrimSpace(parts[2]) # << >> /\ TrimSpace(parts[4]) # << >>
        THEN [ok |-> TRUE, id |-> parts[4], folder |-> Join(SubSeq(parts, 1, 4))]
        ELSE [ok |-> FALSE]

-----------------------------------------------------------------------------
(* Properties.                                                             *)

\* File names whose object no purge can name: ".." makes the key the folder
\* itself, and white space at the end of the name is trimmed off the key before
\* it is deleted.
Unpurgeable(name) ==
    \/ SanitizeFilename(name) = <<".", ".">>
    \/ Last(SanitizeFilename(name)) \in White

\* Let a video be uploaded under this file name, and another one, of another
\* user, under the same.  The cleaner recognises the key as this video's; the
\* purge by DeleteMedia and by the cleaner deletes its object unless the name
\* is Unpurgeable; the other video's object stays in any case.
PurgeFinds(name) ==
    TrimSpace(name) # << >> =>
        LET key == StorageKey("o1", "m1", name)
            other == StorageKey("o2", "m2", name)
            folder == MediaFolder("o1", "m1")
        IN  /\ ExtractMediaPrefix(key) = [ok |-> TRUE, id |-> Word("m1"), folder |-> folder]
            /\ Purged({key, other}, folder) =
                   IF Unpurgeable(name) THEN {key, other} ELSE {other}
=============================================================================
