------------------------------ MODULE Archive ------------------------------
(***************************************************************************)
(* What may enter: the upload gate of docs-api (uploads.py) and the        *)
(* unpacking of a zip by the worker (archive.py), two lists of types and   *)
(* limits in two services that have to agree.                              *)
(*                                                                         *)
(* A file is a record of what its first bytes say it is, its size when     *)
(* read, and the SHA-256 of its bytes.  An archive is the sequence of its  *)
(* members; one that is no zip file at all is the empty sequence.          *)
(***************************************************************************)
EXTENDS Integers, Sequences, FiniteSets

CONSTANTS
  MaxUploadSize,   \* MAX_UPLOAD_BYTES
  MaxEntries,      \* MAX_ARCHIVE_ENTRIES
  MaxEntrySize,    \* MAX_ENTRY_BYTES
  MaxTotalSize     \* MAX_TOTAL_UNPACKED_BYTES

\* Sizes are counted in bytes.
ASSUME LimitsAssumption ==
  {MaxUploadSize, MaxEntries, MaxEntrySize, MaxTotalSize} \subseteq Nat

Member == [content : STRING, size : Nat, sum : STRING]

-----------------------------------------------------------------------------
(* The upload gate. *)

UploadTypes == {"pdf", "jpeg", "png", "zip"}

\* Windows browsers declare a zip as x-zip-compressed.
Canonical(declared) == IF declared = "x-zip" THEN "zip" ELSE declared

\* validate_upload: a known type, a size in bounds, and the magic bytes of the
\* type that was declared.
ValidUpload(declared, file) ==
  /\ Canonical(declared) \in UploadTypes
  /\ file.size \in 1..MaxUploadSize
  /\ file.content = Canonical(declared)

-----------------------------------------------------------------------------
(* extract_archive: members in order, the whole refused by the first limit  *)
(* of the whole that is passed, a member skipped for its own defects.       *)

\* The places of the members that are no directories.
FilesOf(archive) == {i \in DOMAIN archive : archive[i].content # "directory"}

EntryTypes == {"pdf", "jpeg", "png"}

\* Passed over before it is opened.
Unopened(m) == m.content \in {"directory", "hidden", "encrypted"}

\* Opening or reading it raises, and extract_archive lets the error through: a
\* bad CRC, a compression method zipfile does not know, truncated data.
Damaged(m) == m.content = "damaged"

\* Passed over without counting towards the total.
Skipped(m) ==
  \/ Unopened(m)
  \/ ~Damaged(m) /\ (m.size > MaxEntrySize \/ m.size = 0)

\* Mutant: the total is compared before the member is added to it.
ReadMemberThenCount(acc, m) ==
  IF acc.stop # "none" \/ Skipped(m) THEN acc
  ELSE IF Damaged(m) THEN [acc EXCEPT !.stop = "raised"]
  ELSE [total   |-> acc.total + m.size,
        stop    |-> IF acc.total > MaxTotalSize THEN "refused" ELSE "none",
        entries |-> IF m.content \in EntryTypes THEN Append(acc.entries, m)
                                                ELSE acc.entries]

ReadMember(acc, m) ==
  IF acc.stop # "none" \/ Skipped(m) THEN acc
  ELSE IF Damaged(m) THEN [acc EXCEPT !.stop = "raised"]
  ELSE [total   |-> acc.total + m.size,
        stop    |-> IF acc.total + m.size > MaxTotalSize THEN "refused" ELSE "none",
        entries |-> IF m.content \in EntryTypes THEN Append(acc.entries, m)
                                                ELSE acc.entries]

NothingRead == [total |-> 0, stop |-> "none", entries |-> <<>>]

\* ReadMembers(archive)[i]: after i members.
ReadMembers(archive) ==
  LET read[i \in 0..Len(archive)] ==
        IF i = 0 THEN NothingRead ELSE ReadMember(read[i - 1], archive[i])
  IN  read

\* "refused" is the ArchiveValidationError, "raised" any other exception.
ExtractArchive(archive) ==
  LET read == ReadMembers(archive)[Len(archive)]
      outcome == IF Cardinality(FilesOf(archive)) \notin 1..MaxEntries THEN "refused"
                 ELSE IF read.stop = "none" THEN "extracted" ELSE read.stop
  IN  [outcome |-> outcome,
       entries |-> IF outcome = "extracted" THEN read.entries ELSE <<>>]

-----------------------------------------------------------------------------
(* The same result said without the loop. *)

Readable(m) ==
  /\ m.content \notin {"directory", "hidden", "encrypted", "damaged"}
  /\ m.size \in 1..MaxEntrySize

\* Bytes that can be read of the first i members.
ReadableSize(archive) ==
  LET size[i \in 0..Len(archive)] ==
        IF i = 0 THEN 0
        ELSE size[i - 1] + (IF Readable(archive[i]) THEN archive[i].size ELSE 0)
  IN  size

\* The places, up to the i-th, of the members that are to become documents.
Wanted(archive, i) ==
  {j \in 1..i : Readable(archive[j]) /\ archive[j].content \in EntryTypes}

\* Its number of files is in bounds.
WholeIsUsable(archive) == Cardinality(FilesOf(archive)) \in 1..MaxEntries

\* A damaged member that is reached before the total passes its cap.
MeetsDamage(archive) ==
  \E i \in DOMAIN archive :
     Damaged(archive[i]) /\ ReadableSize(archive)[i] <= MaxTotalSize

\* What extract_archive answers for a whole archive: it is refused when it has no
\* file, too many files, or more readable bytes than the cap, wherever in it the
\* cap is passed; it raises when one member that cannot be read is reached
\* before that, however good its siblings are -- the exception to archive.py's
\* "so one odd file doesn't sink the rest of the archive"; otherwise its entries
\* are its readable members of a supported type, in order, none lost because a
\* sibling is hidden, encrypted, empty, too large or of no supported type.
ExtractsWhatItShould(archive) ==
  LET result == ExtractArchive(archive)
      wanted == Wanted(archive, Len(archive))
  IN  /\ result.outcome = "raised"
           <=> WholeIsUsable(archive) /\ MeetsDamage(archive)
      /\ result.outcome = "refused"
           <=> \/ ~WholeIsUsable(archive)
               \/ /\ ReadableSize(archive)[Len(archive)] > MaxTotalSize
                  /\ ~MeetsDamage(archive)
      /\ result.outcome = "extracted" =>
           /\ Len(result.entries) = Cardinality(wanted)
           /\ \A i \in wanted :
                result.entries[Cardinality(Wanted(archive, i))] = archive[i]
=============================================================================
