---------------------------- MODULE BackupRestore ----------------------------
(***************************************************************************)
(* BackupService on the database file of a system that keeps running.  It  *)
(* reads the file as bytes, twice, without a SQLite lock: once for the     *)
(* checksum of the manifest and once for the archive.  A commit meanwhile  *)
(* changes the file page by page, under a rollback journal the backup does *)
(* not read.  Restore checks the archive and writes its bytes over the     *)
(* target, which may have a journal of its own.                            *)
(***************************************************************************)
EXTENDS Naturals, FiniteSets

CONSTANTS
    Pages,          \* length of the file, in the units a read returns whole
    MaxCommit,      \* bound: commits are numbered 1..MaxCommit
    Unrestorable    \* commits that leave an active device which never
                    \* expires: expires_at IS NULL, which restore refuses

VARIABLES
    file,       \* file[i]: the commit that wrote page i last
    journal,    \* the pages before the commit in progress, or NoImage
    commit,     \* the last commit begun
    first,      \* what the reading for the checksum has got so far
    second,     \* what the reading for the archive has got so far
    moments,    \* history: what the file held at any time since the first reading began
    archive,    \* the last archive: its bytes, the bytes its checksum is of, its moments
    restored    \* history: an archive was written over the file

backupVars == <<file, journal, commit, first, second, moments, archive, restored>>

Page == 1..Pages
Version == 0..MaxCommit
Image == [Page -> Version]

NoImage == [i \in {} |-> 0]
Prefix == UNION {[1..n -> Version] : n \in 0..Pages}

NoArchive == [bytes |-> NoImage, sum |-> NoImage, moments |-> {}]

TypeOK ==
    /\ file \in Image
    /\ journal \in Image \cup {NoImage}
    /\ commit \in Version
    /\ first \in Prefix /\ second \in Prefix
    /\ moments \subseteq Image
    /\ archive.bytes \in Prefix /\ archive.sum \in Prefix
    /\ restored \in BOOLEAN

Init ==
    /\ file = [i \in Page |-> 0]
    /\ journal = NoImage
    /\ commit = 0
    /\ first = NoImage /\ second = NoImage
    /\ moments = {}
    /\ archive = NoArchive
    /\ restored = FALSE

(* A change of the file; a backup under way passes one more moment. *)
FileBecomes(image) ==
    /\ file' = image
    /\ moments' = IF first = NoImage THEN {} ELSE moments \cup {image}

Take(prefix) == [i \in 1..(Cardinality(DOMAIN prefix) + 1) |->
                    IF i \in DOMAIN prefix THEN prefix[i] ELSE file[i]]

Complete(prefix) == DOMAIN prefix = Page

------------------------------------------------------------------------------
(* SQLite, as the other processes use it. *)
BeginCommit ==
    /\ journal = NoImage
    /\ commit < MaxCommit
    /\ commit' = commit + 1
    /\ journal' = file
    /\ UNCHANGED <<file, first, second, moments, archive, restored>>

WritePage(i) ==
    /\ journal # NoImage
    /\ file[i] # commit
    /\ FileBecomes([file EXCEPT ![i] = commit])
    /\ UNCHANGED <<journal, commit, first, second, archive, restored>>

EndCommit ==
    /\ journal # NoImage
    /\ journal' = NoImage
    /\ UNCHANGED <<file, commit, first, second, moments, archive, restored>>

(* The writer died or gave up: whoever opens the database next plays the    *)
(* journal back, over whatever file is there by then.                       *)
RollBack ==
    /\ journal # NoImage
    /\ FileBecomes(journal)
    /\ journal' = NoImage
    /\ UNCHANGED <<commit, first, second, archive, restored>>

------------------------------------------------------------------------------
(* create: the checksum, chunk by chunk, then the bytes, then the archive.  *)
ReadForChecksum ==
    /\ ~restored
    /\ ~Complete(first)
    /\ first' = Take(first)
    /\ moments' = moments \cup {file}
    /\ UNCHANGED <<file, journal, commit, second, archive, restored>>

ReadForArchive ==
    /\ Complete(first) /\ ~Complete(second)
    /\ second' = Take(second)
    /\ UNCHANGED <<file, journal, commit, first, moments, archive, restored>>

WriteArchive ==
    /\ Complete(second)
    /\ archive' = [bytes |-> second, sum |-> first, moments |-> moments]
    /\ first' = NoImage /\ second' = NoImage
    /\ moments' = {}
    /\ UNCHANGED <<file, journal, commit, restored>>

(* Mutant: the manifest is read, its checksum is not compared. *)
Verified_NoSum(a) == a # NoArchive

(* verify: the manifest's checksum is that of the bytes. *)
Verified(a) == a # NoArchive /\ a.sum = a.bytes

(* The checks on a temporary copy; the device rows are in page 1.  A file   *)
(* caught inside a commit may pass them.                                    *)
Restorable(a) == Verified(a) /\ a.bytes[1] \notin Unrestorable

(* write_bytes over the target, --force given; the target's journal is left *)
(* where it is.  Bound: the operator restores once, not while a backup      *)
(* reads, and makes no backup of the restored file.                         *)
Restore ==
    /\ Restorable(archive)
    /\ first = NoImage
    /\ ~restored
    /\ file' = archive.bytes
    /\ restored' = TRUE
    /\ UNCHANGED <<journal, commit, first, second, moments, archive>>

Next ==
    \/ BeginCommit
    \/ \E i \in Page : WritePage(i)
    \/ EndCommit
    \/ RollBack
    \/ ReadForChecksum
    \/ ReadForArchive
    \/ WriteArchive
    \/ Restore

Spec == Init /\ [][Next]_backupVars

------------------------------------------------------------------------------
(* An archive that verifies is a snapshot: its bytes are what the file held *)
(* at one moment, although they were read one by one beside the writers.    *)
(* (The moment may lie inside a commit: only the journal could tell.)       *)
BackupIsSnapshot == Verified(archive) => archive.bytes \in archive.moments
==============================================================================
