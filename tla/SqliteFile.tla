------------------------------ MODULE SqliteFile ------------------------------
(***************************************************************************)
(* A durable SQLite file and its sidecars (utils/sqlite-durable-file.ts):   *)
(* how a snapshot replaces the file, how an open recovers it, and in which  *)
(* order the variants are deleted.  The checkpoint savers (SqlJsSaver) and  *)
(* the main database (db/index.ts) write and open through it.               *)
(*                                                                          *)
(* A directory says what each variant holds and which of them was written   *)
(* later; the code reads the latter off mtime (a rename keeps it), and two  *)
(* variants are taken to have different times.  A snapshot is a number, and *)
(* a file that is being written is torn: it fails the integrity check.      *)
(***************************************************************************)
EXTENDS Naturals

Names == {"live", "tmp", "bakTmp", "bak", "recTmp"}

\* RECOVERY_SUFFIXES (nothing writes .flush.tmp any more).
Candidates == Names \ {"recTmp"}

Absent == [is |-> "absent", val |-> 0]
Torn == [is |-> "torn", val |-> 0]
Whole(v) == [is |-> "whole", val |-> v]

\* d.later holds <<a, b>> when both are there and a was written after b.
EmptyDir == [file |-> [n \in Names |-> Absent], later |-> {}]

Present(d) == {n \in Names : d.file[n] # Absent}

IsDir(d, top) ==
  /\ d.file \in [Names -> {Absent, Torn} \cup {Whole(v) : v \in 0 .. top}]
  /\ d.later \subseteq Present(d) \X Present(d)
  /\ \A a, b \in Present(d) : a # b => (<<a, b>> \in d.later <=> <<b, a>> \notin d.later)

\* The three effects a write has on the directory: open(.., "w") and the
\* written and synced content, rename, unlink (or rename to a quarantine name).
Unlinked(d, n) == [file |-> [d.file EXCEPT ![n] = Absent],
                   later |-> {p \in d.later : n \notin {p[1], p[2]}}]

Put(d, n, f) == [file |-> [d.file EXCEPT ![n] = f],
                 later |-> Unlinked(d, n).later \cup {n} \X (Present(d) \ {n})]

Renamed(d, a, b) ==
  LET As(n) == IF n = a THEN b ELSE n
  IN [file |-> [d.file EXCEPT ![b] = d.file[a], ![a] = Absent],
      later |-> {<<As(p[1]), As(p[2])>> : p \in Unlinked(d, b).later}]

-----------------------------------------------------------------------------
\* persistSqliteSnapshot as the steps between which the process may die or
\* another writer may run: what an effect leaves behind, and the next step.
PersistSteps == {"begin", "tmp", "written", "renamed", "bakTmp", "bakWritten"}

PersistNext == [begin |-> "tmp", tmp |-> "written", written |-> "renamed",
                renamed |-> "bakTmp", bakTmp |-> "bakWritten", bakWritten |-> "done"]

PersistEffect(d, step, tmp, v) ==
  CASE step = "begin"      -> Put(d, tmp, Torn)
    [] step = "tmp"        -> Put(d, tmp, Whole(v))
    [] step = "written"    -> Renamed(d, tmp, "live")
    [] step = "renamed"    -> Put(d, "bakTmp", Torn)
    [] step = "bakTmp"     -> Put(d, "bakTmp", Whole(v))
    [] step = "bakWritten" -> Renamed(d, "bakTmp", "bak")

\* A failed write or rename throws, unless only the backup is concerned.
PersistFails(step) == IF step \in {"begin", "tmp", "written"} THEN "failed" ELSE "done"

-----------------------------------------------------------------------------
Valid(d) == {n \in Candidates : d.file[n].is = "whole"}

Newest(d, names) == CHOOSE n \in names : \A m \in names \ {n} : <<n, m>> \in d.later

\* chooseRecoveryCandidate, "" when there is none: the live file, unless a
\* temporary file was completed after it; without a live file the newest.
Choice(d) ==
  IF Valid(d) = {} THEN ""
  ELSE IF "live" \in Valid(d)
       THEN IF "tmp" \in Valid(d) /\ <<"tmp", "live">> \in d.later THEN "tmp" ELSE "live"
       ELSE Newest(d, Valid(d))

\* What the next open of the file would find.
Recoverable(d) == IF Choice(d) = "" THEN 0 ELSE d.file[Choice(d)].val

\* archiveInvalidLiveFile: set aside a live file that is there and not readable.
Archived(d) == IF d.file["live"] = Torn THEN Unlinked(d, "live") ELSE d

\* DELETE_ORDER: the live file last.
DeleteOrder == <<"tmp", "bak", "bakTmp", "recTmp", "live">>
=============================================================================
