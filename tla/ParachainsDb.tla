------------------------------ MODULE ParachainsDb ------------------------------
(***************************************************************************)
(* The upgrade of the node's parachains database when it starts:            *)
(* node/service/src/parachains_db.                                         *)
(*                                                                         *)
(* The directory holds the database and a file with its version. A start    *)
(* migrates version by version; each migration changes the database first   *)
(* and the version file afterwards, and a crash may come in between. The    *)
(* two database libraries are external: a database that is opened with      *)
(* fewer columns than it has is refused by both, with more by ParityDB;     *)
(* RocksDB may refuse it or add the columns that are missing.               *)
(***************************************************************************)
EXTENDS Integers, Sequences

CONSTANT MaxCrashes   \* bound on the crashes

VARIABLES
  kind,      \* DatabaseKind
  columns,   \* the columns of the database, <<>> while there is none
  approval,  \* the format of the approval data
  file,      \* the version file: a version, NoFile, or Torn by a crash
  phase,     \* of the start: what comes next
  found,     \* the version the migration that is running began from
  crashes,
  torn       \* history: a crash came between a migration and its version

databaseVars == <<kind, columns, approval, file, phase, found, crashes, torn>>

CURRENT_VERSION == 5
FutureVersion == 6
NoFile == -1
Torn == -2

Kinds == {"ParityDB", "RocksDB"}

V0 == <<"availability data", "availability meta", "approval data">>
V1 == V0 \o <<"chain selection data", "dispute coordinator data">>
V2 == V1 \o <<"session window data">>
V3 == V1

ColumnsOf(version) ==
  CASE version = 0 -> V0
    [] version = 1 -> V1
    [] version = 2 -> V2
    [] OTHER -> V3

(* The approval format of a version: v1, v2 from version 4, v3 from 5.      *)
ApprovalOf(version) == IF version < 4 THEN 1 ELSE IF version = 4 THEN 2 ELSE 3

(* What a node of some version left behind: nothing, or its database. That  *)
(* of ParityDB had no version file before version 1, and may have five      *)
(* columns already. That of RocksDB always had one: with data and without a *)
(* file, which try_upgrade_db would take for the current version, no node   *)
(* leaves it.                                                              *)
DatabaseInit ==
  /\ kind \in Kinds
  /\ \/ columns = <<>> /\ approval = 3 /\ file = NoFile
     \/ \E version \in 0 .. FutureVersion :
          /\ columns = ColumnsOf(version)
          /\ approval = ApprovalOf(version)
          /\ file = version
     \/ /\ kind = "ParityDB" /\ columns \in {V0, V1}
        /\ approval = 1 /\ file = NoFile
  /\ phase = "down" /\ found = 0 /\ crashes = 0 /\ torn = FALSE

-----------------------------------------------------------------------------
Opens(declared) ==
  \/ declared = columns
  \/ kind = "RocksDB" /\ Len(declared) > Len(columns)

(* A library refuses only when the columns differ.                         *)
Refuses(declared) == declared # columns

IsEmpty == columns = <<>> /\ file = NoFile

(* get_db_version, and the version a migration starts from; a database of   *)
(* ParityDB without a version is of version 0.                             *)
VersionFound ==
  IF IsEmpty THEN CURRENT_VERSION
  ELSE IF file = NoFile THEN (IF kind = "RocksDB" THEN CURRENT_VERSION ELSE 0)
  ELSE file

Start ==
  /\ phase = "down"
  /\ phase' = "check"
  /\ UNCHANGED <<kind, columns, approval, file, found, crashes, torn>>

(* One round of try_upgrade_db: look at the version.                       *)
Check ==
  /\ phase = "check"
  /\ found' = VersionFound
  /\ phase' = IF VersionFound \in {Torn, FutureVersion} THEN "refused"
              ELSE IF VersionFound = CURRENT_VERSION THEN "write" ELSE "migrate"
  /\ UNCHANGED <<kind, columns, approval, file, crashes, torn>>

(* What is declared when a migration opens the database.                    *)
Declared == ColumnsOf(found)

(* Mutant: the last migration does not convert the approval data.           *)
ApprovalAfterKept(version) == ApprovalOf(version)

(* Version 3 and 4 both go to the current one.                             *)
ApprovalAfter(version) == IF version \in {3, 4} THEN 3 ELSE ApprovalOf(version)

(* The version that a migration returns.                                   *)
(* Mutant: the migration from version 3 says so, and never ends.           *)
NextVersionStays(version) == IF version \in {3, 4} THEN 3 ELSE version + 1

NextVersion(version) ==
  IF version \in {3, 4, CURRENT_VERSION} THEN CURRENT_VERSION ELSE version + 1

(* ParityDB goes from 0 to 1 by writing what its columns are, after it has  *)
(* cleared the one that changed, whatever it finds; the others open the     *)
(* database by the columns of the version it should have.                  *)
Idempotent == kind = "ParityDB" /\ found = 0

Migrate ==
  /\ phase = "migrate"
  /\ \/ Idempotent
     \/ Opens(Declared)
  /\ columns' = ColumnsOf(NextVersion(found))
  /\ approval' = ApprovalAfter(found)
  /\ phase' = "write"
  /\ UNCHANGED <<kind, file, found, crashes, torn>>

(* RocksDB goes from 0 to 1 by two steps: a crash may leave one column.     *)
AddFirstColumn ==
  /\ phase = "migrate"
  /\ kind = "RocksDB" /\ found = 0 /\ columns = V0
  /\ crashes < MaxCrashes
  /\ columns' = V0 \o <<"chain selection data">>
  /\ phase' = "down" /\ crashes' = crashes + 1 /\ torn' = TRUE
  /\ UNCHANGED <<kind, approval, file, found>>

(* A conversion may choke on what is converted already.                    *)
MigrateFails ==
  /\ phase = "migrate"
  /\ ~Idempotent
  /\ Refuses(Declared) \/ approval # ApprovalOf(found)
  /\ phase' = "refused"
  /\ UNCHANGED <<kind, columns, approval, file, found, crashes, torn>>

(* update_version; the loop ends at the version it was asked for.           *)
WriteVersion ==
  /\ phase = "write"
  /\ file' = NextVersion(found)
  /\ phase' = IF NextVersion(found) = CURRENT_VERSION THEN "open" ELSE "check"
  /\ UNCHANGED <<kind, columns, approval, found, crashes, torn>>

(* open_creating_rocksdb and open_creating_paritydb: a database that is not *)
(* there is made. Nothing here is refused: the columns are those of the     *)
(* current version once the version file says so. Otherwise the start would *)
(* end here, and UpgradeEnds with it.                                      *)
Open ==
  /\ phase = "open"
  /\ columns = <<>> \/ Opens(V3)
  /\ columns' = V3
  /\ phase' = "ready"
  /\ UNCHANGED <<kind, approval, file, found, crashes, torn>>

(* The node is stopped. In the middle of a write the file may be there and  *)
(* empty. What a migration changed stays changed.                          *)
Crash ==
  /\ phase \notin {"down", "refused"}
  /\ crashes < MaxCrashes
  /\ crashes' = crashes + 1
  /\ phase' = "down"
  /\ \/ UNCHANGED file
     \/ phase = "write" /\ file' = Torn
  /\ torn' = (torn \/ file' = Torn \/ (phase = "write" /\ found # CURRENT_VERSION /\ ~Idempotent))
  /\ UNCHANGED <<kind, columns, approval, found>>

(* Who is refused tries again, and meets the same database.                 *)
Retry ==
  /\ phase = "refused"
  /\ phase' = "down"
  /\ UNCHANGED <<kind, columns, approval, file, found, crashes, torn>>

Advance ==
  \/ Start
  \/ Check
  \/ Migrate
  \/ MigrateFails
  \/ WriteVersion
  \/ Open
  \/ Retry

DatabaseNext == Advance \/ AddFirstColumn \/ Crash

DatabaseSpec == DatabaseInit /\ [][DatabaseNext]_databaseVars

(* A node that has started to run runs on, and its operator starts it again. *)
FairDatabaseSpec == DatabaseSpec /\ WF_databaseVars(Advance)

-----------------------------------------------------------------------------
(* Properties *)

(* Through crashes anywhere in a chain of migrations, a node that runs has  *)
(* the columns and the approval format of the current version: it is        *)
(* refused a database that would read otherwise.                           *)
RunsOnCurrent ==
  phase = "ready" => columns = V3 /\ approval = 3 /\ file = CURRENT_VERSION

(* A database of any version that is not of the future is upgraded in the   *)
(* end, unless a crash came after a migration and before the version file   *)
(* told of it.                                                             *)
UpgradeEnds ==
  (file # FutureVersion) ~> (phase = "ready" \/ torn)
================================================================================
