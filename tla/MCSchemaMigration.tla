-------------------------- MODULE MCSchemaMigration --------------------------
(***************************************************************************)
(* The four migration files of the repository: 002 and 003 add columns to  *)
(* the envelopes table of 001, 001 and 004 only create what is missing.    *)
(***************************************************************************)
EXTENDS SchemaMigration

CONSTANTS v1, v2

MCRequires == <<{}, {1}, {1}, {}>>

\* The releases that the repository has had, as directories of one more file
\* each, and two in which a file was edited after it had been released.
MCReleases ==
  {<<v1, Absent, Absent, Absent>>, <<v1, v1, Absent, Absent>>, <<v1, v1, v1, Absent>>,
   <<v1, v1, v1, v1>>, <<v2, v1, v1, Absent>>, <<v1, v2, v1, v1>>}
=============================================================================
