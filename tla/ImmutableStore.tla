--------------------------- MODULE ImmutableStore ---------------------------
(***************************************************************************)
(* Installation of a file in storage.py: install_immutable_bytes writes a  *)
(* private temporary, install_temporary_file links it to its destination   *)
(* and unlinks the temporary.  There is no lock.  Destinations are content *)
(* addressed, so a name stands for its bytes and two installations of one  *)
(* name are identical.  Other modules extend this one and take its steps.  *)
(***************************************************************************)

VARIABLES
  stored,   \* the names at which a regular file exists
  doubled   \* those whose file has a second link, the temporary's name

store == <<stored, doubled>>

StoreInit == stored = {} /\ doubled = {}

\* _validate_regular_metadata: exactly one hard link, for readers and for
\* _matching_existing_file alike.
Readable(n) == n \in stored \ doubled
Unsafe(n) == n \in doubled

\* os.link succeeds ...
Link(n) ==
  /\ n \notin stored
  /\ stored' = stored \cup {n}
  /\ doubled' = doubled \cup {n}

\* ... or raises FileExistsError, and the file there is identical.
Reuse(n) ==
  /\ Readable(n)
  /\ UNCHANGED store

\* Then the temporary is unlinked.
UnlinkTemporary(n) ==
  /\ stored' = stored
  /\ doubled' = doubled \ {n}

\* A system call fails after the link: the destination is unlinked again, and
\* the temporary too.
Withdraw(n) ==
  /\ stored' = stored \ {n}
  /\ doubled' = doubled \ {n}
=============================================================================
