------------------------------- MODULE EmbFile -------------------------------
(***************************************************************************)
(* The embedding file of the SSD tier (framework/embedding/emb_file.h): an *)
(* append-only file of fixed-size records with two counters.  A file is    *)
(* modelled by the sequence of the values written to it; a record is one   *)
(* unit long, so an offset (a byte count in the code, always a multiple of *)
(* val_len_) is the number of records before it.                           *)
(***************************************************************************)
EXTENDS Integers, Sequences

CONSTANT Garbage        \* what a read outside of the written part returns

\* Write: the stream is opened with std::ios::app, so the first n records of
\* the buffer land at the end of the file whatever its length is.
Write(data, buffer, n) == data \o [i \in 1..n |-> buffer[i - 1]]

\* Read: a copy from the mapped file at the given offset.
Read(data, offset) ==
  IF offset < Len(data) THEN data[offset + 1] ELSE Garbage

\* IsNeedToBeCompacted: more than a third of the records are out of date
\* (integer division).
IsNeedToBeCompacted(count, invalid) ==
  /\ count >= invalid
  /\ count \div 3 < invalid
=============================================================================
