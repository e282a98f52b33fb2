------------------------------- MODULE Ranges -------------------------------
(***************************************************************************)
(* How the streaming gateway answers a Range header: the status of the     *)
(* answer, the slice of the file it announces, and the chunks it streams.  *)
(*                                                                         *)
(* A header is a record.  Its form is "absent" (none, or not in bytes),    *)
(* "suffix" (bytes=-n), "open" (bytes=n-), "openless" (bytes=x-, where x   *)
(* is no number), "closed" (bytes=m-n) or "malformed"; m and n are numbers.*)
(***************************************************************************)
EXTENDS Integers

Forms == {"absent", "suffix", "open", "openless", "closed", "malformed"}

Headers == [form : Forms, m : Nat, n : Int]

Larger(a, b) == IF a > b THEN a ELSE b
Smaller(a, b) == IF a < b THEN a ELSE b

\* The first and the last byte a header stands for.
FirstByte(size, h) ==
  IF h.form = "suffix" THEN Larger(0, size - h.n)
  ELSE IF h.form \in {"open", "closed"} THEN h.m ELSE 0

\* Mutant of LastByte: the end of a range is taken as exclusive.
MutantExclusive(size, h) == IF h.form = "closed" THEN h.n - 1 ELSE size - 1

LastByte(size, h) == IF h.form = "closed" THEN h.n ELSE size - 1

\* The conditions under which the header cannot be satisfied.
Unsatisfiable(size, h) ==
  \/ h.form = "malformed"
  \/ h.form = "suffix" /\ h.n <= 0
  \/ FirstByte(size, h) >= size \/ LastByte(size, h) >= size
  \/ FirstByte(size, h) > LastByte(size, h)

\* handle_range_request: an empty file is sent whole, whatever is asked for.
Answer(size, h) ==
  IF size = 0 \/ h.form = "absent"
    THEN [status |-> 200, start |-> 0, length |-> size]
  ELSE IF Unsatisfiable(size, h)
    THEN [status |-> 416, start |-> 0, length |-> 0]
    ELSE [status |-> 206, start |-> FirstByte(size, h),
          length |-> LastByte(size, h) - FirstByte(size, h) + 1]

ReadSize(chunk, remaining) == Smaller(chunk, remaining)

\* stream_file_range: the number of bytes streamed from a file of size bytes, chunk by chunk,
\* until the length is reached or the file ends.
Streamed(size, start, length, chunk) ==
  LET Left(at) == Larger(0, size - at)
      sent[done \in 0..length + chunk] ==
        LET got == Smaller(ReadSize(chunk, length - done), Left(start + done))
        IN  IF done >= length \/ got = 0 THEN done ELSE sent[done + got]
  IN  sent[0]

-----------------------------------------------------------------------------
(* What a range means.                                                     *)

\* The bytes of the file that are asked for.
Wanted(size, h) ==
  {i \in 0..size - 1 : /\ h.form = "suffix" => i >= size - h.n
                       /\ h.form \in {"open", "closed"} => i >= h.m
                       /\ h.form = "closed" => i <= h.n}

\* A 206 has exactly the bytes of the file that were asked for, at least one; a 416 is sent
\* only if there is none of them, or the range ends beyond the file (where RFC 7233 would
\* have it cut); and a 200 has the whole file.
RangeIsExact(size, h) ==
  LET a == Answer(size, h) IN
  /\ a.status = 206 => /\ a.length > 0
                       /\ a.start..a.start + a.length - 1 = Wanted(size, h)
  /\ a.status = 416 => \/ Wanted(size, h) = {}
                       \/ h.form = "closed" /\ h.n >= size
                       \/ h.form = "malformed"
  /\ a.status = 200 => a.start = 0 /\ a.length = size

\* What is streamed is as long as the answer said, if the file has not shrunk meanwhile, and
\* never longer.
StreamIsExact(size, actual, h, chunk) ==
  LET a == Answer(size, h)
      n == Streamed(actual, a.start, a.length, chunk)
  IN  a.status # 416 => /\ n <= a.length
                        /\ actual >= size => n = a.length
=============================================================================
