---------------------------- MODULE MCScanIngest ----------------------------
(* Small instances of ScanIngest: lines of two to four bytes, one with a    *)
(* two-byte character in it, one that does not parse.                       *)
EXTENDS ScanIngest

CONSTANTS o, cl, hi, lo, q, nl

Ascii == <<o, cl>>
Accent == <<o, hi, lo, cl>>
Poison == <<q>>

Bytes == {o, cl, hi, lo, q, nl}
Leads == {hi}
Lines == {Ascii, Poison}
Parses == {Ascii, Accent}

Line(t) == Append(t, nl)
Files == {Line(Ascii), Line(Accent), Line(Ascii) \o Line(Ascii), Line(Accent) \o Line(Ascii)}

(* Files that only grow, under every fault, files that are replaced by      *)
(* older ones while the parser gets two successors, and files that rounds   *)
(* without --write-store read too.                                          *)
Grows(start) ==
  [start |-> start, rewritten |-> {}, kinds |-> {"unreadable", "commit", "crash", "forgetful"},
   bytes |-> 8, rewrites |-> 0, parsers |-> 2]
Replaced(start) ==
  [start |-> start, rewritten |-> Files, kinds |-> {"unreadable", "commit"},
   bytes |-> 0, rewrites |-> 1, parsers |-> 3]
Streamed(start) ==
  [start |-> start, rewritten |-> {}, kinds |-> {"streamed"}, bytes |-> 6, rewrites |-> 0, parsers |-> 2]
Lives == {Grows(<<>>), Streamed(<<>>)} \union {Replaced(f) : f \in Files}
=============================================================================
