------------------------------- MODULE Frames -------------------------------
(* Compressed logs (compressed.rs): a stream of zstd frames of which the   *)
(* scan asks the decoded length from the headers alone, and then reads the *)
(* bytes from a cursor up to that length.                                  *)
(*                                                                         *)
(* What a file holds is a sequence of frames, the last of which may be cut *)
(* off.  A byte is known by its place in the content, so that a slice can  *)
(* be told from any other; what the decoder does inside a block is the     *)
(* library's (ruzstd) and taken as right.                                  *)
EXTENDS Naturals, Sequences, SequencesExt

CONSTANTS
  NoSize,     \* the header does not declare the length of the content
  Word        \* lengths are below this number (u64)

FrameKind == {"data", "skippable", "reserved", "other"}
Cut == {"whole", "magic", "header", "body", "sum"}

(* A frame: blocks are the lengths of its blocks decoded, says is what its *)
(* header declares, cut the part in which the file ends.  A file that ends *)
(* inside the body still has the first `there` blocks.                     *)
Frame(kind, blocks, says, sum, cut, there) ==
  [kind |-> kind, blocks |-> blocks, says |-> says, sum |-> sum, cut |-> cut, there |-> there]

Total(lengths) == FoldLeft(LAMBDA n, length : n + length, 0, lengths)

Failed == [ok |-> FALSE]
Answer(v) == [ok |-> TRUE, value |-> v]

(* read_next: the stream ends well between two frames only.                *)
HeaderReadable(f) == f.kind \in {"data", "skippable"} /\ f.cut \notin {"magic", "header"}

Complete(f) == f.cut = "whole"

(* The bytes the decoder hands out before it misses something.             *)
BytesOf(f) ==
  IF f.kind # "data" \/ ~HeaderReadable(f) THEN 0
  ELSE IF f.cut = "body" THEN Total(SubSeq(f.blocks, 1, f.there)) ELSE Total(f.blocks)

(* decode_frame: the reader has enough before the frame is at its end, or  *)
(* the frame is read to its end and has to be what its header says.        *)
DecodeFrame(f, pos, end) ==
  IF end # NoSize /\ pos + BytesOf(f) >= end THEN "enough"
  ELSE IF ~Complete(f) \/ f.sum = "wrong" \/ f.says \notin {NoSize, BytesOf(f)} THEN "failed"
  ELSE "going"

(* decode_stream, from one frame to the next; pos counts what was handed   *)
(* to the reader.                                                          *)
DecodeNext(run, f, end) ==
  IF run.step # "going" THEN run
  ELSE IF ~HeaderReadable(f) THEN [run EXCEPT !.step = "failed"]
  ELSE IF f.kind = "skippable"
       THEN [run EXCEPT !.step = IF Complete(f) THEN "going" ELSE "failed"]
  ELSE [pos |-> run.pos + BytesOf(f), step |-> DecodeFrame(f, run.pos, end)]

DecodeStream(stream, end) ==
  FoldLeft(LAMBDA run, f : DecodeNext(run, f, end), [pos |-> 0, step |-> "going"], stream)

(* The content, byte by byte, as far as the file has it.                   *)
Size(stream) == FoldLeft(LAMBDA n, f : n + BytesOf(f), 0, stream)
Decoded(stream) == [k \in 1..Size(stream) |-> k]

(* decode_range and decode_all.                                            *)
DecodeRange(stream, start, end) ==
  IF end <= start THEN Answer(<<>>)
  ELSE LET run == DecodeStream(stream, end) IN
       IF run.step = "failed" \/ run.pos < end THEN Failed
       ELSE Answer(SubSeq(Decoded(stream), start + 1, end))

DecodeAll(stream) ==
  IF DecodeStream(stream, NoSize).step = "failed" THEN Failed ELSE Answer(Decoded(stream))

(* skip, skip_blocks: to the end of a frame without decoding it, and never *)
(* past the end of the file.                                               *)
Skipped_PastEnd(f) == TRUE
Skipped(f) == Complete(f)

(* decoded_len: a declared length is believed, another one counted.        *)
LengthNext(run, f) ==
  LET size == IF f.kind = "skippable" THEN 0 ELSE IF f.says # NoSize THEN f.says ELSE BytesOf(f)
      good == /\ HeaderReadable(f)
              /\ IF f.kind = "skippable" \/ f.says # NoSize THEN Skipped(f)
                 ELSE DecodeFrame(f, 0, NoSize) = "going"
  IN IF run.ok /\ good /\ run.value + size < Word THEN Answer(run.value + size) ELSE Failed

DecodedLen(stream) ==
  FoldLeft(LAMBDA run, f : IF run.ok THEN LengthNext(run, f) ELSE run, Answer(0), stream)

(* The slice of every range that is answered is the slice of the content;  *)
(* a file that was read to its end has the length that the headers gave;   *)
(* one that is cut off has no length; and what a scan reads up to that     *)
(* length is everything, in one round or in two, unless a header says less *)
(* than its frame holds: a range that ends there is answered before the    *)
(* frame is at its end (compressed.rs, decode_range: "a short read ...     *)
(* would skip data").                                                      *)
Understated(stream) ==
  \E i \in DOMAIN stream :
    stream[i].kind = "data" /\ stream[i].says # NoSize /\ stream[i].says < BytesOf(stream[i])

LengthIsOfTheBytes(stream) ==
  LET len == DecodedLen(stream)
      all == DecodeAll(stream)
      has == Decoded(stream)
  IN
  /\ all.ok => len = IF Len(has) < Word THEN Answer(Len(has)) ELSE Failed
  /\ \A a, b \in 0..(Len(has) + 1) : DecodeRange(stream, a, b).ok =>
       DecodeRange(stream, a, b).value = (IF b <= a THEN <<>> ELSE SubSeq(has, a + 1, b))
  /\ (\E i \in DOMAIN stream : ~Complete(stream[i])) => ~len.ok /\ ~all.ok
  /\ len.ok /\ DecodeRange(stream, 0, len.value).ok /\ ~Understated(stream) =>
       /\ DecodeRange(stream, 0, len.value) = Answer(has)
       /\ \A k \in 0..len.value :
            DecodeRange(stream, 0, k).value \o DecodeRange(stream, k, len.value).value = has
=============================================================================
