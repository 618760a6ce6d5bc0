------------------------------- MODULE PageIndex -------------------------------
(***************************************************************************)
(* How the bytes of an output become numbered pages of characters:         *)
(* src/src/paging/codec.ts (units of UTF-8 and GBK), index-format.ts (the   *)
(* index of checkpoints) and the reading functions of src/src/paging.ts,    *)
(* which take the file in chunks and never as a whole.                      *)
(*                                                                         *)
(* Bytes are told apart by the part they play: "low" and "high" are ASCII,  *)
(* and "high" may be the second byte of a GBK pair; "lead2" and "lead3"     *)
(* begin UTF-8 sequences, "cont" continues one; all three may take either   *)
(* place of a GBK pair.  "EF", "BB", "BF" are those of the byte order mark. *)
(* Left out: UTF-8 sequences of four bytes, and those that are too long or  *)
(* surrogates (they count as broken ones).                                  *)
(***************************************************************************)
EXTENDS Naturals, Sequences, SequencesExt

CONSTANTS
  IoChunkBytes,  \* bytes of one read
  IndexStride    \* characters between checkpoints

ASSUME PageIndexAssumption == {IoChunkBytes, IndexStride} \subseteq Nat \ {0}

Ascii  == {"low", "high"}
Lead3  == {"lead3", "EF"}
Cont   == {"cont", "BB", "BF"}
Bytes  == Ascii \cup Lead3 \cup Cont \cup {"lead2"}
Bom    == <<"EF", "BB", "BF">>

Least(x, y) == IF x <= y THEN x ELSE y

\* expectedUnitBytes
Expected(byte, encoding) ==
  IF byte \in Ascii THEN 1
  ELSE IF encoding = "gbk" \/ byte = "lead2" THEN 2
  ELSE IF byte \in Lead3 THEN 3 ELSE 1

\* readUnit: does a valid unit begin at i?
Valid(data, i, encoding) ==
  LET end == i + Expected(data[i], encoding) - 1 IN
    IF data[i] \in Ascii THEN TRUE
    ELSE /\ end <= Len(data)
         /\ IF encoding = "gbk" THEN data[end] # "low"
            ELSE data[i] \notin Cont /\ \A j \in (i + 1)..end : data[j] \in Cont

\* An invalid one is a single byte, shown as the replacement character.
Unit(data, i, encoding) ==
  IF Valid(data, i, encoding)
  THEN LET n == Expected(data[i], encoding) IN [text |-> SubSeq(data, i, i + n - 1), size |-> n]
  ELSE [text |-> <<"replacement">>, size |-> 1]

\* The units from the start of data on: all of them, or, as a part of a longer
\* text, up to the first that may go on beyond its end (decodeCompleteUnits).
Units(data, encoding, all) ==
  LET from[i \in 1..(Len(data) + 1)] ==
        IF i > Len(data) \/ (~all /\ i + Expected(data[i], encoding) - 1 > Len(data)) THEN <<>>
        ELSE LET unit == Unit(data, i, encoding) IN <<unit>> \o from[i + unit.size]
  IN from[1]

Text(units) == [i \in DOMAIN units |-> units[i].text]
Size(units) ==
  LET sum[n \in 0..Len(units)] == IF n = 0 THEN 0 ELSE sum[n - 1] + units[n].size
  IN sum[Len(units)]
Part(data, from, to) == SubSeq(data, from + 1, to)

\* A file is read chunk by chunk: what is not yet a unit is kept for the next
\* one.  At the end of the file what is left is taken byte by byte, at the end
\* of a page it is not.
InChunks(data, encoding, all) ==
  LET steps == (Len(data) + IoChunkBytes - 1) \div IoChunkBytes
      after[k \in 0..steps] ==
        IF k = 0 THEN <<>>
        ELSE after[k - 1] \o Units(Part(data, Size(after[k - 1]), Least(k * IoChunkBytes, Len(data))),
                                   encoding, FALSE)
  IN after[steps] \o Units(Part(data, Size(after[steps]), Len(data)), encoding, all)

ForEachFileUnit(data, encoding, start) == InChunks(Part(data, start, Len(data)), encoding, TRUE)

\* detectFileEncoding
Encoding(data, windows) ==
  IF Len(data) >= 3 /\ SubSeq(data, 1, 3) = Bom THEN "utf8"
  ELSE IF windows /\ \E unit \in ToSet(ForEachFileUnit(data, "utf8", 0)) : unit.text = <<"replacement">>
       THEN "gbk" ELSE "utf8"

DataStart(data) == IF Len(data) >= 3 /\ SubSeq(data, 1, 3) = Bom THEN 3 ELSE 0

\* buildFileIndex, and buildIndex with the units of the whole text.
Index(units, start, size) ==
  LET Byte(n)  == start + Size(SubSeq(units, 1, n))
      total    == Len(units)
      strides  == [k \in 1..(total \div IndexStride) |->
                     [char |-> k * IndexStride, byte |-> Byte(k * IndexStride)]]
      sentinel == IF total % IndexStride = 0 THEN <<>> ELSE <<[char |-> total, byte |-> size]>>
  IN <<[char |-> 0, byte |-> start]>> \o strides \o sentinel

FileIndex(data, encoding, start) == Index(ForEachFileUnit(data, encoding, start), start, Len(data))

\* readIndex
Accepted(index, start, size, total) ==
  /\ index[1] = [char |-> 0, byte |-> start]
  /\ \A i \in 2..Len(index) : index[i].char >= index[i - 1].char /\ index[i].byte >= index[i - 1].byte
  /\ Last(index) = [char |-> total, byte |-> size]

\* trimIncompleteTail
Trimmed(data, encoding, start) ==
  LET size   == Len(data)
      tail   == Part(data, size - Least(4, size - start), size)
      n      == Len(tail)
      conts  == CHOOSE k \in 0..n : /\ \A j \in (n - k + 1)..n : tail[j] \in Cont
                                    /\ k < n => tail[n - k] \notin Cont
      cut    == CASE n = 0 -> 0
                  [] n > 0 /\ encoding = "gbk" -> IF tail[n] \in Ascii THEN 0 ELSE 1
                  [] n > 0 /\ encoding # "gbk" /\ conts < n ->
                       IF Expected(tail[n - conts], "utf8") = conts + 1 THEN 0 ELSE conts + 1
                  [] OTHER -> 0
  IN Part(data, 0, size - cut)

\* Mutant of ReadRange: what a chunk leaves over is not kept for the next one.
ReadRangeForgets(data, encoding, from, to, skip, take) ==
  LET first == Units(Part(data, from, Least(to, from + IoChunkBytes)), encoding, FALSE)
      rest  == Units(Part(data, Least(to, from + IoChunkBytes), to), encoding, FALSE)
      text  == Text(first \o rest)
  IN SubSeq(text, skip + 1, Least(skip + take, Len(text)))

\* readStdoutRange
ReadRange(data, encoding, from, to, skip, take) ==
  LET text == Text(InChunks(Part(data, from, to), encoding, FALSE))
  IN SubSeq(text, skip + 1, Least(skip + take, Len(text)))

\* PageCache.read: pages of so many characters each, one after the other.
TotalPages(total, pageSize) == IF total = 0 THEN 1 ELSE (total + pageSize - 1) \div pageSize

\* The last record that is not beyond a character, and the first not before one.
FindCheckpoint(index, char) ==
  index[CHOOSE i \in DOMAIN index :
          index[i].char <= char /\ (i < Len(index) => index[i + 1].char > char)]
FindEndByte(index, char) ==
  index[CHOOSE i \in DOMAIN index :
          index[i].char >= char /\ (i > 1 => index[i - 1].char < char)].byte

Page(data, encoding, index, total, pageSize, page) ==
  LET startChar  == (page - 1) * pageSize
      endChar    == Least(total, startChar + pageSize)
      checkpoint == FindCheckpoint(index, startChar)
  IN ReadRange(data, encoding, checkpoint.byte, FindEndByte(index, endChar),
               startChar - checkpoint.char, endChar - startChar)

-------------------------------------------------------------------------------
(* What the pages should show, without chunks, index or pages *)

Whole(output, windows) ==
  Units(Part(output, DataStart(output), Len(output)), Encoding(output, windows), TRUE)

\* The pages of a file show the characters of an output one by one, whatever
\* chunk, checkpoint or page they fall on, but for broken units at the end of a
\* page: a lead byte that could go on beyond it, and what follows, is left out.
\* The index is that of the whole text and is accepted when it is read
\* (src/src/paging.ts:181).
ShowsExactly(data, output, windows, pageSize) ==
  LET encoding == Encoding(data, windows)
      start    == DataStart(data)
      whole    == Whole(output, windows)
      total    == Len(ForEachFileUnit(data, encoding, start))
      index    == FileIndex(data, encoding, start)
  IN /\ \A page \in 1..TotalPages(total, pageSize) :
          LET shown   == Page(data, encoding, index, total, pageSize, page)
              before  == (page - 1) * pageSize
              wanted  == SubSeq(Text(whole), before + 1, Least(before + pageSize, Len(whole)))
              missing == before + Len(shown) + 1
          IN /\ IsPrefix(shown, wanted)
             /\ shown # wanted => \E i \in {missing - 1, missing} \cap DOMAIN whole :
                                    whole[i].text = <<"replacement">>
     /\ index = Index(whole, start, Len(data))
     /\ Accepted(index, start, Len(data), Len(whole))

\* Of a UTF-8 text that was cut anywhere the trimmed file has all whole
\* characters and nothing else (src/src/paging.ts:438).
TrimmedExactly(data) ==
  LET start == DataStart(data)
      whole == Units(Part(data, start, Len(data)), "utf8", FALSE)
      cut   == Part(data, start + Size(whole), Len(data))
      valid == /\ \A unit \in ToSet(whole) : unit.text # <<"replacement">>
               /\ cut # <<>> => \A i \in 2..Len(cut) : cut[i] \in Cont
  IN valid => Trimmed(data, "utf8", start) = Part(data, 0, start + Size(whole))
===============================================================================
