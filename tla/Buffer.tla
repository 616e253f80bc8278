------------------------------- MODULE Buffer -------------------------------
(***************************************************************************)
(* WriteBuffer and ReadBuffer (utility/buffer.h): fields of several kinds  *)
(* are written one after the other, the bytes reach a reader, all of them  *)
(* or only the first few, and the reader reads fields of the same kinds    *)
(* until one is not there.                                                 *)
(***************************************************************************)
EXTENDS Integers, Sequences, SequencesExt

CONSTANTS Field,    \* fields that are written, records of kind and value
          MaxFields \* bound: fields in a buffer

VARIABLES fieldsWritten, \* the fields written
          m_data, m_pos, m_valid, \* the ReadBuffer, or the WriteBuffer's m_data
          isCut,         \* not all the bytes reached the reader
          results,       \* the values read
          bufferStage    \* "writing", "reading", "failed"

bufferVars == <<fieldsWritten, m_data, m_pos, m_valid, isCut, results, bufferStage>>

\* No value.
Nullopt == -1
Base == 256
Top == Base * Base - 1
Bytes == Seq(0 .. Base - 1)

InitBuffer ==
  /\ fieldsWritten = <<>>
  /\ m_data = <<>>
  /\ m_pos = 0
  /\ m_valid = TRUE
  /\ isCut = FALSE
  /\ results = <<>>
  /\ bufferStage = "writing"

-----------------------------------------------------------------------------
\* A number without its last i bytes.
Shifted(n, size) ==
  LET left[i \in 0 .. size] == IF i = 0 THEN n ELSE left[i - 1] \div Base
  IN left

\* A length that is written as one of 32 bits.
IsLength(n) == Shifted(n, 4)[4] = 0

\* The values the kinds of fields have; of a list's elements each reads a byte.
ASSUME BufferAssumption ==
  /\ MaxFields \in Nat
  /\ \A f \in Field :
       \/ f.kind = "byte" /\ f.value \in 0 .. Base - 1
       \/ f.kind = "word" /\ f.value \in 0 .. Top
       \/ f.kind = "optional" /\ f.value \in Nullopt .. Top
       \/ f.kind = "dyn" /\ f.value \in Bytes /\ IsLength(Len(f.value))
       \/ /\ f.kind = "list" /\ f.value \in Seq(Bytes) /\ IsLength(Len(f.value))
          /\ \A i \in DOMAIN f.value : f.value[i] # <<>> /\ IsLength(Len(f.value[i]))

\* A number in memory, its lowest byte first, and the other way round.
inMemory(n, size) == [i \in 1 .. size |-> Shifted(n, size)[i - 1] % Base]
fromMemory(bytes) ==
  LET number[i \in 0 .. Len(bytes)] ==
        IF i = 0 THEN 0 ELSE Base * number[i - 1] + bytes[Len(bytes) + 1 - i]
  IN number[Len(bytes)]

\* The bytes from pos on, as many as size, turned round.
flipEndian(bytes, pos, size) ==
  [i \in DOMAIN bytes |->
     IF i \in pos + 1 .. pos + size THEN bytes[2 * pos + size + 1 - i] ELSE bytes[i]]

write(n, size) == flipEndian(inMemory(n, size), 0, size)

\* T(*v + 1): the top value becomes the one that stands for none.
writeWithLoss(v) == write(IF v = Nullopt THEN 0 ELSE (v + 1) % (Top + 1), 2)

writeDyn(bytes) == write(Len(bytes), 4) \o bytes

\* writeDyn of a list: the count, and each element as a buffer of its own.
writeDynList(elements) ==
  write(Len(elements), 4) \o FlattenSeq([i \in DOMAIN elements |-> writeDyn(elements[i])])

encoded(f) ==
  CASE f.kind = "byte"     -> write(f.value, 1)
    [] f.kind = "word"     -> write(f.value, 2)
    [] f.kind = "optional" -> writeWithLoss(f.value)
    [] f.kind = "dyn"      -> writeDyn(f.value)
    [] f.kind = "list"     -> writeDynList(f.value)

-----------------------------------------------------------------------------
\* A ReadBuffer, the value a read returns, and whether it returns one.
Reader(bytes, pos) == [data |-> bytes, pos |-> pos, value |-> Nullopt, ok |-> TRUE]
Fail(r) == [r EXCEPT !.ok = FALSE, !.value = Nullopt]
available(r) == Len(r.data) - r.pos

\* read(size): bytes as they are.
read(r, size) ==
  IF available(r) < size THEN Fail(r)
  ELSE [r EXCEPT !.pos = @ + size, !.value = SubSeq(r.data, r.pos + 1, r.pos + size)]

\* readPrimitive turns the bytes round in the buffer itself.
readPrimitive(r, size) ==
  IF available(r) < size THEN Fail(r)
  ELSE LET flipped == flipEndian(r.data, r.pos, size)
       IN [r EXCEPT !.data = flipped, !.pos = @ + size,
                    !.value = fromMemory(SubSeq(flipped, r.pos + 1, r.pos + size))]

\* Slip: the value is not taken down to what it was before it was written.
readWithLoss_kept(r) ==
  LET v == readPrimitive(r, 2)
  IN IF v.ok /\ v.value = 0 THEN [v EXCEPT !.value = Nullopt] ELSE v

readWithLoss(r) ==
  LET v == readPrimitive(r, 2)
  IN IF ~v.ok THEN v
     ELSE [v EXCEPT !.value = IF v.value = 0 THEN Nullopt ELSE v.value - 1]

\* readDyn: when the bytes are too few, their count is read already.
readDyn(r) ==
  LET size == readPrimitive(r, 4)
  IN IF size.ok THEN read(size, size.value) ELSE size

\* readDyn of a list, for an each that reads one byte of every element: what
\* else an element has is no matter of the next one.
readDynList(r) ==
  LET count == readPrimitive(r, 4)
      each(q) ==
        LET element == readDyn(q)
            first == readPrimitive(Reader(element.value, 0), 1)
        IN IF ~q.ok THEN q
           ELSE IF ~element.ok THEN Fail(element)
           ELSE IF ~first.ok THEN Fail(element)
           ELSE [element EXCEPT !.value = Append(q.value, first.value)]
      after[i \in 0 .. count.value] ==
        IF i = 0 THEN [count EXCEPT !.value = <<>>] ELSE each(after[i - 1])
  IN IF ~count.ok THEN count ELSE after[count.value]

decoded(r, kind) ==
  CASE kind = "byte"     -> readPrimitive(r, 1)
    [] kind = "word"     -> readPrimitive(r, 2)
    [] kind = "optional" -> readWithLoss(r)
    [] kind = "dyn"      -> readDyn(r)
    [] kind = "list"     -> readDynList(r)

-----------------------------------------------------------------------------
Write(f) ==
  /\ bufferStage = "writing"
  /\ Len(fieldsWritten) < MaxFields
  /\ fieldsWritten' = Append(fieldsWritten, f)
  /\ m_data' = m_data \o encoded(f)
  /\ UNCHANGED <<m_pos, m_valid, isCut, results, bufferStage>>

\* collect, and the ReadBuffer made of n of the bytes.
Deliver(n) ==
  /\ bufferStage = "writing"
  /\ m_data' = SubSeq(m_data, 1, n)
  /\ isCut' = (n < Len(m_data))
  /\ bufferStage' = "reading"
  /\ UNCHANGED <<fieldsWritten, m_pos, m_valid, results>>

\* read, readWithLoss or readDyn of the next field; after one that failed
\* another would be an assertion's failure, so its callers return.
Read ==
  LET r == decoded(Reader(m_data, m_pos), fieldsWritten[Len(results) + 1].kind)
  IN /\ bufferStage = "reading"
     /\ m_valid
     /\ Len(results) < Len(fieldsWritten)
     /\ m_data' = r.data
     /\ m_pos' = r.pos
     /\ m_valid' = r.ok
     /\ results' = IF r.ok THEN Append(results, r.value) ELSE results
     /\ bufferStage' = IF r.ok THEN "reading" ELSE "failed"
     /\ UNCHANGED <<fieldsWritten, isCut>>

NextBuffer ==
  \/ \E f \in Field : Write(f)
  \/ \E n \in 0 .. Len(m_data) : Deliver(n)
  \/ Read

SpecBuffer == InitBuffer /\ [][NextBuffer]_bufferVars

-----------------------------------------------------------------------------
\* What of a field comes back: an optional top value as none.
survives(f) ==
  CASE f.kind = "optional" /\ f.value = Top -> Nullopt
    [] f.kind = "list" -> [i \in DOMAIN f.value |-> Head(f.value[i])]
    [] OTHER -> f.value

(***************************************************************************)
(* Fields read as the kinds they were written as have the values that were *)
(* written, but for an optional's top value, which is lost; the reader     *)
(* fails at the field where the bytes end and at no other, and one that    *)
(* read everything has no byte left.                                       *)
(***************************************************************************)
WrittenIsRead ==
  /\ \A i \in DOMAIN results : results[i] = survives(fieldsWritten[i])
  /\ bufferStage = "failed" =>
       LET end == [i \in 1 .. Len(results) + 1 |-> encoded(fieldsWritten[i])]
       IN isCut /\ Len(m_data) < Len(FlattenSeq(end))
  /\ (bufferStage = "reading" /\ Len(results) = Len(fieldsWritten)) =>
       (m_pos = Len(m_data) /\ ~isCut)
=============================================================================
