--------------------------- MODULE SqliteRecords ---------------------------
(***************************************************************************)
(* The records of a SQLite page, byte by byte (rc-sqlite-carve): varints,  *)
(* serial types, and a row looked for where its cell was freed.  A page is *)
(* a sequence of bytes; offsets are counted from 0, as in the code.  Text  *)
(* is UTF-8 and of single bytes here.                                      *)
(***************************************************************************)
EXTENDS Integers, Sequences, SequencesExt, FiniteSetsExt

CONSTANT Null    \* Value::Null

NoRecord == [found |-> FALSE]

Byte(d, o) == d[o + 1]
Slice(d, from, to) == SubSeq(d, from + 1, to)

\* varint: the bytes up to the first without the top bit, nine at most.  A value
\* of more than four bytes is only known to be large.
Large == 2 ^ 28
VarintLength(d, o) ==
  LET ends == {i \in 0 .. 8 : o + i < Len(d) /\ (Byte(d, o + i) < 128 \/ i = 8)}
  IN  IF ends = {} THEN 0 ELSE Min(ends) + 1
Varint(d, o) ==
  LET n == VarintLength(d, o) IN
  IF n > 4 THEN Large
  ELSE FoldLeft(LAMBDA v, b : v * 128 + (b % 128), 0, Slice(d, o, o + n))

\* serial_len; the reserved types have none.
IsReserved(t) == t \in {10, 11}
SerialLen(t) ==
  CASE t \in {0, 8, 9} -> 0 [] t \in 1 .. 4 -> t [] t = 5 -> 6 [] t \in {6, 7} -> 8
    [] OTHER -> (t - 12) \div 2

IsInt(t)  == t \in 0 .. 6 \cup {8, 9}
IsText(t) == t >= 13 /\ t % 2 = 1
IsBlob(t) == t >= 12 /\ t % 2 = 0

\* decode_value; None of it is what is no text.
Signed(bytes) ==
  FoldLeft(LAMBDA v, b : v * 256 + b, IF bytes[1] >= 128 THEN -1 ELSE 0, bytes)
DecodeValue(t, bytes) ==
  CASE t = 0 -> [kind |-> "null"]
    [] t \in 1 .. 6 -> [kind |-> "integer", value |-> Signed(bytes)]
    [] t \in {8, 9} -> [kind |-> "integer", value |-> t - 8]
    [] t = 7 -> [kind |-> "real", bytes |-> bytes]
    [] IsText(t) -> [kind |-> "text", bytes |-> bytes]
    [] OTHER -> [kind |-> "blob", bytes |-> bytes]

\* fits: what a column of this affinity may hold on disk.
Fits(column, t) ==
  CASE column = "alias" -> t = 0
    [] column = "text"  -> t = 0 \/ IsText(t)
    [] column = "blob"  -> ~IsReserved(t)
    [] OTHER -> IsInt(t) \/ t = 7 \/ IsText(t) \/ IsBlob(t)

\* believable: printable text, a third of the columns not null, and two values
\* that say something.
Printable(b) == b \in {9, 10, 13} \/ b \in 32 .. 126
Informative(v) ==
  \/ v.kind = "text" /\ v.bytes # <<>>
  \/ v.kind = "integer" /\ v.value # 0
  \/ v.kind \in {"real", "blob"}
Believable(values) ==
  LET Count(P(_)) == Len(SelectSeq(values, P)) IN
  /\ 3 * Count(LAMBDA v : v.kind # "null") >= Len(values)
  /\ \A i \in DOMAIN values : values[i].kind = "text" =>
       \A k \in DOMAIN values[i].bytes : Printable(values[i].bytes[k])
  /\ Count(Informative) >= 2

-----------------------------------------------------------------------------
(* Records                                                                 *)

\* The types at offset o, one for each column left: [types, end], or NoRecord
\* when one does not fit, is cut off, or would begin at the limit.
RECURSIVE TypesAt(_, _, _, _, _)
TypesAt(d, o, columns, limit, types) ==
  IF columns = <<>> THEN [found |-> TRUE, types |-> types, end |-> o]
  ELSE IF o >= limit \/ VarintLength(d, o) = 0 THEN NoRecord
  ELSE IF ~Fits(Head(columns), Varint(d, o)) THEN NoRecord
  ELSE TypesAt(d, o + VarintLength(d, o), Tail(columns), limit, Append(types, Varint(d, o)))

\* decode_record of the values that follow their types.
Values(d, o, types) ==
  LET start == [k \in DOMAIN types |->
                  o + FoldLeft(LAMBDA s, t : s + SerialLen(t), 0, SubSeq(types, 1, k - 1))]
  IN  [k \in DOMAIN types |->
         DecodeValue(types[k], Slice(d, start[k], start[k] + SerialLen(types[k])))]

BodyLength(types) == FoldLeft(LAMBDA s, t : s + SerialLen(t), 0, types)

Row(d, head, types, length) ==
  LET body == BodyLength(types)
      values == Values(d, head, types)
      text == UNION {Range(values[k].bytes) : k \in {j \in DOMAIN values : values[j].kind = "text"}}
  IN  IF head + body > Len(d) \/ \E t \in Range(types) : IsReserved(t) THEN NoRecord
      ELSE IF (\E b \in text : b >= 128) \/ ~Believable(values) THEN NoRecord
      ELSE [found |-> TRUE, values |-> values, length |-> length + body]

\* record_at: the header says its own size, and its types fill it.
RecordAt(d, s, columns) ==
  LET hl == VarintLength(d, s)
      h  == Varint(d, s)
      t  == TypesAt(d, s + hl, columns, s + h, <<>>)
  IN  IF hl = 0 \/ h < hl + Len(columns) \/ h > hl + 9 * Len(columns) THEN NoRecord
      ELSE IF ~t.found THEN NoRecord
      ELSE IF t.end # s + h THEN NoRecord
      ELSE Row(d, s + h, t.types, h)

\* record_headerless: from the types on; with alias_lost the first of them, of a
\* rowid alias, is gone too.
RecordHeaderless(d, types_at, columns, alias_lost) ==
  LET t == TypesAt(d, types_at, IF alias_lost THEN Tail(columns) ELSE columns, Large, <<>>)
      types == IF alias_lost THEN <<0>> \o t.types ELSE t.types
  IN  IF alias_lost /\ Head(columns) # "alias" THEN NoRecord
      ELSE IF ~t.found THEN NoRecord
      ELSE Row(d, t.end, types, t.end - types_at)

\* rowid_before: the first reading of the bytes before a record as the length
\* of that record and a rowid.
RowidBefore(d, s, length) ==
  LET Reads(lr, lp) ==
        /\ s >= lr + lp
        /\ VarintLength(d, s - lr - lp) = lp /\ Varint(d, s - lr - lp) = length
        /\ VarintLength(d, s - lr) = lr
      places == {<<lr, lp>> \in (1 .. 9) \X (1 .. 3) : Reads(lr, lp)}
  IN  IF places = {} THEN Null
      ELSE Varint(d, s - Min({p[1] : p \in places}))

\* Carver::scan of [s, end): a record, and on after it, or the next byte.
RECURSIVE ScanRegion(_, _, _, _)
ScanRegion(d, s, end, columns) ==
  IF s >= end THEN <<>>
  ELSE LET After(r) ==
             IF r.found
               THEN <<[values |-> r.values, rowid |-> RowidBefore(d, s, r.length)]>>
                      \o ScanRegion(d, s + r.length, end, columns)
               ELSE ScanRegion(d, s + 1, end, columns)
       IN  After(RecordAt(d, s, columns))

\* free_space of one freeblock: a record whose beginning its header destroyed,
\* then whatever else is in it.
Freeblock(d, fb, size, columns) ==
  LET end == IF fb + size < Len(d) THEN fb + size ELSE Len(d)
      From(tries) ==
        IF tries = <<>> THEN ScanRegion(d, fb, end, columns)
        ELSE <<[values |-> tries[1].values, rowid |-> Null]>>
               \o ScanRegion(d, fb + 4 + tries[1].length, end, columns)
  IN  From(SelectSeq(<<RecordHeaderless(d, fb + 4, columns, FALSE),
                       RecordHeaderless(d, fb + 4, columns, TRUE)>>,
                     LAMBDA r : r.found))

-----------------------------------------------------------------------------
(* Properties.  A cell as SQLite writes it.                                *)

VarintBytes(v) == IF v < 128 THEN <<v>> ELSE <<128 + (v \div 128), v % 128>>
RecordBytes(types, body) ==
  LET coded == FlattenSeq([k \in DOMAIN types |-> VarintBytes(types[k])])
  IN  VarintBytes(Len(coded) + 1) \o coded \o body
CellBytes(rowid, record) == VarintBytes(Len(record)) \o VarintBytes(rowid) \o record

\* Freed: the link and size of the freeblock over its first four bytes.
FreedBytes(cell) == <<0, 0, 0, Len(cell)>> \o SubSeq(cell, 5, Len(cell))

\* A deleted row whose cell is as it was, anywhere in a region, is found with
\* its rowid.
IntactRowIsFound(columns, types, body, rowid, before) ==
  LET record == RecordBytes(types, body)
      cell == CellBytes(rowid, record)
      row == RecordAt(record, 0, columns)
  IN  row.found =>
        \E r \in Range(ScanRegion(before \o cell, 0, Len(before \o cell), columns)) :
          r.values = row.values /\ r.rowid = rowid

\* A deleted row in a freeblock is found although the freeblock's header is over
\* the beginning of its cell: payload length, rowid and record header in one to
\* four bytes, or in more and then still there; but not when only some of the
\* record's types are under it, a rowid alias that comes first apart.
FreedRowIsFound(columns, types, body, rowid) ==
  LET record == RecordBytes(types, body)
      cell == CellBytes(rowid, record)
      row == RecordAt(record, 0, columns)
      lost == 4 - (Len(cell) - Len(record))     \* bytes of the record
  IN  row.found /\ (lost <= 1 \/ (lost = 2 /\ columns[1] = "alias")) =>
        row.values \in {r.values : r \in Range(Freeblock(FreedBytes(cell), 0, Len(cell), columns))}
=============================================================================
