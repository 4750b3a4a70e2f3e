------------------------------ MODULE RowCodec ------------------------------
(***************************************************************************)
(* How a row becomes bytes and bytes become a row: encode_row and          *)
(* decode_row of engine/storage_engine.py, behind the checks of the        *)
(* analyser that are to make every row as wide as its table.               *)
(*                                                                         *)
(* A value is the sequence of its bytes.  Of the bytes there are NUL, a    *)
(* letter, and the two halves of a character that takes two; an INT is one *)
(* cell of IntSize bytes.  The table is on one page, with room for all its *)
(* rows.                                                                   *)
(***************************************************************************)
EXTENDS Naturals, SequencesExt, FiniteSetsExt

CONSTANTS
    Columns,  \* the table: a kind, "INT" or "VARCHAR", and a width each
    Strings,  \* the string literals, in UTF-8
    INT_MAX,  \* the greatest integer an INT holds
    MaxRows   \* bound on the rows

NUL == 0
Lead == 2   \* the first and second half of a two-byte character
Trail == 3

VARIABLES
    stored, \* the bytes of each row
    rows,   \* history: the row that each statement meant to store
    wide,   \* history: the rows last written by a copy that did not fit
    spoilt  \* history: the rows ever written by such a copy

codecVars == <<stored, rows, wide, spoilt>>

-----------------------------------------------------------------------------
(* Encoding and decoding.                                                  *)

(* bytes.ljust(width): a longer value stays as it is. *)
Pad(bytes, width) == bytes \o [k \in 1 .. width - Len(bytes) |-> NUL]
Strip(bytes) ==
    SubSeq(bytes, 1, Max({0} \cup {i \in DOMAIN bytes : bytes[i] # NUL}))
IsText(bytes) ==
    \A i \in DOMAIN bytes :
        /\ bytes[i] = Lead => i < Len(bytes) /\ bytes[i + 1] = Trail
        /\ bytes[i] = Trail => i > 1 /\ bytes[i - 1] = Lead

(* A literal is text: Python has made it from characters.                  *)
ASSUME CodecAssumption ==
    /\ Columns \in Seq([kind : {"INT", "VARCHAR"}, width : Nat])
    /\ \A c \in DOMAIN Columns : Columns[c].kind = "INT" => Columns[c].width = 1
    /\ \A bytes \in Strings : bytes \in Seq(Nat) /\ IsText(bytes)
    /\ INT_MAX \in Nat /\ MaxRows \in Nat

Width(c) == Columns[c].width
Offset(c) == Len(FlattenSeq([k \in 1 .. c - 1 |-> Pad(<<>>, Width(k))]))
RowWidth == Offset(Len(Columns) + 1)
IsInt(c) == Columns[c].kind = "INT"

(* encode_row's own check, of the range of an INT.  One that is read from a
   row is in its range, and so is one copied from it; a cell above INT_MAX is
   what the INT of a row spoilt by a copy may read as. *)
InRange(value, c) == IsInt(c) => value[1] <= INT_MAX
Encode(row) == FlattenSeq([c \in DOMAIN Columns |-> Pad(row[c], Width(c))])

Chunk(data, c) == SubSeq(data, Offset(c) + 1, Offset(c) + Width(c))
(* Faulty variant: zero bytes are taken off an INT as well. *)
DecodeStripped(data) == [c \in DOMAIN Columns |-> Strip(Chunk(data, c))]
Decode(data) ==
    [c \in DOMAIN Columns |->
        IF IsInt(c) THEN Chunk(data, c) ELSE Strip(Chunk(data, c))]
(* bytes.decode raises UnicodeDecodeError, which is not a MiniSQLError. *)
IsReadable(data) ==
    \A c \in DOMAIN Columns : IsInt(c) \/ IsText(Strip(Chunk(data, c)))

-----------------------------------------------------------------------------
(* Statements.  One that is refused, or raises, changes nothing: UPDATE    *)
(* encodes all rows of a page before it replaces one, and every statement  *)
(* on the table decodes every row first.                                   *)

Literals(c) == IF IsInt(c) THEN {<<n>> : n \in 0 .. INT_MAX + 1} ELSE Strings

(* Faulty variant: the length is taken in characters. *)
FitsInCharacters(value, c) ==
    IsInt(c) \/ Cardinality({i \in DOMAIN value : value[i] # Trail}) <= Width(c)

(* The analyser's check of a string literal, in bytes. *)
FitsColumn(value, c) == IsInt(c) \/ Len(value) <= Width(c)

CodecInit == stored = <<>> /\ rows = <<>> /\ wide = {} /\ spoilt = {}

Insert ==
    /\ Len(rows) < MaxRows
    /\ \E row \in {r \in [DOMAIN Columns -> UNION {Literals(c) : c \in DOMAIN Columns}] :
                      \A c \in DOMAIN Columns : r[c] \in Literals(c)} :
         /\ \A c \in DOMAIN Columns : FitsColumn(row[c], c) /\ InRange(row[c], c)
         /\ stored' = Append(stored, Encode(row))
         /\ rows' = Append(rows, [c \in DOMAIN Columns |-> row[c]])
    /\ UNCHANGED <<wide, spoilt>>

(* UPDATE of one column of every row, to value(row) in the code. *)
Write(new, tooLong) ==
    /\ \A i \in DOMAIN stored : IsReadable(stored[i])
    /\ stored' = [i \in DOMAIN stored |-> Encode(new[i])]
    /\ wide' = tooLong
    /\ spoilt' = spoilt \cup tooLong

Put(row, c, value) == [row EXCEPT ![c] = value]

(* SET c = literal. *)
UpdateToLiteral ==
    \E c \in DOMAIN Columns : \E value \in Literals(c) :
        /\ FitsColumn(value, c) /\ InRange(value, c)
        /\ Write([i \in DOMAIN stored |-> Put(Decode(stored[i]), c, value)], {})
        /\ rows' = [i \in DOMAIN rows |-> Put(rows[i], c, value)]

(* SET c = d: only the kinds of the columns are compared. *)
UpdateToColumn ==
    \E c, d \in DOMAIN Columns :
        /\ IsInt(c) <=> IsInt(d)
        /\ Write([i \in DOMAIN stored |->
                    Put(Decode(stored[i]), c, Decode(stored[i])[d])],
                 {i \in DOMAIN stored : Len(Decode(stored[i])[d]) > Width(c)})
        /\ rows' = [i \in DOMAIN rows |-> Put(rows[i], c, rows[i][d])]

(* SET c = c + 1: an INT that leaves its range is a StorageError.  The sum of
   what a spoilt row reads as is some other INT of the kind. *)
Increment(int) == IF int[1] > INT_MAX THEN int ELSE <<int[1] + 1>>
UpdateToSum ==
    \E c \in {k \in DOMAIN Columns : IsInt(k)} :
        /\ \A i \in DOMAIN stored : Decode(stored[i])[c] # <<INT_MAX>>
        /\ Write([i \in DOMAIN stored |->
                    Put(Decode(stored[i]), c, Increment(Decode(stored[i])[c]))], {})
        /\ rows' = [i \in DOMAIN rows |-> Put(rows[i], c, Increment(rows[i][c]))]

(* DELETE without WHERE. *)
Delete ==
    /\ \A i \in DOMAIN stored : IsReadable(stored[i])
    /\ stored' = <<>> /\ rows' = <<>> /\ wide' = {} /\ spoilt' = {}

CodecNext ==
    Insert \/ UpdateToLiteral \/ UpdateToColumn \/ UpdateToSum \/ Delete

CodecSpec == CodecInit /\ [][CodecNext]_codecVars

-----------------------------------------------------------------------------
(* Properties.                                                             *)

(* A row reads back as it was meant, over any sequence of statements, and
   the table can be read.  Two exceptions: zero bytes at the end of a string
   are lost, and nothing is said of a row a copy was too wide for. *)
RoundTrip ==
    \A i \in DOMAIN stored \ spoilt :
        /\ IsReadable(stored[i])
        /\ Decode(stored[i]) =
             [c \in DOMAIN Columns |->
                IF IsInt(c) THEN rows[i][c] ELSE Strip(rows[i][c])]

(* Every row is as wide as its table, apart from just those rows that a
   column too long for the target was last copied into. *)
WideOnlyByCopy ==
    \A i \in DOMAIN stored : i \in wide <=> Len(stored[i]) # RowWidth
=============================================================================
