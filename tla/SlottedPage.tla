---------------------------- MODULE SlottedPage ----------------------------
(***************************************************************************)
(* storage/page.py: one page of PageSize cells.  The header takes the      *)
(* first HeaderSize cells; the slot array grows upwards from there to      *)
(* freeStart, the row data grows downwards from the end to freeEnd.        *)
(*                                                                         *)
(* A cell stands for a byte and says what was last written on it: a byte   *)
(* of a row, the serialised header, a serialised slot, or nothing.  Slots  *)
(* are numbered from 1 here and from 0 in the code; a result of 0 is the   *)
(* code's None.                                                            *)
(***************************************************************************)
EXTENDS Sequences, Integers

CONSTANTS
    PageSize, HeaderSize, SlotSize,  \* 4096, 32 and 4 in the code
    RowCells,                        \* the cells rows are made of
    Rows                             \* the rows a caller may store

ASSUME LayoutAssumption ==
    /\ HeaderSize \in Nat \ {0}
    /\ SlotSize \in Nat \ {0}
    /\ PageSize \in Nat
    /\ HeaderSize <= PageSize

(* A stored row has at least one byte: a table has a column, and a column  *)
(* of the engine is one byte wide or more.                                 *)
ASSUME RowsAssumption == Rows \subseteq Seq(RowCells) \ {<<>>}

Blank == <<"blank", 0, 0>>
HeadCell(n, fs, fe) == <<"head", n, fs, fe>>
SlotCell(slot) == <<"slot", slot.offset, slot.length>>

Slot == [offset : Nat, length : Nat]
Cell == RowCells \cup {Blank}
        \cup ({"head"} \X Nat \X Nat \X Nat) \cup ({"slot"} \X Nat \X Nat)
Bytes == [0 .. PageSize - 1 -> Cell]

VARIABLES
    slots,      \* _slots
    freeStart,  \* _free_start
    freeEnd,    \* _free_end
    data,       \* _data
    image,      \* the page as last serialised, which from_bytes reads back
    result      \* what the last insert_row or update_row returned

vars == <<slots, freeStart, freeEnd, data, image, result>>
page == <<slots, freeStart, freeEnd, data>>

-----------------------------------------------------------------------------
(* The bytes of the page.                                                  *)

WriteAt(bytes, offset, row) ==
    [c \in 0 .. PageSize - 1 |->
        IF c \in offset .. offset + Len(row) - 1
        THEN row[c - offset + 1] ELSE bytes[c]]

RowAt(bytes, slot) == [k \in 1 .. slot.length |-> bytes[slot.offset + k - 1]]

(* The first cell of slot i in the serialised slot array.                  *)
SlotPos(i) == HeaderSize + SlotSize * (i - 1)
SlotSpan(i) == SlotPos(i) .. SlotPos(i) + SlotSize - 1

(* to_bytes writes the header, then every slot, over the data.             *)
Serialise(sl, fs, fe, bytes) ==
    [c \in 0 .. PageSize - 1 |->
        IF c = 0 THEN HeadCell(Len(sl), fs, fe)
        ELSE IF \E i \in DOMAIN sl : c \in SlotSpan(i)
             THEN SlotCell(sl[CHOOSE i \in DOMAIN sl : c \in SlotSpan(i)])
             ELSE bytes[c]]

(* from_bytes: what the header and the slot array say.                     *)
ImageSlots(bytes) ==
    [i \in 1 .. bytes[0][2] |->
        [offset |-> bytes[SlotPos(i)][2], length |-> bytes[SlotPos(i)][3]]]
ImageFreeStart(bytes) == bytes[0][3]
ImageFreeEnd(bytes) == bytes[0][4]

-----------------------------------------------------------------------------
(* A new page, which FileManager.allocate_page has also written out.       *)
Init ==
    /\ slots = <<>>
    /\ freeStart = HeaderSize
    /\ freeEnd = PageSize
    /\ data = Serialise(<<>>, HeaderSize, PageSize,
                        [c \in 0 .. PageSize - 1 |-> Blank])
    /\ image = data
    /\ result = 0

(* Faulty variant: the bound forgets the new slot's own cells.             *)
FitsForgetsSlot(row) == Len(row) <= freeEnd - freeStart

Fits(row) == Len(row) + SlotSize <= freeEnd - freeStart

(* The body of insert_row once the row fits, on the slot array sl.         *)
Place(sl, row) ==
    /\ freeEnd' = freeEnd - Len(row)
    /\ data' = WriteAt(data, freeEnd - Len(row), row)
    /\ slots' = Append(sl, [offset |-> freeEnd - Len(row),
                            length |-> Len(row)])
    /\ freeStart' = freeStart + SlotSize
    /\ result' = Len(sl) + 1

InsertRow(row) ==
    /\ Fits(row)
    /\ Place(slots, row)
    /\ UNCHANGED image

InsertRefused(row) ==
    /\ ~ Fits(row)
    /\ result' = 0
    /\ UNCHANGED <<page, image>>

(* Faulty variants: a deleted slot is marked by a length of -1, or taken   *)
(* out of the slot array.                                                  *)
DeletedMarksMinusOne(s) == [slots EXCEPT ![s].length = -1]
DeletedDropsSlot(s) ==
    [i \in 1 .. Len(slots) - 1 |-> IF i < s THEN slots[i] ELSE slots[i + 1]]

Deleted(s) == [slots EXCEPT ![s].length = 0]

DeleteRow(s) ==
    /\ slots' = Deleted(s)
    /\ UNCHANGED <<freeStart, freeEnd, data, image, result>>

(* Faulty variant: a shorter row is written over a longer one.             *)
InPlaceIfShorter(s, row) == slots[s].length # 0 /\ Len(row) <= slots[s].length

InPlace(s, row) == slots[s].length # 0 /\ Len(row) = slots[s].length

UpdateInPlace(s, row) ==
    /\ InPlace(s, row)
    /\ data' = WriteAt(data, slots[s].offset, row)
    /\ result' = s
    /\ UNCHANGED <<slots, freeStart, freeEnd, image>>

(* delete_row then insert_row; the deletion stays when the insert fails.   *)
UpdateMoves(s, row) ==
    /\ ~ InPlace(s, row)
    /\ Fits(row)
    /\ Place(Deleted(s), row)
    /\ UNCHANGED image

UpdateLoses(s, row) ==
    /\ ~ InPlace(s, row)
    /\ ~ Fits(row)
    /\ slots' = Deleted(s)
    /\ result' = 0
    /\ UNCHANGED <<freeStart, freeEnd, data, image>>

(* to_bytes writes into the page's own buffer before it copies it out.     *)
ToBytes ==
    /\ data' = Serialise(slots, freeStart, freeEnd, data)
    /\ image' = data'
    /\ UNCHANGED <<slots, freeStart, freeEnd, result>>

FromBytes ==
    /\ slots' = ImageSlots(image)
    /\ freeStart' = ImageFreeStart(image)
    /\ freeEnd' = ImageFreeEnd(image)
    /\ data' = image
    /\ UNCHANGED <<image, result>>

Next ==
    \/ \E row \in Rows : InsertRow(row)
    \/ \E row \in Rows : InsertRefused(row)
    \/ \E s \in DOMAIN slots : DeleteRow(s)
    \/ \E s \in DOMAIN slots, row \in Rows : UpdateInPlace(s, row)
    \/ \E s \in DOMAIN slots, row \in Rows : UpdateMoves(s, row)
    \/ \E s \in DOMAIN slots, row \in Rows : UpdateLoses(s, row)
    \/ ToBytes
    \/ FromBytes

Spec == Init /\ [][Next]_vars

-----------------------------------------------------------------------------
(* TypeOK: the page's fields have their types, and the header and the slot *)
(* array read back from the serialised page do too.                        *)
TypeOK ==
    /\ slots \in Seq(Slot)
    /\ freeStart \in Nat /\ freeEnd \in Nat
    /\ data \in Bytes
    /\ image \in Bytes
    /\ result \in Nat

(* The slot array ends at fs, the rows start at fe, and no two of them     *)
(* share a cell.                                                           *)
LayoutOf(sl, fs, fe) ==
    /\ fs = HeaderSize + SlotSize * Len(sl)
    /\ fs <= fe
    /\ fe <= PageSize
    /\ \A i \in DOMAIN sl : sl[i].length # 0 =>
          fe <= sl[i].offset /\ sl[i].offset + sl[i].length <= PageSize
    /\ \A i, j \in DOMAIN sl :
          i # j /\ sl[i].length # 0 /\ sl[j].length # 0 =>
             \/ sl[i].offset + sl[i].length <= sl[j].offset
             \/ sl[j].offset + sl[j].length <= sl[i].offset

(* Layout: whatever is inserted, deleted, updated and reloaded, the slot   *)
(* array never grows into the rows and live rows never overlap, in the     *)
(* page (insert_row's bound counts the new slot) and in the serialised one.*)
Layout ==
    /\ LayoutOf(slots, freeStart, freeEnd)
    /\ LayoutOf(ImageSlots(image), ImageFreeStart(image), ImageFreeEnd(image))

(* SlotsNotReused: a slot that was emptied is never given out again, so a  *)
(* slot number kept across a scan still names the row it named; only       *)
(* reloading an older image can bring a row back.                          *)
SlotsNotReused ==
    [][\/ FromBytes
       \/ /\ Len(slots') >= Len(slots)
          /\ \A s \in DOMAIN slots :
                slots[s].length = 0 => slots'[s].length = 0]_vars

(* PageStoresRows: the page is a list of rows: every live slot reads back  *)
(* the row last put under its number, across to_bytes and from_bytes, and  *)
(* no operation on one slot disturbs another.                              *)
View(sl, bytes) == [s \in DOMAIN sl |-> RowAt(bytes, sl[s])]

Abstract == INSTANCE RowStore WITH
    NoRow <- <<>>,
    rows <- View(slots, data),
    saved <- View(ImageSlots(image), image),
    result <- result

PageStoresRows == Abstract!Spec
=============================================================================
