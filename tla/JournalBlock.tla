----------------------------- MODULE JournalBlock -----------------------------
(***************************************************************************)
(* The serialization of journal tx blocks in src/kstor/journal.cpp:        *)
(* Journal::WriteTxBlockPrepare turns a block in host order into its       *)
(* on-disk form, Journal::ReadTxBlockComplete turns it back.               *)
(*                                                                         *)
(* A value of w bytes is stored as w digits of base Radix (256 in the      *)
(* code), least significant first on a little-endian host and most        *)
(* significant first on a big-endian one.  Core::BitOps and Core::XXHash   *)
(* and the Api block structures are not in the source tree: the            *)
(* conversions are taken as the byte swap they are (spec 4.3.7), the       *)
(* digest as some deterministic function of the bytes before Hash, and the *)
(* layout as Type followed by the fields of the block's type (spec 3;      *)
(* TxId and the data payload are raw bytes no step converts).              *)
(***************************************************************************)
EXTENDS Naturals, Sequences

LOCAL INSTANCE SequencesExt

CONSTANTS
    TypeBegin,   \* Api::JournalBlockTypeTxBegin
    TypeData,    \* Api::JournalBlockTypeTxData
    TypeCommit,  \* Api::JournalBlockTypeTxCommit
    Radix,       \* values of a byte
    W32,         \* bytes of a u32 field
    W64,         \* bytes of a u64 field
    HashMod      \* number of digest values

Hosts == {"LE", "BE"}

TxTypes == {TypeBegin, TypeData, TypeCommit}

Width == [Type |-> W32, Position |-> W64, DataSize |-> W32,
          State |-> W32, Time |-> W64]

\* The converted fields of a block of each type, in layout order.
FieldsOf(type) ==
    CASE type = TypeData   -> <<"Type", "Position", "DataSize">>
      [] type = TypeCommit -> <<"Type", "State", "Time">>
      [] OTHER             -> <<"Type">>

\* The w digits of v, least significant first, and back.
RECURSIVE LEDigits(_, _)
LEDigits(w, v) ==
    IF w = 0 THEN <<>> ELSE <<v % Radix>> \o LEDigits(w - 1, v \div Radix)

RECURSIVE FromLE(_)
FromLE(d) == IF d = <<>> THEN 0 ELSE Head(d) + Radix * FromLE(Tail(d))

\* The bytes a host stores for the w-byte value v, and the value it reads
\* from bytes d.
Store(host, w, v) ==
    IF host = "LE" THEN LEDigits(w, v) ELSE Reverse(LEDigits(w, v))

Fetch(host, d) == IF host = "LE" THEN FromLE(d) ELSE FromLE(Reverse(d))

\* Core::BitOps::CpuToLe32/64 and Le32/64ToCpu: the value whose bytes in
\* memory are the little-endian bytes of v, and the inverse.
CpuToLe(host, w, v) == Fetch(host, LEDigits(w, v))

LeToCpu(host, w, v) == FromLE(Store(host, w, v))

\* The page bytes of the fields fs of block memory m.
RECURSIVE Bytes(_, _, _)
Bytes(host, m, fs) ==
    IF fs = <<>> THEN <<>>
    ELSE Store(host, Width[Head(fs)], m[Head(fs)]) \o Bytes(host, m, Tail(fs))

\* Core::XXHash::Sum over the bytes before Hash.
RECURSIVE XXHashSum(_)
XXHashSum(d) ==
    IF d = <<>> THEN 0 ELSE (Head(d) + 3 * XXHashSum(Tail(d))) % HashMod

\* Mutant of WriteTxBlockPrepare: DataSize is left in host order.
WriteTxBlockPrepareNoSizeSwap(host, m) ==
    IF m.Type \notin TxTypes THEN [err |-> "InvalidValue"]
    ELSE LET le == [f \in DOMAIN m |->
                      IF f = "DataSize" THEN m[f] ELSE CpuToLe(host, Width[f], m[f])]
             bytes == Bytes(host, le, FieldsOf(m.Type))
         IN [err |-> "Success", page |-> [bytes |-> bytes, hash |-> XXHashSum(bytes)]]

\* Journal::WriteTxBlockPrepare on the page holding block m: the switch on
\* Type (still in host order) picks the fields to convert to little-endian,
\* Type is converted last, and the digest of the bytes is written to Hash.
WriteTxBlockPrepare(host, m) ==
    IF m.Type \notin TxTypes THEN [err |-> "InvalidValue"]
    ELSE LET le == [f \in DOMAIN m |-> CpuToLe(host, Width[f], m[f])]
             bytes == Bytes(host, le, FieldsOf(m.Type))
         IN [err |-> "Success", page |-> [bytes |-> bytes, hash |-> XXHashSum(bytes)]]

\* The fields fs read from bytes d and converted to host order.
RECURSIVE Decode(_, _, _)
Decode(host, d, fs) ==
    IF fs = <<>> THEN <<>>
    ELSE LET w == Width[Head(fs)]
         IN <<LeToCpu(host, w, Fetch(host, SubSeq(d, 1, w)))>>
            \o Decode(host, SubSeq(d, w + 1, Len(d)), Tail(fs))

\* The block with fields fs and values vs.
AsBlock(fs, vs) == [f \in ToSet(fs) |-> vs[CHOOSE i \in 1..Len(fs) : fs[i] = f]]

\* Mutant of ReadTxBlockComplete: Type is used without Le32ToCpu.
ReadTxBlockCompleteNoTypeSwap(host, page) ==
    IF XXHashSum(page.bytes) # page.hash THEN [err |-> "DataCorrupt"]
    ELSE LET type == Fetch(host, SubSeq(page.bytes, 1, W32))
         IN IF type \notin TxTypes THEN [err |-> "InvalidValue"]
            ELSE [err |-> "Success",
                  blk |-> AsBlock(FieldsOf(type),
                                  Decode(host, page.bytes, FieldsOf(type)))]

\* Journal::ReadTxBlockComplete: a digest that differs from Hash is
\* DataCorrupt; then Type is converted to host order and the switch on it
\* converts the fields of its type; an unknown Type is InvalidValue.
ReadTxBlockComplete(host, page) ==
    IF XXHashSum(page.bytes) # page.hash THEN [err |-> "DataCorrupt"]
    ELSE LET type == LeToCpu(host, W32, Fetch(host, SubSeq(page.bytes, 1, W32)))
         IN IF type \notin TxTypes THEN [err |-> "InvalidValue"]
            ELSE [err |-> "Success",
                  blk |-> AsBlock(FieldsOf(type),
                                  Decode(host, page.bytes, FieldsOf(type)))]

=============================================================================
