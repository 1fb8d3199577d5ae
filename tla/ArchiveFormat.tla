----------------------------- MODULE ArchiveFormat -----------------------------
(***************************************************************************)
(* The archives an import is read from and written to, services/archive.ts *)
(* A tar is a sequence of blocks: a header, then the contents, filled up   *)
(* to a whole block, and no way to find the next header but counting.  Of  *)
(* a zip only the central directory matters here, whose 32-bit fields say  *)
(* "look elsewhere" when they are all ones.                                *)
(***************************************************************************)
EXTENDS Integers, Sequences, SequencesExt, Places

CONSTANTS
    Block,      \* bytes of a tar block, 512
    SizeDigits, \* octal digits a header has room for, 12
    LongNames,  \* names of more than 99 bytes
    ZipMax      \* the largest value of a zip field, 2^32 - 1

ASSUME FormatAssumption == {Block, SizeDigits, ZipMax} \subseteq Nat \ {0}

-----------------------------------------------------------------------------
(* Tar.  A member is a record with a name and a size in bytes.             *)

Zero == [is |-> "zero"]
Data == [is |-> "data"]
Header(name, size, flag) == [is |-> "header", name |-> name, size |-> size, flag |-> flag]

Blocks(size) == (size + Block - 1) \div Block

\* The field is written from the left: what does not fit is cut off.
SizeField(size) ==
    LET Fits(k) == size \div 8^k < 8^SizeDigits IN
    size \div 8^(CHOOSE k \in 0 .. 10 : Fits(k) /\ \A i \in 0 .. k - 1 : ~Fits(i))

TarHeader(m) == Header(m.name, SizeField(m.size), "file")

\* tarSize, what the upload announces as its Content-Length
TarSize(members) ==
    LET total[n \in 0 .. Len(members)] ==
            IF n = 0 THEN 0 ELSE total[n - 1] + 1 + Blocks(members[n].size)
    IN Block * (total[Len(members)] + 2)

Contents(written) == [i \in 1 .. Blocks(written) |-> Data]

(***************************************************************************)
(* tarStream: the blocks that come out when the sources of the members     *)
(* deliver so many bytes.  It throws before a member whose name is too     *)
(* long, and after the contents of one that are not as many bytes as its   *)
(* header has said.                                                        *)
(***************************************************************************)
Throwing(members, delivered) ==
    {i \in DOMAIN members :
        members[i].name \in LongNames \/ delivered[i] # members[i].size}

TarStream(members, delivered) ==
    LET at == Throwing(members, delivered)
        last == IF at = {} THEN Len(members) ELSE Min(at)
        Member(i) == IF members[i].name \in LongNames THEN <<>>
                     ELSE <<TarHeader(members[i])>> \o Contents(delivered[i])
    IN FlattenSeq([i \in 1 .. last |-> Member(i)])
       \o IF at = {} THEN <<Zero, Zero>> ELSE <<>>

(***************************************************************************)
(* listTarEntries, block by block.  A GNU 'L' record gives the name of the *)
(* next member, a PAX 'x' record if it says path=; what else it says, and  *)
(* a global 'g' record, is passed over.  The contents of such a record are *)
(* told with its header here.  A block of contents that is taken for a     *)
(* header ends the walk, as the first one of zeros in a disk does; what    *)
(* is made of the ones before it is left out.                              *)
(***************************************************************************)
AtStart == [skip |-> 0, long |-> <<>>, walk |-> "on", entries |-> <<>>]
Naming(b) == b.flag = "L" \/ (b.flag = "x" /\ "path" \in DOMAIN b.name)
NameIn(b) == IF b.flag = "L" THEN b.name ELSE b.name.path
Entered(st, b) ==
    Append(st.entries, [name |-> IF st.long = <<>> THEN b.name ELSE st.long, size |-> b.size])

\* Mutant: the long name is used for all the members that follow.
TakeSticky(st, b) ==
    CASE Naming(b) -> [st EXCEPT !.long = NameIn(b)]
      [] b.flag \in {"x", "g"} /\ ~Naming(b) -> st
      [] OTHER -> [st EXCEPT !.entries = Entered(st, b)]

Take(st, b) ==
    CASE Naming(b) -> [st EXCEPT !.long = NameIn(b)]
      [] b.flag \in {"x", "g"} /\ ~Naming(b) -> st
      [] OTHER -> [st EXCEPT !.long = <<>>, !.entries = Entered(st, b)]

Read(st, b) ==
    IF st.walk = "over" THEN st
    ELSE IF st.skip > 0 THEN [st EXCEPT !.skip = @ - 1]
    ELSE IF b.is # "header" THEN [st EXCEPT !.walk = "over"]
    ELSE [Take(st, b) EXCEPT !.skip = Blocks(b.size)]

ListTar(tape) ==
    LET walk[n \in 0 .. Len(tape)] ==
            IF n = 0 THEN AtStart ELSE Read(walk[n - 1], tape[n])
    IN walk[Len(tape)].entries

(***************************************************************************)
(* A tar as other programs write it.  A long name stands in a record       *)
(* before the header, which keeps a shortened one.  In a GNU header a size *)
(* that does not fit is written in base 256; in a PAX header there is room *)
(* for a digit less, and a larger size stands in the record only.          *)
(***************************************************************************)
PaxMax == 8^(SizeDigits - 1)

PaxRecord(m) ==
    LET said == {"mtime"} \cup (IF m.long THEN {"path"} ELSE {})
                          \cup (IF m.size >= PaxMax THEN {"size"} ELSE {})
        all == [mtime |-> 0, path |-> m.name, size |-> m.size]
    IN Header([k \in said |-> all[k]], 1, "x")

PaxGlobal == Header([path |-> <<"pax">>], 1, "g")

Before(m, how) ==
    IF how = "pax" THEN <<PaxRecord(m), Data>>
    ELSE IF m.long THEN <<Header(m.name, 1, "L"), Data>>
    ELSE <<>>

ForeignHeader(m, how) ==
    Header(IF m.long THEN <<"cut", m.name>> ELSE m.name,
           IF how = "pax" /\ m.size >= PaxMax THEN 0 ELSE m.size, "file")

ForeignTar(members, how) ==
    LET Part(m) == Before(m, how) \o <<ForeignHeader(m, how)>> \o Contents(m.size)
    IN (IF how = "pax" THEN <<PaxGlobal, Data>> ELSE <<>>)
       \o FlattenSeq([i \in DOMAIN members |-> Part(members[i])]) \o <<Zero, Zero>>

-----------------------------------------------------------------------------
(* Zip.  The fields of a central directory record are, in the order of the *)
(* ZIP64 extra field: size, compressed size, offset of the local header.   *)

\* What other programs write: the fields that overflow move to the extra field.
ZipRecord(e) ==
    LET fields == <<e.size, e.compressed, e.offset>>
        over == {i \in 1 .. 3 : fields[i] >= ZipMax}
        time == [tag |-> "time", values |-> <<0>>]
    IN [name |-> e.name,
        fields |-> [i \in 1 .. 3 |-> IF i \in over THEN ZipMax ELSE fields[i]],
        extra |-> IF over = {} THEN <<time>>
                  ELSE <<time, [tag |-> "zip64", values |-> Picked(fields, over)]>>]

\* listZipEntries: the values that are there belong to the fields that say so.
ReadRecord(r) ==
    LET zip64 == {i \in DOMAIN r.extra : r.extra[i].tag = "zip64"}
        moved == {i \in DOMAIN r.fields : r.fields[i] = ZipMax}
        Value(i) == IF i \in moved /\ zip64 # {}
                    THEN r.extra[Min(zip64)].values[Rank(moved, i)]
                    ELSE r.fields[i]
    IN [name |-> r.name, size |-> Value(1), compressed |-> Value(2), offset |-> Value(3)]

ListZip(central) == [i \in DOMAIN central |-> ReadRecord(central[i])]
=============================================================================
