------------------------------ MODULE ElfImage ------------------------------
(***************************************************************************)
(* What the loader reads out of one ELF file: the memory image of its      *)
(* segments (objects/object_data/mod.rs), packed relative relocations      *)
(* (strategies/relocate.rs, elf/relocate.rs), the symbol hash tables       *)
(* (hash_tables.rs) and the dynamic array (dynamic_fields.rs).  Each is a  *)
(* computation of one call; `input` says which, and on what.  What a       *)
(* linker writes into the file is external: the section "linker" below.    *)
(***************************************************************************)
EXTENDS Naturals, Sequences, FiniteSets, SequencesExt, FiniteSetsExt, Functions

CONSTANTS
  PageBytes,  \* units in a page
  WordBits,   \* BITMAP_WORD_COUNT: words that a Relr bitmap covers
  BloomBits,  \* bits of a bloom word
  Inputs      \* of the runs

VARIABLES input, output
vars == <<input, output>>

Pending == [kind |-> "none"]
Begins == output = Pending
Init == input \in Inputs /\ Begins

-----------------------------------------------------------------------------
(* Segments.  A header is offset, vaddr, filesz and memsz; the file's byte *)
(* k is the value k + 1, and 0 is a zero byte.                             *)
PageStart(x) == (x \div PageBytes) * PageBytes
PageUp(x) == PageStart(x + PageBytes - 1)

(* The reservation is whole pages of zeroes.                               *)
ReservedBytes(headers) ==
  PageUp(Max({h.vaddr + h.memsz : h \in headers})) - PageStart(Min({h.vaddr : h \in headers}))

(* load_segment: the file's pages over the reservation, to the end of the  *)
(* last page (what is behind the end of the file reads as zero), then      *)
(* zeroes from the end of the file's part to the end of the segment.       *)
MappedEnd(h) == PageStart(h.vaddr) + PageUp(h.offset + h.filesz - PageStart(h.offset))
FileByte(i, length) == IF i < length THEN i + 1 ELSE 0
Zeroed(h) == (h.vaddr + h.filesz)..(h.vaddr + h.memsz - 1)

LoadSegment(memory, h, length) ==
  [a \in DOMAIN memory |->
     IF a \in Zeroed(h) THEN 0
     ELSE IF a \in PageStart(h.vaddr)..(MappedEnd(h) - 1)
       THEN FileByte(PageStart(h.offset) + a - PageStart(h.vaddr), length)
     ELSE memory[a]]

LoadFile ==
  /\ input.kind = "file"
  /\ output' = IF ~\E i \in DOMAIN input.headers : input.headers[i].offset = 0 /\ input.headers[i].vaddr = 0
       THEN [kind |-> "error"]
       ELSE [kind |-> "image",
             memory |-> FoldLeft(LAMBDA m, h : LoadSegment(m, h, input.length),
                                 [a \in 0..(ReservedBytes(ToSet(input.headers)) - 1) |-> 0],
                                 input.headers)]

-----------------------------------------------------------------------------
(* Relr.  An entry is an address, or a bitmap (the set of its bits) over   *)
(* the words behind the last address or bitmap.  State: the next word and  *)
(* how often each word was relocated.                                      *)
NextLocationShort(location) == location + WordBits - 1
NextLocation(location) == location + WordBits
AddBase(done, words) == [w \in DOMAIN done |-> IF w \in words THEN done[w] + 1 ELSE done[w]]

RelrStep(s, entry) ==
  IF entry.address
    THEN [location |-> entry.at + 1, done |-> AddBase(s.done, {entry.at})]
    ELSE [location |-> NextLocation(s.location),
          done |-> AddBase(s.done, {s.location + bit : bit \in entry.bits})]

RelocateRelr ==
  /\ input.kind = "relr"
  /\ output' = [kind |-> "relocated",
                done |-> FoldLeft(RelrStep, [location |-> 0, done |-> [w \in input.words |-> 0]],
                                  input.entries).done]

-----------------------------------------------------------------------------
(* Hash tables.  input.hash gives each name its hash; the symbol table is  *)
(* input.names, from index 1; index 0 is the null symbol.  The stop bit is *)
(* the low bit of a chain entry, so hashes are compared without it.        *)
Bucket(table, name) == table.buckets[input.hash[name] % table.count]
ResolveSymbol(i, name) == IF i \in DOMAIN input.names /\ input.names[i] = name THEN i ELSE 0

BloomBitsOf(hash, shift) == {hash % BloomBits, (hash \div 2^shift) % BloomBits}
Rejected(table, name) == ~(BloomBitsOf(input.hash[name], table.shift) \subseteq table.bloom)

LookupGnu(table, name) ==
  LET walk[i \in Nat] ==
        LET entry == table.chain[i - table.offset + 1]   \* chain counts from the first hashed symbol
        IN IF entry.hash \div 2 = input.hash[name] \div 2 /\ ResolveSymbol(i, name) # 0 THEN i
           ELSE IF entry.stop THEN 0 ELSE walk[i + 1]
  IN IF Rejected(table, name) \/ Bucket(table, name) = 0 THEN 0 ELSE walk[Bucket(table, name)]

LookupSysV(table, name) ==
  LET walk[i \in Nat] == IF i = 0 THEN 0
                         ELSE IF ResolveSymbol(i, name) # 0 THEN i ELSE walk[table.chain[i]]
  IN walk[Bucket(table, name)]

(* symbol_count: behind the end of the highest bucket's chain; no bucket   *)
(* in use says nothing.                                                    *)
CountGnu(table) ==
  LET highest == Max({table.buckets[b] : b \in DOMAIN table.buckets})
      walk[i \in Nat] == IF table.chain[i - table.offset + 1].stop THEN i + 1 ELSE walk[i + 1]
  IN IF highest = 0 THEN 0 ELSE walk[highest]

LookupSymbols ==
  /\ input.kind = "hash"
  /\ output' = [kind |-> "symbols",
                gnu |-> [n \in DOMAIN input.hash |-> LookupGnu(input.gnu, n)],
                sysv |-> [n \in DOMAIN input.hash |-> LookupSysV(input.sysv, n)],
                count |-> CountGnu(input.gnu)]

-----------------------------------------------------------------------------
(* The dynamic array, item by item: a tag and a value.                     *)
NoFields == [strtab |-> 0, symtab |-> 0, hash |-> <<>>, rpath |-> 0, runpath |-> 0,
             needed |-> <<>>, bind_now |-> FALSE, static_tls |-> FALSE]

HasFlag(value, flag) == (value \div flag) % 2 = 1   \* DF_BIND_NOW 8, DF_STATIC_TLS 16, DF_1_NOW 1

SysVHash(fields, value) == IF fields.hash = <<>> THEN <<"sysv", value>> ELSE fields.hash

Field(f, item) ==
  CASE item.tag = "StrTab"  -> [f EXCEPT !.strtab = item.value]
    [] item.tag = "SymTab"  -> [f EXCEPT !.symtab = item.value]
    [] item.tag = "Hash"    -> [f EXCEPT !.hash = SysVHash(f, item.value)]
    [] item.tag = "GnuHash" -> [f EXCEPT !.hash = <<"gnu", item.value>>]
    [] item.tag = "Rpath"   -> [f EXCEPT !.rpath = item.value]
    [] item.tag = "Runpath" -> [f EXCEPT !.runpath = item.value]
    [] item.tag = "Needed"  -> [f EXCEPT !.needed = Append(f.needed, item.value)]
    [] item.tag = "Flags"   -> [f EXCEPT !.bind_now = f.bind_now \/ HasFlag(item.value, 8),
                                         !.static_tls = f.static_tls \/ HasFlag(item.value, 16)]
    [] item.tag = "Flags1"  -> [f EXCEPT !.bind_now = f.bind_now \/ HasFlag(item.value, 1)]
    [] OTHER -> f

UpToNull(items) == SubSeq(items, 1, (CHOOSE i \in DOMAIN items : /\ items[i].tag = "Null"
                                       /\ \A j \in 1..(i - 1) : items[j].tag # "Null") - 1)

Resolver(f) == IF f.runpath # 0 THEN <<"runpath", f.runpath>>
               ELSE IF f.rpath # 0 THEN <<"rpath", f.rpath>> ELSE <<"none">>
(* The entry count: from the gap between the tables (in symbols) when the  *)
(* strings lie behind the symbols, or else from the hash table.            *)
SymbolCount(f) == IF f.strtab > f.symtab THEN <<"gap", f.strtab - f.symtab>>
                  ELSE IF f.hash = <<>> THEN <<"unknown">> ELSE f.hash

Fields(items) ==
  LET f == FoldLeft(Field, NoFields, UpToNull(items))
  IN IF f.strtab = 0 \/ f.symtab = 0 THEN [kind |-> "error"]
     ELSE [kind |-> "fields", hash |-> f.hash, needed |-> f.needed, resolver |-> Resolver(f),
           count |-> SymbolCount(f), bind_now |-> f.bind_now, static_tls |-> f.static_tls]

ReadDynamic == input.kind = "dynamic" /\ output' = Fields(input.items)

Next ==
  /\ output = Pending /\ UNCHANGED input
  /\ LoadFile \/ RelocateRelr \/ LookupSymbols \/ ReadDynamic

Spec == Init /\ [][Next]_vars

-----------------------------------------------------------------------------
(* linker: how a file is made (external).                                  *)

(* Segments of a linked file: in address order, apart by pages in memory,  *)
(* at the same place of a page in memory as in the file.                   *)
WellFormed(headers, length) ==
  /\ \A i \in DOMAIN headers :
       LET h == headers[i]
       IN /\ h.vaddr % PageBytes = h.offset % PageBytes
          /\ h.filesz <= h.memsz /\ h.memsz > 0 /\ h.offset + h.filesz <= length
  /\ \A i \in 1..(Len(headers) - 1) :
       PageUp(headers[i].vaddr + headers[i].memsz) <= PageStart(headers[i + 1].vaddr)

(* Relr entries for a set of words, bitmaps while they select anything.    *)
PackRelr(words) ==
  LET pack[location \in Nat] ==
        LET rest == {w \in words : w >= location}
            near == {w \in rest : w < location + WordBits}
        IN IF rest = {} THEN <<>>
           ELSE IF location = 0 \/ near = {}
             THEN <<[address |-> TRUE, at |-> Min(rest), bits |-> {}]>> \o pack[Min(rest) + 1]
           ELSE <<[address |-> FALSE, at |-> 0, bits |-> {w - location : w \in near}]>>
                \o pack[location + WordBits]
  IN pack[0]

(* Tables for a symbol table whose names from `offset` on are hashed, in   *)
(* order of their buckets.                                                 *)
FirstIn(names, hash, offset, count, b) ==
  LET in == {i \in offset..Len(names) : hash[names[i]] % count = b}
  IN IF in = {} THEN 0 ELSE Min(in)
GnuTable(names, hash, offset, count, shift) ==
  [count |-> count, shift |-> shift, offset |-> offset,
   buckets |-> [b \in 0..(count - 1) |-> FirstIn(names, hash, offset, count, b)],
   bloom |-> UNION {BloomBitsOf(hash[names[i]], shift) : i \in offset..Len(names)},
   chain |-> [k \in 1..(Len(names) - offset + 1) |->
     LET i == offset + k - 1
     IN [hash |-> hash[names[i]],
         stop |-> i = Len(names) \/ hash[names[i + 1]] % count # hash[names[i]] % count]]]
InBucketOrder(names, hash, offset, count) ==
  \A i \in offset..(Len(names) - 1) : hash[names[i]] % count <= hash[names[i + 1]] % count
SysVTable(names, hash, count) ==
  LET after(i) == {j \in (i + 1)..Len(names) : hash[names[j]] % count = hash[names[i]] % count}
  IN [count |-> count,
      buckets |-> [b \in 0..(count - 1) |-> FirstIn(names, hash, 1, count, b)],
      chain |-> [i \in 1..Len(names) |-> IF after(i) = {} THEN 0 ELSE Min(after(i))]]

-----------------------------------------------------------------------------
(* Every byte that a header places in memory is the file's, and the rest   *)
(* of the segment is zero, whatever shares its pages in the file or ends   *)
(* inside a page (object_data/mod.rs:200-258).                             *)
ImageMatchesFile ==
  output.kind = "image" =>
    \A i \in DOMAIN input.headers :
      LET h == input.headers[i]
      IN \A k \in 0..(h.memsz - 1) :
           /\ h.vaddr + k \in DOMAIN output.memory
           /\ output.memory[h.vaddr + k] = IF k < h.filesz THEN h.offset + k + 1 ELSE 0

(* A packed set of words is relocated exactly, each word once: a base      *)
(* added twice is as wrong as one forgotten (relocate.rs:18-43).           *)
EveryWordOnce ==
  output.kind = "relocated" =>
    \A w \in input.words : output.done[w] = IF w \in input.packed THEN 1 ELSE 0

(* Both tables find each symbol that is hashed and no other, and agree,    *)
(* through bloom rejections, shared buckets and equal hashes; the chain's  *)
(* count is the table's size (hash_tables.rs:78-171).                      *)
LookupsAgree ==
  output.kind = "symbols" =>
    \A n \in DOMAIN input.hash :
      LET there == {i \in DOMAIN input.names : input.names[i] = n}
      IN /\ output.sysv[n] = IF there = {} THEN 0 ELSE Min(there)
         /\ output.gnu[n] = IF there \cap input.gnu.offset..Len(input.names) = {} THEN 0 ELSE output.sysv[n]
         /\ output.count \in {0, Len(input.names) + 1}

(* The order of tags in the dynamic array does not matter, but for the     *)
(* order of DT_NEEDED among themselves (dynamic_fields.rs:80-212): the GNU *)
(* table is preferred, and a RUNPATH hides an RPATH.                       *)
TagOrderIrrelevant ==
  input.kind = "dynamic" /\ output # Pending =>
    LET items == UpToNull(input.items)
    IN \A i, j \in DOMAIN items :
         (items[i].tag # "Needed" /\ items[j].tag # "Needed") =>
           Fields([[items EXCEPT ![i] = items[j]] EXCEPT ![j] = items[i]]
                  \o <<[tag |-> "Null", value |-> 0]>>) = output
=============================================================================
