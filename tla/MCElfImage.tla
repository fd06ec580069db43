----------------------------- MODULE MCElfImage -----------------------------
EXTENDS ElfImage, TLC

Header(o, v, f, m) == [offset |-> o, vaddr |-> v, filesz |-> f, memsz |-> m]
FileInputs ==
  {[kind |-> "file", length |-> n, headers |-> <<Header(o, 0, f1, f1 + m1), Header(o2, v2, f2, f2 + m2)>>] :
     n \in {5}, o \in 0..1, f1 \in 0..3, m1 \in 0..3, o2 \in 0..4, v2 \in 2..7, f2 \in 0..2, m2 \in 0..3}
WellFormedFiles == {i \in FileInputs : WellFormed(i.headers, i.length)}

RelrInputs == {[kind |-> "relr", words |-> 1..9, packed |-> w, entries |-> PackRelr(w)] : w \in SUBSET (1..9)}

TheNames == {"x", "y", "z"}
HashInputs ==
  UNION {{[kind |-> "hash", names |-> ns, hash |-> h, gnu |-> GnuTable(ns, h, off, 2, 1), sysv |-> SysVTable(ns, h, 2)] :
     off \in {o \in 1..(Len(ns) + 1) : InBucketOrder(ns, h, o, 2)}} :
     ns \in {<<"x">>, <<"x", "y">>}, h \in [TheNames -> {2, 3, 4, 6, 9}]}

Tags == <<[tag |-> "StrTab", value |-> 5], [tag |-> "SymTab", value |-> 2], [tag |-> "StrTab", value |-> 1],
   [tag |-> "Hash", value |-> 3], [tag |-> "GnuHash", value |-> 4], [tag |-> "Rpath", value |-> 6],
   [tag |-> "Runpath", value |-> 7], [tag |-> "Needed", value |-> 8], [tag |-> "Flags", value |-> 16],
   [tag |-> "Flags1", value |-> 1]>>
Chosen(S) == SelectSeq(Tags, LAMBDA t : t \in S)
DynInputs == {[kind |-> "dynamic", items |-> Chosen(S) \o <<[tag |-> "Null", value |-> 0]>>] :
   S \in {T \in SUBSET ToSet(Tags) : Cardinality({t \in T : t.tag = "StrTab"}) <= 1}}
AllInputs == WellFormedFiles \cup RelrInputs \cup HashInputs \cup DynInputs
=============================================================================
