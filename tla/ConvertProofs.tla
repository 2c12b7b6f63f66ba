--------------------------- MODULE ConvertProofs ---------------------------
(***************************************************************************)
(* Proofs about module Convert, for every raw file, symbol table and line  *)
(* table: that the lookup stays in the table and that the profile matches  *)
(* the records rests on one invariant per pass of main.                    *)
(***************************************************************************)
EXTENDS Convert, LeastElement

\* The name of the null symbol.
NoName == ""

\* The pieces in which Combine reads functions.txt.
Piece ==
  [name : Name \cup {NoName}, part : {"line", "tail"}, delta : Nat]
  \cup [name : Name \cup {Invalid}, part : {"line", "head"}]

\* What readelf prints: the dynamic symbols only, or the table behind its header.
SymShape ==
  /\ sym \in Seq(Symbol \cup {NullSymbol, Other("dynsym"), Other("symtab"),
                              Other("header"), Other("malformed")})
  /\ \/ Len(sym) = 1 /\ sym[1] = Other("dynsym")
     \/ /\ Len(sym) >= 4
        /\ sym[1] = Other("dynsym") /\ sym[2] = Other("symtab")
        /\ sym[3] = Other("header") /\ sym[4] = NullSymbol
        /\ \A i \in 5..Len(sym) : sym[i] \in Symbol \cup {Other("malformed")}

Inputs ==
  /\ raw \in Seq(Pip \cup {Invalid})
  /\ debug \in [Pip -> File \cup {Unknown}]
  /\ strcmp_one \in BOOLEAN
  /\ SymShape

Files ==
  /\ stage \in {"raw", "sym", "sort", "convert", "addr2line", "combine", "done",
                "assert", "undefined"}
  /\ line \in Nat \ {0} /\ first_occ \in Nat
  /\ ip_txt \in Seq(Pip \cup {Invalid})
  /\ functions \in Seq(Symbol \cup {NullSymbol})
  /\ function_txt \in Seq(Piece)
  /\ filename_txt \in Seq(File \cup {Unknown})
  /\ final \in Seq([index : Nat, file : File, function : Range(function_txt)])

\* ip.txt has a line for every raw record.
Addresses ==
  /\ stage = "raw" => /\ Len(ip_txt) = line - 1 /\ line <= Len(raw) + 1
                      /\ \A i \in 1..(line - 1) : ip_txt[i] = raw[i]
  /\ stage # "raw" => ip_txt = raw

\* The symbols before a line of readelf's output.
SymbolsBefore(n) == {sym[i] : i \in {i \in DOMAIN sym : i < n /\ sym[i].kind = "symbol"}}

\* The table has the symbols read so far; first_occ counts from the .symtab line on.
FunctionTable ==
  /\ stage = "raw" => functions = <<>> /\ first_occ = 0
  /\ stage = "sym" =>
       /\ line <= Len(sym) + 1
       /\ first_occ = IF line <= 2 THEN 0 ELSE line - 2
       /\ \A i \in DOMAIN sym : i < line => sym[i].kind # "malformed"
       /\ Range(functions) = SymbolsBefore(line)
  /\ stage \notin {"raw", "sym"} => Range(functions) = Symbols
  /\ stage \notin {"raw", "sym", "sort"} => Ordered(functions)
  /\ LookupInTable

\* The line names the function of the address.
NamesFunction(l, ip) ==
  /\ l.part = "line"
  /\ ip # Invalid =>
       \E s \in Symbols : Contains(s, ip) /\ l.name = s.name /\ l.delta = ip - s.offset

\* functions.txt has a line for each of the first n records, up to a long one.
Lined(n) ==
  /\ Len(function_txt) >= n
  /\ (\A i \in DOMAIN function_txt : function_txt[i].part # "head") => Len(function_txt) = n
  /\ \A i \in DOMAIN function_txt : ~PastLong(i) =>
       i \in 1..n /\ NamesFunction(function_txt[i], raw[i])

Lines ==
  /\ stage \in {"raw", "sym", "sort"} => function_txt = <<>>
  /\ stage = "convert" => line <= Len(raw) + 1 /\ Lined(line - 1)
  /\ stage \in {"addr2line", "combine", "done", "assert"} => Lined(Len(raw))

\* filename.txt has a line for every record, or none at all.
Joined ==
  /\ stage \notin {"combine", "done", "assert"} => final = <<>>
  /\ stage \in {"combine", "done", "assert"} =>
       filename_txt = <<>> \/ filename_txt = [i \in DOMAIN raw |-> LineOf(raw[i])]
  /\ stage = "combine" => line <= Len(raw) + 1
  /\ ProfileMatchesRecords

\* The profile after the first n lines, as ProfileMatchesRecords has it.
Matches(n) ==
  \/ PastLong(n)
  \/ /\ \A l \in Range(final) : Describes(l)
     /\ {l.index : l \in Range(final)} = {i \in 0..(n - 1) : LineOf(raw[i + 1]) # Unknown}
     /\ \A i, j \in DOMAIN final : i < j => final[i].index < final[j].index

CInv == Inputs /\ Files /\ Addresses /\ FunctionTable /\ Lines /\ Joined

-----------------------------------------------------------------------------
(* The binary search *)

\* Symbols have names and offsets.
LEMMA SymbolFields ==
  \A s \in Symbol \cup {NullSymbol} :
    s.offset \in Nat /\ s.name \in Name \cup {NoName} /\ s.kind = "symbol"
<1>1. \A s \in Symbol : s.offset \in Nat /\ s.name \in Name /\ s.kind = "symbol"
  BY NameAssumption, Zenon DEF Symbol
<1>2. \A x : LET s == [kind |-> "symbol", name |-> x, offset |-> 0]
            IN  s.offset = 0 /\ s.name = x /\ s.kind = "symbol"
  OBVIOUS
<1>3. NullSymbol.offset = 0 /\ NullSymbol.name = NoName /\ NullSymbol.kind = "symbol"
  BY <1>2, Zenon DEF NullSymbol, NoName
<1>4. 0 \in Nat
  OBVIOUS
<1> QED BY <1>1, <1>3, <1>4, Zenon

\* The offsets of the table.
LEMMA TableOffsets ==
  ASSUME functions \in Seq(Symbol \cup {NullSymbol})
  PROVE  /\ Len(functions) \in Nat /\ DOMAIN functions = 1..Len(functions)
         /\ \A i \in 1..Len(functions) : functions[i].offset \in Nat
<1>1. \A i \in 1..Len(functions) : functions[i] \in Symbol \cup {NullSymbol}
  OBVIOUS
<1>2. \A i \in 1..Len(functions) : functions[i].offset \in Nat
  BY <1>1, SymbolFields, Zenon
<1> QED BY <1>2

\* lower_bound (convert.cc:328) points to the first symbol that does not begin before the
\* address, or to the end.
LEMMA LowerBound ==
  ASSUME functions \in Seq(Symbol \cup {NullSymbol}), NEW o \in Nat
  PROVE  /\ lower_bound(o) \in 1..(Len(functions) + 1)
         /\ lower_bound(o) <= Len(functions) => functions[lower_bound(o)].offset >= o
         /\ \A j \in 1..(lower_bound(o) - 1) : functions[j].offset < o
<1> DEFINE n == Len(functions)
           T == {i \in 1..(n + 1) : i <= n => functions[i].offset >= o}
<1>1. n \in Nat /\ \A i \in 1..n : functions[i].offset \in Nat
  BY TableOffsets, Zenon
<1> HIDE DEF n
<1>2. T \in SUBSET Nat /\ n + 1 \in T
  BY <1>1
<1>3. PICK x \in T : \A y \in T : x <= y
  BY <1>2, LeastNatural, Zenon
<1>4. x \in 1..(n + 1) /\ (x <= n => functions[x].offset >= o)
  BY <1>3, Zenon
<1>5. ASSUME NEW j \in 1..(x - 1) PROVE functions[j].offset < o
  <2>1. j \in 1..n /\ j \in 1..(n + 1) /\ ~(x <= j) /\ j <= n
    BY <1>1, <1>4
  <2>2. ~(functions[j].offset >= o)
    BY <1>3, <2>1, Zenon
  <2> QED BY <1>1, <2>1, <2>2
<1> QED BY <1>4, <1>5, Zenon DEF lower_bound, n

\* low, moved back where the address is not the beginning of a function (convert.cc:330-331),
\* is the nearest symbol at or before the address, and before begin() only if there is none.
LEMMA Nearest ==
  ASSUME functions \in Seq(Symbol \cup {NullSymbol}), Ordered(functions), NEW o \in Nat
  PROVE  /\ Low(o) \in 0..Len(functions)
         /\ Low(o) = 0 => \A j \in DOMAIN functions : ~(functions[j].offset <= o)
         /\ Low(o) # 0 =>
              /\ functions[Low(o)].offset <= o
              /\ \A j \in DOMAIN functions :
                   functions[j].offset <= o => functions[j].offset <= functions[Low(o)].offset
<1> DEFINE n == Len(functions)
           low == lower_bound(o)
<1>1. n \in Nat /\ DOMAIN functions = 1..n /\ \A i \in 1..n : functions[i].offset \in Nat
  BY TableOffsets, Zenon
<1>2. low \in 1..(n + 1) /\ (low <= n => functions[low].offset >= o)
      /\ \A j \in 1..(low - 1) : functions[j].offset < o
  BY LowerBound, Zenon
<1>3. \A i, j \in 1..n : i < j => functions[i].offset <= functions[j].offset
  BY <1>1, Zenon DEF Ordered
<1>4. Low(o) = IF low > n \/ functions[low].offset # o THEN low - 1 ELSE low
  BY Zenon DEF Low
<1> HIDE DEF n, low
<1>5. CASE low > n \/ functions[low].offset # o
  <2>1. Low(o) = low - 1 /\ Low(o) \in 0..n
    BY <1>1, <1>2, <1>4, <1>5
  <2>2. ASSUME NEW j \in 1..n, functions[j].offset <= o PROVE j < low
    <3>1. SUFFICES ASSUME low <= j PROVE FALSE
      BY <1>1, <1>2
    <3>2. low \in 1..n /\ functions[low].offset > o
      BY <1>1, <1>2, <1>5, <3>1
    <3>3. functions[low].offset <= functions[j].offset
      BY <1>1, <1>3, <3>1, <3>2
    <3> QED BY <1>1, <2>2, <3>2, <3>3
  <2>3. Low(o) = 0 => \A j \in 1..n : ~(functions[j].offset <= o)
    BY <1>1, <1>2, <2>1, <2>2
  <2>4. ASSUME Low(o) # 0
        PROVE  /\ functions[Low(o)].offset <= o
               /\ \A j \in 1..n :
                    functions[j].offset <= o => functions[j].offset <= functions[Low(o)].offset
    <3>1. Low(o) \in 1..n /\ Low(o) \in 1..(low - 1)
      BY <1>1, <1>2, <2>1, <2>4
    <3>2. functions[Low(o)].offset < o /\ functions[Low(o)].offset \in Nat
      BY <1>1, <1>2, <3>1, Zenon
    <3>3. ASSUME NEW j \in 1..n, functions[j].offset <= o
          PROVE  functions[j].offset <= functions[Low(o)].offset
      <4>1. j < Low(o) \/ j = Low(o)
        BY <1>1, <1>2, <2>1, <2>2, <3>3
      <4> QED BY <1>1, <1>3, <3>1, <4>1
    <3> QED BY <3>2, <3>3
  <2> QED BY <1>1, <2>1, <2>3, <2>4, Zenon DEF n
<1>6. CASE ~(low > n \/ functions[low].offset # o)
  <2>1. Low(o) = low /\ low \in 1..n /\ functions[low].offset = o /\ low # 0 /\ o <= o
        /\ low \in 0..n
    BY <1>1, <1>2, <1>4, <1>6
  <2> QED BY <1>1, <2>1, Zenon DEF n
<1> QED BY <1>5, <1>6, Zenon

-----------------------------------------------------------------------------
(* The inputs *)

\* The kind of a line that is no symbol.
LEMMA OtherKind == \A k : Other(k).kind = k
<1>1. \A k, x : [kind |-> k, name |-> x, offset |-> 0].kind = k
  OBVIOUS
<1> QED BY <1>1, Zenon DEF Other

\* Bounded sequences are sequences.
LEMMA UpToIsSeq ==
  ASSUME NEW S, NEW n, NEW s \in UpTo(S, n)
  PROVE  s \in Seq(S)
<1>1. PICK m \in 0..n : s \in [1..m -> S]
  BY Zenon DEF UpTo
<1> QED BY <1>1

\* readelf's output has its shape.
LEMMA SymFilesShape == sym \in SymFiles => SymShape
<1> DEFINE Line == Symbol \cup {NullSymbol, Other("dynsym"), Other("symtab"),
                              Other("header"), Other("malformed")}
<1>1. CASE sym = <<Other("dynsym")>>
  <2>1. Other("dynsym") \in Line
    BY Zenon
  <2> HIDE DEF Line
  <2>2. sym \in Seq(Line) /\ Len(sym) = 1 /\ sym[1] = Other("dynsym")
    BY <1>1, <2>1
  <2> QED BY <2>2, Zenon DEF SymShape, Line
<1>2. ASSUME NEW s \in UpTo(Symbol \cup {Other("malformed")}, MaxSymbols),
             sym = <<Other("dynsym"), Other("symtab"), Other("header"), NullSymbol>> \o s
      PROVE  SymShape
  <2>1. s \in Seq(Symbol \cup {Other("malformed")})
    BY UpToIsSeq, Zenon
  <2>2. /\ Other("dynsym") \in Line /\ Other("symtab") \in Line /\ Other("header") \in Line
        /\ NullSymbol \in Line /\ Symbol \cup {Other("malformed")} \subseteq Line
    BY Zenon
  <2> HIDE DEF Line
  <2> DEFINE a == Other("dynsym")
             b == Other("symtab")
             c == Other("header")
             d == NullSymbol
             T == Symbol \cup {Other("malformed")}
  <2>3. sym = <<a, b, c, d>> \o s /\ s \in Seq(T) /\ T \subseteq Line
        /\ a \in Line /\ b \in Line /\ c \in Line /\ d \in Line
    BY <1>2, <2>1, <2>2, Zenon
  <2> HIDE DEF a, b, c, d, T
  <2>4. <<a, b, c, d>> \in Seq(Line) /\ s \in Seq(Line)
    BY <2>3
  <2>5. sym \in Seq(Line) /\ Len(sym) = 4 + Len(s) /\ Len(s) \in Nat
    BY <2>3, <2>4
  <2>6. sym[1] = a /\ sym[2] = b /\ sym[3] = c /\ sym[4] = d
    BY <2>3, <2>4, <2>5
  <2>7. \A i \in 5..Len(sym) : sym[i] \in T
    BY <2>3, <2>4, <2>5
  <2>8. Len(sym) >= 4
    BY <2>5
  <2> QED BY <2>5, <2>6, <2>7, <2>8, Zenon DEF SymShape, Line, a, b, c, d, T
<1> QED BY <1>1, <1>2, Zenon DEF SymFiles

\* A raw file is a sequence of records, StopBuffer's unused slot first.
LEMMA RawFilesTyped == raw \in RawFiles => raw \in Seq(Pip \cup {Invalid}) /\ raw # <<>>
<1> SUFFICES ASSUME NEW s \in UpTo(Pip \cup {Invalid}, MaxRecords), raw = <<Invalid>> \o s
             PROVE  raw \in Seq(Pip \cup {Invalid}) /\ raw # <<>>
  BY Zenon DEF RawFiles
<1>1. s \in Seq(Pip \cup {Invalid})
  BY UpToIsSeq, Zenon
<1>2. raw \in Seq(Pip \cup {Invalid}) /\ Len(raw) = 1 + Len(s) /\ Len(s) \in Nat
  BY <1>1
<1> QED BY <1>2

\* main begins with the raw file.
LEMMA InitCInv == Init => CInv
<1> SUFFICES ASSUME Init PROVE CInv
  OBVIOUS
<1>1. Inputs
  BY SymFilesShape, RawFilesTyped, Zenon DEF Init, Inputs
<1>2. /\ stage = "raw" /\ line = 1 /\ ip_txt = <<>> /\ first_occ = 0 /\ functions = <<>>
      /\ function_txt = <<>> /\ filename_txt = <<>> /\ final = <<>>
  BY Zenon DEF Init
<1>3. Files
  BY <1>2 DEF Files
<1>4. Addresses
  BY <1>1, <1>2 DEF Inputs, Addresses
<1>5. FunctionTable
  BY <1>2, Zenon DEF FunctionTable, LookupInTable
<1>6. Lines
  BY <1>2, Zenon DEF Lines
<1>7. Joined
  BY <1>2, Zenon DEF Joined, ProfileMatchesRecords
<1> QED BY <1>1, <1>3, <1>4, <1>5, <1>6, <1>7, Zenon DEF CInv

-----------------------------------------------------------------------------
(* The steps of main *)

\* main does not write its inputs.
LEMMA InputsKept ==
  ASSUME Inputs, UNCHANGED inputs
  PROVE  /\ Inputs' /\ Symbols' = Symbols
         /\ raw' = raw /\ sym' = sym /\ debug' = debug /\ strcmp_one' = strcmp_one
<1>1. raw' = raw /\ sym' = sym /\ debug' = debug /\ strcmp_one' = strcmp_one
  BY Zenon DEF inputs
<1>2. SymShape'
  BY <1>1, Zenon DEF Inputs, SymShape
<1>3. strcmp_one' \in BOOLEAN
  BY <1>1 DEF Inputs
<1>4. Symbols' = Symbols
  BY <1>1, Zenon DEF Symbols
<1> QED BY <1>1, <1>2, <1>3, <1>4, Zenon DEF Inputs

\* A record, or the end of the raw file (convert.cc:161-187).
LEMMA RawStep == CInv /\ ReadRawFile => CInv'
<1> SUFFICES ASSUME CInv, ReadRawFile PROVE CInv'
  OBVIOUS
<1>i. /\ Inputs' /\ Symbols' = Symbols /\ raw' = raw /\ sym' = sym
  BY InputsKept, Zenon DEF CInv, ReadRawFile
<1>1. /\ stage = "raw" /\ functions' = functions /\ first_occ' = first_occ
      /\ function_txt' = function_txt /\ filename_txt' = filename_txt /\ final' = final
  BY Zenon DEF ReadRawFile
<1>2. /\ functions = <<>> /\ first_occ = 0 /\ function_txt = <<>> /\ final = <<>>
      /\ filename_txt \in Seq(File \cup {Unknown})
  BY <1>1 DEF CInv, FunctionTable, Lines, Joined, Files
<1>3. /\ raw \in Seq(Pip \cup {Invalid}) /\ ip_txt \in Seq(Pip \cup {Invalid})
      /\ line \in Nat \ {0} /\ Len(ip_txt) = line - 1 /\ line <= Len(raw) + 1
      /\ \A i \in 1..(line - 1) : ip_txt[i] = raw[i]
  BY <1>1, Zenon DEF CInv, Inputs, Files, Addresses
<1>4. stage' \in {"raw", "sym"} /\ line' \in Nat \ {0}
  BY <1>1, <1>3 DEF ReadRawFile, NextLine, Proceed
<1>5. ip_txt' \in Seq(Pip \cup {Invalid}) /\ Addresses'
  <2>1. CASE line <= Len(raw)
    <3>1. ip_txt' = Append(ip_txt, raw[line]) /\ line' = line + 1 /\ stage' = "raw"
      BY <1>1, <2>1, Zenon DEF ReadRawFile, NextLine
    <3> QED BY <1>i, <1>3, <2>1, <3>1 DEF Addresses
  <2>2. CASE ~(line <= Len(raw))
    <3>1. ip_txt' = ip_txt /\ stage' = "sym"
      BY <1>1, <2>2, Zenon DEF ReadRawFile, Proceed
    <3>2. Len(ip_txt) = Len(raw) /\ \A i \in 1..Len(raw) : ip_txt[i] = raw[i]
      BY <1>3, <2>2
    <3>3. ip_txt = raw
      BY <1>3, <3>2
    <3> QED BY <1>i, <1>3, <3>1, <3>3 DEF Addresses
  <2> QED BY <2>1, <2>2, Zenon
<1>6. Files'
  BY <1>1, <1>2, <1>4, <1>5 DEF Files
<1>7. FunctionTable'
  <2>1. stage' = "sym" => line' = 1
    BY <1>1 DEF ReadRawFile, NextLine, Proceed
  <2>2. Len(sym) \in Nat /\ DOMAIN sym = 1..Len(sym)
    BY DEF CInv, Inputs, SymShape
  <2>3. ASSUME stage' = "sym" PROVE SymbolsBefore(line)' = {}
    BY <1>i, <2>1, <2>2, <2>3 DEF SymbolsBefore
  <2>4. Range(functions') = {}
    BY <1>1, <1>2 DEF Range
  <2>5. ASSUME stage' = "sym"
        PROVE  /\ (line <= Len(sym) + 1)'
               /\ first_occ' = IF line' <= 2 THEN 0 ELSE line' - 2
               /\ \A i \in DOMAIN sym' : ~(i < line')
    BY <1>i, <1>1, <1>2, <2>1, <2>2, <2>5
  <2> QED BY <1>1, <1>2, <1>4, <2>3, <2>4, <2>5, Zenon DEF FunctionTable, LookupInTable
<1>8. Lines' /\ Joined'
  BY <1>1, <1>2, <1>4 DEF Lines, Joined, ProfileMatchesRecords
<1> QED BY <1>i, <1>5, <1>6, <1>7, <1>8, Zenon DEF CInv

\* Which lines of readelf's output are what.
LEMMA SymKinds ==
  ASSUME SymShape
  PROVE  /\ Len(sym) \in Nat /\ DOMAIN sym = 1..Len(sym)
         /\ \A i \in DOMAIN sym :
              /\ sym[i].kind = "symtab" <=> i = 2
              /\ i <= 3 => sym[i].kind # "symbol" /\ sym[i].kind # "malformed"
              /\ i > 3 => \/ sym[i] \in Symbol \cup {NullSymbol} /\ sym[i].kind = "symbol"
                          \/ sym[i].kind = "malformed"
<1>1. Len(sym) \in Nat /\ DOMAIN sym = 1..Len(sym)
  BY DEF SymShape
<1>2. ASSUME NEW i \in DOMAIN sym
      PROVE  \/ i = 1 /\ sym[i].kind = "dynsym"
             \/ i = 2 /\ sym[i].kind = "symtab"
             \/ i = 3 /\ sym[i].kind = "header"
             \/ i > 3 /\ sym[i] \in Symbol \cup {NullSymbol} /\ sym[i].kind = "symbol"
             \/ i > 3 /\ sym[i].kind = "malformed"
  <2>1. i = 1 \/ i = 2 \/ i = 3 \/ i = 4 \/ i \in 5..Len(sym)
    BY <1>1
  <2>2. CASE i = 1
    <3>1. sym[i] = Other("dynsym")
      BY <2>2, Zenon DEF SymShape
    <3> QED BY <2>2, <3>1, OtherKind, Zenon
  <2>3. CASE i # 1
    <3>1. ~(Len(sym) = 1)
      BY <1>1, <2>3
    <3>2. /\ sym[2] = Other("symtab") /\ sym[3] = Other("header") /\ sym[4] = NullSymbol
          /\ \A j \in 5..Len(sym) : sym[j] \in Symbol \cup {Other("malformed")}
      BY <3>1, Zenon DEF SymShape
    <3>3. i = 4 \/ i \in 5..Len(sym) => i > 3
      BY <1>1
    <3>4. \A s \in Symbol \cup {NullSymbol} : s.kind = "symbol"
      BY SymbolFields, Zenon
    <3>5. CASE i = 2 \/ i = 3
      BY <3>2, <3>5, OtherKind, Zenon
    <3>6. CASE i = 4
      BY <3>2, <3>3, <3>4, <3>6, Zenon
    <3>7. CASE i \in 5..Len(sym)
      <4>1. CASE sym[i] \in Symbol
        BY <3>3, <3>4, <3>7, <4>1, Zenon
      <4>2. CASE sym[i] = Other("malformed")
        BY <3>3, <3>7, <4>2, OtherKind, Zenon
      <4> QED BY <3>2, <3>7, <4>1, <4>2, Zenon
    <3> QED BY <2>1, <2>3, <3>5, <3>6, <3>7, Zenon
  <2> QED BY <2>2, <2>3, Zenon
<1>3. \A i \in 1..Len(sym) : i > 3 <=> ~(i <= 3)
  BY <1>1
<1>4. 2 <= 3 /\ ~(2 > 3) /\ ~(1 > 3) /\ ~(3 > 3) /\ 1 # 2 /\ 3 # 2
  OBVIOUS
<1>5. \A i \in 1..Len(sym) : i > 3 => i # 2
  BY <1>1
<1> QED BY <1>1, <1>2, <1>3, <1>4, <1>5

\* A line of readelf's output, or the end of the table (convert.cc:189-291).
LEMMA SymStep == CInv /\ ReadSymFile => CInv'
<1> SUFFICES ASSUME CInv, ReadSymFile PROVE CInv'
  OBVIOUS
<1>i. /\ Inputs' /\ Symbols' = Symbols /\ raw' = raw /\ sym' = sym
  BY InputsKept, Zenon DEF CInv, ReadSymFile
<1>1. /\ stage = "sym" /\ ip_txt' = ip_txt
      /\ function_txt' = function_txt /\ filename_txt' = filename_txt /\ final' = final
  BY Zenon DEF ReadSymFile
<1>2. /\ function_txt = <<>> /\ final = <<>> /\ filename_txt \in Seq(File \cup {Unknown})
      /\ ip_txt \in Seq(Pip \cup {Invalid}) /\ ip_txt = raw
  BY <1>1 DEF CInv, FunctionTable, Lines, Joined, Files, Addresses
<1>3. /\ line \in Nat \ {0} /\ first_occ \in Nat
      /\ functions \in Seq(Symbol \cup {NullSymbol})
      /\ line <= Len(sym) + 1
      /\ first_occ = IF line <= 2 THEN 0 ELSE line - 2
      /\ \A i \in DOMAIN sym : i < line => sym[i].kind # "malformed"
      /\ Range(functions) = SymbolsBefore(line)
  BY <1>1, Zenon DEF CInv, Files, FunctionTable
<1>4. /\ Len(sym) \in Nat /\ DOMAIN sym = 1..Len(sym)
      /\ \A i \in DOMAIN sym :
           /\ sym[i].kind = "symtab" <=> i = 2
           /\ i <= 3 => sym[i].kind # "symbol" /\ sym[i].kind # "malformed"
           /\ i > 3 => \/ sym[i] \in Symbol \cup {NullSymbol} /\ sym[i].kind = "symbol"
                       \/ sym[i].kind = "malformed"
  BY SymKinds, Zenon DEF CInv, Inputs
<1>5. ASSUME line > Len(sym) \/ (line \in DOMAIN sym /\ sym[line].kind = "malformed")
      PROVE  SymbolsBefore(line) = Symbols
  <2>1. ASSUME NEW i \in DOMAIN sym, sym[i].kind = "symbol"
        PROVE  i < line <=> \A j \in 1..i : sym[j].kind # "malformed"
    <3>1. i < line => \A j \in 1..i : sym[j].kind # "malformed"
      BY <1>3, <1>4
    <3>2. ~(i < line) => \E j \in 1..i : sym[j].kind = "malformed"
      BY <1>3, <1>4, <1>5
    <3> QED BY <3>1, <3>2, Zenon
  <2> QED BY <2>1, Zenon DEF SymbolsBefore, Symbols
<1>6. CASE line > Len(sym)
  <2>1. stage' = "sort" /\ line' = 1 /\ first_occ' = first_occ /\ functions' = functions
    BY <1>6, Zenon DEF ReadSymFile, Proceed
  <2>2. FunctionTable'
    BY <1>i, <1>3, <1>5, <1>6, <2>1 DEF FunctionTable, LookupInTable
  <2>3. Files' /\ Addresses' /\ Lines' /\ Joined'
    BY <1>i, <1>1, <1>2, <1>3, <2>1
    DEF Files, Addresses, Lines, Joined, ProfileMatchesRecords
  <2> QED BY <1>i, <2>2, <2>3, Zenon DEF CInv
<1>7. CASE ~(line > Len(sym))
  <2> DEFINE l == sym[line]
             occ == IF l.kind = "symtab" \/ first_occ > 0 THEN first_occ + 1 ELSE 0
  <2>1. line \in DOMAIN sym
    BY <1>3, <1>4, <1>7
  <2>2. occ = IF line + 1 <= 2 THEN 0 ELSE (line + 1) - 2
    BY <1>3, <1>4, <2>1
  <2>3. /\ first_occ' = occ
        /\ IF Skipped(occ) THEN NextLine /\ UNCHANGED functions
           ELSE IF l.kind = "malformed" THEN Proceed("sort") /\ UNCHANGED functions
           ELSE NextLine /\ functions' = Append(functions, l)
    BY <1>7, Zenon DEF ReadSymFile
  <2> HIDE DEF occ
  <2>4. first_occ' \in Nat /\ (Skipped(occ) <=> line <= 3)
    BY <1>3, <2>2, <2>3 DEF Skipped
  <2>5. ASSUME line <= 3 \/ l.kind # "malformed"
        PROVE  /\ stage' = "sym" /\ line' = line + 1
               /\ functions' = IF line <= 3 THEN functions ELSE Append(functions, l)
    BY <1>1, <2>3, <2>4, <2>5, Zenon DEF NextLine
  <2>6. CASE line <= 3 \/ l.kind # "malformed"
    <3>1. functions' \in Seq(Symbol \cup {NullSymbol})
      <4>1. line <= 3 \/ l \in Symbol \cup {NullSymbol}
        BY <1>3, <1>4, <2>1, <2>6
      <4> HIDE DEF l
      <4> QED BY <1>3, <2>5, <2>6, <4>1
    <3>2. l.kind # "malformed" /\ (l.kind = "symbol" <=> ~(line <= 3))
      BY <1>3, <1>4, <2>1, <2>6
    <3>3. SymbolsBefore(line)' = IF line <= 3 THEN SymbolsBefore(line)
                                 ELSE SymbolsBefore(line) \cup {l}
      <4>1. \A i \in DOMAIN sym : i < line + 1 <=> i < line \/ i = line
        BY <1>3, <1>4
      <4>2. SymbolsBefore(line)' =
              {sym[i] : i \in {i \in DOMAIN sym : i < line + 1 /\ sym[i].kind = "symbol"}}
        BY <1>i, <2>5, <2>6, Zenon DEF SymbolsBefore
      <4> QED BY <2>1, <3>2, <4>1, <4>2 DEF SymbolsBefore
    <3>4. Range(functions') = IF line <= 3 THEN Range(functions) ELSE Range(functions) \cup {l}
      <4> HIDE DEF l
      <4>1. ~(line <= 3) => Range(Append(functions, l)) = Range(functions) \cup {l}
        BY <1>3 DEF Range
      <4> QED BY <2>5, <2>6, <4>1, Zenon
    <3>5. \A i \in DOMAIN sym : i < line + 1 => sym[i].kind # "malformed"
      BY <1>3, <1>4, <3>2
    <3>6. FunctionTable'
      <4>1. line' <= Len(sym) + 1
        BY <1>3, <1>4, <1>7, <2>5, <2>6
      <4>2. Range(functions') = SymbolsBefore(line)'
        BY <1>3, <3>3, <3>4, Zenon
      <4>3. first_occ' = IF line' <= 2 THEN 0 ELSE line' - 2
        BY <2>2, <2>3, <2>5, <2>6
      <4> QED BY <1>i, <2>5, <2>6, <3>5, <4>1, <4>2, <4>3 DEF FunctionTable, LookupInTable
    <3>7. Files' /\ Addresses' /\ Lines' /\ Joined'
      BY <1>i, <1>1, <1>2, <1>3, <2>4, <2>5, <2>6, <3>1
      DEF Files, Addresses, Lines, Joined, ProfileMatchesRecords
    <3> QED BY <1>i, <3>6, <3>7, Zenon DEF CInv
  <2>7. CASE ~(line <= 3) /\ l.kind = "malformed"
    <3>1. stage' = "sort" /\ line' = 1 /\ functions' = functions
      BY <2>3, <2>4, <2>7, Zenon DEF Proceed
    <3>2. FunctionTable'
      BY <1>i, <1>3, <1>5, <2>1, <2>7, <3>1 DEF FunctionTable, LookupInTable
    <3>3. Files' /\ Addresses' /\ Lines' /\ Joined'
      BY <1>i, <1>1, <1>2, <1>3, <2>4, <3>1
      DEF Files, Addresses, Lines, Joined, ProfileMatchesRecords
    <3> QED BY <1>i, <3>2, <3>3, Zenon DEF CInv
  <2> QED BY <2>6, <2>7, Zenon
<1> QED BY <1>6, <1>7, Zenon

\* std::sort (convert.cc:313) keeps the symbols and orders them.
LEMMA SortStep == CInv /\ SortFunctions => CInv'
<1> SUFFICES ASSUME CInv, SortFunctions PROVE CInv'
  OBVIOUS
<1>i. /\ Inputs' /\ Symbols' = Symbols /\ raw' = raw /\ sym' = sym
  BY InputsKept, Zenon DEF CInv, SortFunctions
<1>1. /\ stage = "sort" /\ stage' = "convert" /\ line' = 1 /\ ip_txt' = ip_txt
      /\ first_occ' = first_occ /\ functions' \in SortedTables
      /\ function_txt' = function_txt /\ filename_txt' = filename_txt /\ final' = final
  BY Zenon DEF SortFunctions, Proceed
<1>2. /\ function_txt = <<>> /\ final = <<>> /\ filename_txt \in Seq(File \cup {Unknown})
      /\ ip_txt \in Seq(Pip \cup {Invalid}) /\ ip_txt = raw /\ first_occ \in Nat
  BY <1>1 DEF CInv, FunctionTable, Lines, Joined, Files, Addresses
<1>3. /\ functions \in Seq(Symbol \cup {NullSymbol})
      /\ Range(functions) = Symbols
  BY <1>1 DEF CInv, Files, FunctionTable
<1> DEFINE D == DOMAIN functions
<1>4. PICK p \in Bijection(D, D) : functions' = [i \in D |-> functions[p[i]]]
  BY <1>1, Zenon DEF SortedTables
<1>5. Ordered(functions')
  BY <1>1, Zenon DEF SortedTables
<1>6. /\ \A i \in D : p[i] \in D
      /\ \A t \in D : \E s \in D : p[s] = t
  BY <1>4, Zenon DEF Bijection, Injection, Surjection
<1>7. DOMAIN functions' = D /\ \A i \in D : functions'[i] = functions[p[i]]
  BY <1>4, Zenon
<1>8. Range(functions') = Range(functions)
  BY <1>6, <1>7 DEF Range
<1>9. functions' \in Seq(Symbol \cup {NullSymbol})
  <2>1. Len(functions) \in Nat /\ D = 1..Len(functions)
        /\ \A i \in D : functions[i] \in Symbol \cup {NullSymbol}
    BY <1>3
  <2>2. functions' \in [1..Len(functions) -> Symbol \cup {NullSymbol}]
    BY <1>4, <1>6, <2>1, Zenon
  <2> QED BY <2>1, <2>2
<1>10. FunctionTable'
  BY <1>i, <1>1, <1>3, <1>5, <1>8 DEF FunctionTable, LookupInTable
<1>11. Files' /\ Addresses' /\ Joined'
  BY <1>i, <1>1, <1>2, <1>9 DEF Files, Addresses, Joined, ProfileMatchesRecords
<1>12. Lines'
  <2>1. Len(raw) \in Nat /\ line' - 1 = 0 /\ line' <= Len(raw) + 1
    BY <1>1 DEF CInv, Inputs
  <2>2. DOMAIN function_txt' = {} /\ Len(function_txt') = 0
    BY <1>1, <1>2
  <2>3. Lined(line - 1)'
    BY <2>1, <2>2 DEF Lined
  <2> QED BY <1>i, <1>1, <2>1, <2>3 DEF Lines
<1> QED BY <1>i, <1>10, <1>11, <1>12, Zenon DEF CInv

-----------------------------------------------------------------------------
(* The lines of functions.txt *)

\* Where there is a table, the null symbol is in it.
LEMMA NullInTable == SymShape => Symbols = {} \/ NullSymbol \in Symbols
<1> SUFFICES ASSUME SymShape PROVE Symbols = {} \/ NullSymbol \in Symbols
  OBVIOUS
<1>1. /\ Len(sym) \in Nat /\ DOMAIN sym = 1..Len(sym)
      /\ \A i \in DOMAIN sym : i <= 3 => sym[i].kind # "symbol" /\ sym[i].kind # "malformed"
  BY SymKinds, Zenon
<1>2. CASE Len(sym) = 1
  <2>1. \A i \in DOMAIN sym : sym[i].kind # "symbol"
    BY <1>1, <1>2
  <2> QED BY <2>1, Zenon DEF Symbols
<1>3. CASE Len(sym) >= 4 /\ sym[4] = NullSymbol
  <2>1. NullSymbol.kind = "symbol"
    BY SymbolFields, Zenon
  <2>2. 4 \in DOMAIN sym /\ \A j \in 1..4 : j \in DOMAIN sym /\ (j <= 3 \/ j = 4)
    BY <1>1, <1>3
  <2>3. sym[4].kind = "symbol" /\ "symbol" # "malformed"
    BY <1>3, <2>1
  <2>4. \A j \in 1..4 : sym[j].kind # "malformed"
    BY <1>1, <2>2, <2>3, Zenon
  <2> QED BY <1>3, <2>2, <2>3, <2>4, Zenon DEF Symbols
<1> QED BY <1>2, <1>3, Zenon DEF SymShape

\* The pieces that ConvertIP writes.
LEMMA PieceFields ==
  /\ \A x \in Name \cup {NoName}, d \in Nat :
       LET l == [name |-> x, part |-> "line", delta |-> d]
       IN  l \in Piece /\ l.part = "line" /\ l.name = x /\ l.delta = d
  /\ \A x \in Name, d \in Nat :
       LET h == [name |-> x, part |-> "head"]
           t == [name |-> x, part |-> "tail", delta |-> d]
       IN  h \in Piece /\ t \in Piece /\ h.part = "head"
  /\ [name |-> Invalid, part |-> "line"] \in Piece
  /\ [name |-> Invalid, part |-> "line"].part = "line"
BY DEF Piece

\* A whole line that names the function of the next record.
LEMMA ShortLine ==
  ASSUME CInv, UNCHANGED inputs, stage = "convert", stage' = "convert",
         line <= Len(raw), line' = line + 1,
         NEW l \in Piece, NamesFunction(l, raw[line]), function_txt' = Append(function_txt, l)
  PROVE  function_txt' \in Seq(Piece) /\ Lines'
<1>i. Symbols' = Symbols /\ raw' = raw
  BY InputsKept, Zenon DEF CInv
<1>1. /\ line \in Nat \ {0} /\ function_txt \in Seq(Piece) /\ Lined(line - 1)
      /\ Len(raw) \in Nat
  BY DEF CInv, Files, Lines, Inputs
<1> DEFINE n == Len(function_txt)
<1>2. /\ n \in Nat /\ DOMAIN function_txt = 1..n /\ DOMAIN function_txt' = 1..(n + 1)
      /\ \A i \in 1..n : function_txt'[i] = function_txt[i]
      /\ function_txt'[n + 1] = l /\ Len(function_txt') = n + 1
      /\ function_txt' \in Seq(Piece)
  BY <1>1
<1>3. /\ n >= line - 1
      /\ (\A i \in 1..n : function_txt[i].part # "head") => n = line - 1
      /\ \A i \in 1..n : ~PastLong(i) =>
           i \in 1..(line - 1) /\ NamesFunction(function_txt[i], raw[i])
  BY <1>1, <1>2, Zenon DEF Lined
<1> HIDE DEF n
<1>4. n + 1 >= line
  BY <1>1, <1>2, <1>3
<1>5. ASSUME \A i \in 1..(n + 1) : function_txt'[i].part # "head" PROVE n + 1 = line
  <2>1. \A i \in 1..n : i \in 1..(n + 1)
    BY <1>2
  <2>2. \A i \in 1..n : function_txt[i].part # "head"
    BY <1>2, <1>5, <2>1, Zenon
  <2>3. n = line - 1
    BY <1>3, <2>2, Zenon
  <2> QED BY <1>1, <2>3
<1>6. ASSUME NEW i \in 1..(n + 1), \A k \in 1..i : function_txt'[k].part # "head"
      PROVE  i \in 1..line /\ NamesFunction(function_txt'[i], raw[i])
  <2>1. CASE i \in 1..n
    <3>1. \A k \in 1..i : function_txt[k].part # "head"
      BY <1>2, <1>6, <2>1
    <3>2. ~PastLong(i)
      BY <3>1, Zenon DEF PastLong
    <3>3. i \in 1..(line - 1) /\ NamesFunction(function_txt[i], raw[i])
      BY <1>3, <2>1, <3>2, Zenon
    <3>4. i \in 1..line
      BY <1>1, <3>3
    <3> QED BY <1>2, <2>1, <3>3, <3>4, Zenon
  <2>2. CASE i = n + 1
    <3>1. \A k \in 1..n : function_txt[k].part # "head"
      BY <1>2, <1>6, <2>2
    <3>2. n = line - 1
      BY <1>3, <3>1, Zenon
    <3>3. i = line /\ i \in 1..line
      BY <1>1, <2>2, <3>2
    <3> QED BY <1>2, <2>2, <3>3, Zenon
  <2> QED BY <1>2, <2>1, <2>2
<1>7. ASSUME NEW i \in 1..(n + 1), ~PastLong(i)'
      PROVE  \A k \in 1..i : function_txt'[k].part # "head"
  BY <1>2, <1>7 DEF PastLong
<1>8. Lined(line - 1)'
  <2>1. line' - 1 = line
    BY <1>1
  <2>2. ASSUME NEW i \in 1..(n + 1), ~PastLong(i)'
        PROVE  i \in 1..line /\ NamesFunction(function_txt'[i], raw[i])
    BY <1>6, <1>7, <2>2, Zenon
  <2> QED BY <1>i, <1>2, <1>4, <1>5, <2>1, <2>2 DEF Lined, NamesFunction, Contains
<1>9. line' <= Len(raw') + 1
  BY <1>i, <1>1
<1> QED BY <1>2, <1>8, <1>9 DEF Lines

\* A line too long for Combine's buffer: from here on the lines are not those of the records.
LEMMA LongLine ==
  ASSUME CInv, UNCHANGED inputs, stage = "convert", stage' = "convert",
         line <= Len(raw), line' = line + 1,
         NEW h \in Piece, NEW t \in Piece, h.part = "head",
         function_txt' = function_txt \o <<h, t>>
  PROVE  function_txt' \in Seq(Piece) /\ Lines'
<1>i. Symbols' = Symbols /\ raw' = raw
  BY InputsKept, Zenon DEF CInv
<1>1. /\ line \in Nat \ {0} /\ function_txt \in Seq(Piece) /\ Lined(line - 1)
      /\ Len(raw) \in Nat
  BY DEF CInv, Files, Lines, Inputs
<1> DEFINE n == Len(function_txt)
<1>2. /\ n \in Nat /\ DOMAIN function_txt = 1..n /\ DOMAIN function_txt' = 1..(n + 2)
      /\ \A i \in 1..n : function_txt'[i] = function_txt[i]
      /\ function_txt'[n + 1] = h /\ Len(function_txt') = n + 2
      /\ function_txt' \in Seq(Piece)
  BY <1>1
<1>3. /\ n >= line - 1
      /\ \A i \in 1..n : ~PastLong(i) =>
           i \in 1..(line - 1) /\ NamesFunction(function_txt[i], raw[i])
  BY <1>1, <1>2, Zenon DEF Lined
<1> HIDE DEF n
<1>4. n + 2 >= line
  BY <1>1, <1>2, <1>3
<1>5. n + 1 \in 1..(n + 2) /\ function_txt'[n + 1].part = "head"
  BY <1>2
<1>6. ASSUME NEW i \in 1..(n + 2), ~PastLong(i)'
      PROVE  i \in 1..line /\ NamesFunction(function_txt'[i], raw[i])
  <2>1. \A k \in 1..i : function_txt'[k].part # "head"
    <3>1. \A k \in 1..i : k \in DOMAIN function_txt'
      BY <1>2
    <3> QED BY <1>6, <3>1, Zenon DEF PastLong
  <2>2. i \in 1..n
    BY <1>2, <1>5, <2>1
  <2>3. \A k \in 1..i : function_txt[k].part # "head"
    BY <1>2, <2>1, <2>2
  <2>4. ~PastLong(i)
    BY <2>3, Zenon DEF PastLong
  <2>5. i \in 1..(line - 1) /\ NamesFunction(function_txt[i], raw[i])
    BY <1>3, <2>2, <2>4, Zenon
  <2>6. i \in 1..line
    BY <1>1, <2>5
  <2> QED BY <1>2, <2>2, <2>5, <2>6, Zenon
<1>7. Lined(line - 1)'
  <2>1. line' - 1 = line
    BY <1>1
  <2> QED BY <1>i, <1>2, <1>4, <1>5, <1>6, <2>1, Zenon DEF Lined, NamesFunction, Contains
<1>8. line' <= Len(raw') + 1
  BY <1>i, <1>1
<1> QED BY <1>2, <1>7, <1>8 DEF Lines

\* The symbol that ConvertIP takes for an address is the nearest of readelf's table.
LEMMA LowContains ==
  ASSUME CInv, stage = "convert", NEW o \in Nat
  PROVE  /\ Low(o) = 0 => Symbols = {}
         /\ Low(o) # 0 => /\ functions[Low(o)] \in Symbols
                          /\ functions[Low(o)] \in Symbol \cup {NullSymbol}
                          /\ Contains(functions[Low(o)], o)
<1>1. /\ functions \in Seq(Symbol \cup {NullSymbol}) /\ Range(functions) = Symbols
      /\ Ordered(functions) /\ SymShape
  BY DEF CInv, Files, FunctionTable, Inputs
<1>2. Len(functions) \in Nat /\ DOMAIN functions = 1..Len(functions)
  BY <1>1
<1>3. Symbols = {functions[j] : j \in DOMAIN functions}
  BY <1>1, Zenon DEF Range
<1>4. ASSUME Low(o) = 0 PROVE Symbols = {}
  <2>1. \A u \in Symbols : ~(u.offset <= o)
    <3>1. \A j \in DOMAIN functions : ~(functions[j].offset <= o)
      BY <1>1, <1>4, Nearest, Zenon
    <3> QED BY <1>3, <3>1, Zenon
  <2>2. NullSymbol.offset = 0
    <3>1. \A x : [kind |-> "symbol", name |-> x, offset |-> 0].offset = 0
      OBVIOUS
    <3> QED BY <3>1, Zenon DEF NullSymbol
  <2>3. 0 <= o
    OBVIOUS
  <2> QED BY <1>1, <2>1, <2>2, <2>3, NullInTable, Zenon
<1>5. ASSUME Low(o) # 0
      PROVE  /\ functions[Low(o)] \in Symbols
             /\ functions[Low(o)] \in Symbol \cup {NullSymbol}
             /\ Contains(functions[Low(o)], o)
  <2>1. Low(o) \in 0..Len(functions)
    BY <1>1, Nearest, Zenon
  <2>2. Low(o) \in DOMAIN functions
    BY <1>2, <1>5, <2>1
  <2>3. functions[Low(o)] \in Symbol \cup {NullSymbol}
    <3> DEFINE k == Low(o)
    <3> HIDE DEF k
    <3>1. k \in DOMAIN functions => functions[k] \in Symbol \cup {NullSymbol}
      BY <1>1
    <3> QED BY <2>2, <3>1, Zenon DEF k
  <2>4. Contains(functions[Low(o)], o)
    <3>1. /\ functions[Low(o)].offset <= o
          /\ \A j \in DOMAIN functions :
               functions[j].offset <= o => functions[j].offset <= functions[Low(o)].offset
      BY <1>1, <1>5, Nearest, Zenon
    <3> QED BY <1>3, <3>1, Zenon DEF Contains
  <2> QED BY <1>3, <2>2, <2>3, <2>4, Zenon
<1> QED BY <1>4, <1>5, Zenon

\* An address, or the end of ip.txt (convert.cc:318-336).
LEMMA ConvertStep == CInv /\ ConvertIP => CInv'
<1> SUFFICES ASSUME CInv, ConvertIP PROVE CInv'
  OBVIOUS
<1>i. /\ Inputs' /\ Symbols' = Symbols /\ raw' = raw /\ sym' = sym /\ UNCHANGED inputs
  BY InputsKept, Zenon DEF CInv, ConvertIP
<1>1. /\ stage = "convert" /\ ip_txt' = ip_txt /\ first_occ' = first_occ
      /\ functions' = functions /\ filename_txt' = filename_txt /\ final' = final
  BY Zenon DEF ConvertIP
<1>2. /\ ip_txt = raw /\ ip_txt \in Seq(Pip \cup {Invalid})
      /\ line \in Nat \ {0} /\ line <= Len(raw) + 1 /\ first_occ \in Nat
      /\ functions \in Seq(Symbol \cup {NullSymbol}) /\ function_txt \in Seq(Piece)
      /\ filename_txt \in Seq(File \cup {Unknown}) /\ final = <<>>
      /\ Len(raw) \in Nat /\ raw \in Seq(Pip \cup {Invalid})
  BY <1>1 DEF CInv, Files, Addresses, Lines, Joined, Inputs
<1>3. Range(functions) = Symbols /\ Ordered(functions) /\ Lined(line - 1)
  BY <1>1 DEF CInv, FunctionTable, Lines
<1>4. ASSUME stage' \in {"convert", "addr2line", "undefined"}, line' \in Nat \ {0},
             function_txt' \in Seq(Piece), Lines', stage' = "undefined" => Symbols = {}
      PROVE  CInv'
  <2>1. Files'
    BY <1>1, <1>2, <1>4 DEF Files
  <2>2. Addresses'
    <3>1. stage' # "raw"
      BY <1>4
    <3> QED BY <1>i, <1>1, <1>2, <3>1, Zenon DEF Addresses
  <2>3. FunctionTable'
    BY <1>i, <1>1, <1>3, <1>4 DEF FunctionTable, LookupInTable
  <2>4. Joined'
    BY <1>1, <1>2, <1>4 DEF Joined, ProfileMatchesRecords
  <2> QED BY <1>i, <1>4, <2>1, <2>2, <2>3, <2>4, Zenon DEF CInv
<1>5. CASE line > Len(ip_txt)
  <2>1. stage' = "addr2line" /\ line' = 1 /\ function_txt' = function_txt
    BY <1>5, Zenon DEF ConvertIP, Proceed
  <2>2. line - 1 = Len(raw)
    BY <1>2, <1>5
  <2>3. Lined(Len(raw))
    BY <1>3, <2>2, Zenon
  <2>4. Lined(Len(raw))'
    BY <1>i, <2>1, <2>3, Zenon DEF Lined, PastLong, NamesFunction, Contains
  <2>5. Lines'
    BY <2>1, <2>4 DEF Lines
  <2> QED BY <1>2, <1>4, <2>1, <2>5
<1>6. CASE ~(line > Len(ip_txt)) /\ ip_txt[line] = Invalid /\ strcmp_one
  <2> DEFINE l == [name |-> Invalid, part |-> "line"]
  <2>1. function_txt' = Append(function_txt, l) /\ line' = line + 1 /\ stage' = "convert"
    BY <1>1, <1>6, Zenon DEF ConvertIP, NextLine
  <2>2. l \in Piece /\ l.part = "line"
    BY PieceFields, Zenon
  <2> HIDE DEF l
  <2>3. NamesFunction(l, raw[line])
    BY <1>2, <1>6, <2>2, Zenon DEF NamesFunction
  <2>4. line <= Len(raw) /\ line' \in Nat \ {0}
    BY <1>2, <1>6, <2>1
  <2>5. function_txt' \in Seq(Piece) /\ Lines'
    BY <1>i, <1>1, <2>1, <2>2, <2>3, <2>4, ShortLine, Zenon
  <2> QED BY <1>4, <2>1, <2>4, <2>5
<1>7. CASE ~(line > Len(ip_txt)) /\ ~(ip_txt[line] = Invalid /\ strcmp_one)
  <2> DEFINE offset == IF ip_txt[line] = Invalid THEN 0 ELSE ip_txt[line]
             low == Low(offset)
             s == functions[low]
  <2>1. line <= Len(raw) /\ raw[line] \in Pip \cup {Invalid}
    BY <1>2, <1>7
  <2>2. offset \in Nat /\ (raw[line] # Invalid => offset = raw[line])
    <3>1. 0 \in Nat
      OBVIOUS
    <3> QED BY <1>2, <2>1, <3>1, NameAssumption, Zenon
  <2>3. IF low = 0 THEN Proceed("undefined") /\ UNCHANGED function_txt
        ELSE /\ function_txt' = function_txt \o Pieces(s.name, offset - s.offset)
             /\ NextLine
    BY <1>7, Zenon DEF ConvertIP
  <2> HIDE DEF offset
  <2>4. /\ low = 0 => Symbols = {}
        /\ low # 0 => s \in Symbols /\ s \in Symbol \cup {NullSymbol} /\ Contains(s, offset)
    BY <1>1, <2>2, LowContains, Zenon
  <2> HIDE DEF low, s
  <2>5. CASE low = 0
    <3>1. stage' = "undefined" /\ line' = 1 /\ function_txt' = function_txt
      BY <2>3, <2>5, Zenon DEF Proceed
    <3>2. Lines'
      BY <3>1 DEF Lines
    <3> QED BY <1>2, <1>4, <2>4, <2>5, <3>1, <3>2
  <2>6. CASE low # 0
    <3> DEFINE x == s.name
               d == offset - s.offset
    <3>1. /\ function_txt' = function_txt \o Pieces(x, d)
          /\ line' = line + 1 /\ stage' = "convert"
      BY <1>1, <2>3, <2>6, Zenon DEF NextLine
    <3>2. s.offset \in Nat /\ x \in Name \cup {NoName} /\ s.offset <= offset
      BY <2>4, <2>6, SymbolFields, Zenon DEF Contains
    <3>3. d \in Nat /\ line' \in Nat \ {0}
      BY <1>2, <2>2, <3>1, <3>2
    <3>4. function_txt' \in Seq(Piece) /\ Lines'
      <4>1. CASE x \in LongName
        <5> DEFINE h == [name |-> x, part |-> "head"]
                   t == [name |-> x, part |-> "tail", delta |-> d]
        <5>1. x \in Name
          BY <4>1, NameAssumption, Zenon
        <5>2. h \in Piece /\ t \in Piece /\ h.part = "head"
          <6> HIDE DEF d, x
          <6> QED BY <3>3, <5>1, PieceFields, Zenon
        <5>3. function_txt' = function_txt \o <<h, t>>
          BY <3>1, <4>1, Zenon DEF Pieces
        <5> HIDE DEF h, t
        <5> QED BY <1>i, <1>1, <2>1, <3>1, <5>2, <5>3, LongLine, Zenon
      <4>2. CASE x \notin LongName
        <5> DEFINE l == [name |-> x, part |-> "line", delta |-> d]
        <5>1. l \in Piece /\ l.part = "line" /\ l.name = x /\ l.delta = d
          <6> HIDE DEF d, x
          <6> QED BY <3>2, <3>3, PieceFields, Zenon
        <5>2. function_txt' = function_txt \o <<l>>
          BY <3>1, <4>2, Zenon DEF Pieces
        <5> HIDE DEF l
        <5>3. function_txt' = Append(function_txt, l)
          BY <1>2, <5>1, <5>2
        <5>4. NamesFunction(l, raw[line])
          BY <2>2, <2>4, <2>6, <5>1, Zenon DEF NamesFunction
        <5> QED BY <1>i, <1>1, <2>1, <3>1, <5>1, <5>3, <5>4, ShortLine, Zenon
      <4> QED BY <4>1, <4>2, Zenon
    <3> QED BY <1>4, <3>1, <3>3, <3>4
  <2> QED BY <2>5, <2>6, Zenon
<1> QED BY <1>5, <1>6, <1>7, Zenon

-----------------------------------------------------------------------------
(* The profile *)

\* addr2line's lines (convert.cc:457-467).
LEMMA LineOfType ==
  ASSUME Inputs, NEW ip \in Pip \cup {Invalid}
  PROVE  /\ LineOf(ip) \in File \cup {Unknown}
         /\ LineOf(ip) # Unknown => ip # Invalid /\ LineOf(ip) = debug[ip] /\ LineOf(ip) \in File
<1>1. LineOf(ip) \in File \cup {Unknown}
  BY Zenon DEF Inputs, LineOf
<1> QED BY <1>1, Zenon DEF LineOf

\* The two stages in which there is a profile.
LEMMA ProfileStages ==
  /\ ProfileMatchesRecords <=>
       (filename_txt # <<>> => /\ stage = "combine" => Matches(line - 1)
                               /\ stage = "done" => Matches(Len(raw)))
  /\ ProfileMatchesRecords' <=>
       (filename_txt # <<>> => /\ stage = "combine" => Matches(line - 1)
                               /\ stage = "done" => Matches(Len(raw)))'
<1>1. "combine" # "done"
  OBVIOUS
<1> QED BY <1>1, Zenon DEF ProfileMatchesRecords, Matches

\* What the records and functions.txt say of a line does not change.
LEMMA ProfileKept ==
  ASSUME Inputs, UNCHANGED inputs, function_txt' = function_txt
  PROVE  /\ \A l : Describes(l)' <=> Describes(l)
         /\ \A n : PastLong(n)' <=> PastLong(n)
         /\ \A n : Lined(n) => Lined(n)'
         /\ \A ip : LineOf(ip)' = LineOf(ip)
<1>1. Symbols' = Symbols /\ raw' = raw /\ debug' = debug
  BY InputsKept, Zenon
<1>2. \A l : Describes(l)' <=> Describes(l)
  BY <1>1, Zenon DEF Describes, Contains
<1>3. \A n : PastLong(n)' <=> PastLong(n)
  BY Zenon DEF PastLong
<1>4. \A n : Lined(n) => Lined(n)'
  BY <1>1, Zenon DEF Lined, PastLong, NamesFunction, Contains
<1>5. \A ip : LineOf(ip)' = LineOf(ip)
  BY <1>1, Zenon DEF LineOf
<1> QED BY <1>2, <1>3, <1>4, <1>5, Zenon

\* addr2line writes a line per address, or none (convert.cc:457-467).
LEMMA Addr2lineStep == CInv /\ Addr2line => CInv'
<1> SUFFICES ASSUME CInv, Addr2line PROVE CInv'
  OBVIOUS
<1>i. /\ Inputs' /\ Symbols' = Symbols /\ raw' = raw /\ sym' = sym /\ UNCHANGED inputs
      /\ debug' = debug
  BY InputsKept, Zenon DEF CInv, Addr2line
<1>1. /\ stage = "addr2line" /\ stage' = "combine" /\ line' = 1
      /\ ip_txt' = ip_txt /\ first_occ' = first_occ
      /\ functions' = functions /\ function_txt' = function_txt /\ final' = final
      /\ \/ filename_txt' = <<>>
         \/ filename_txt' = [i \in DOMAIN ip_txt |-> LineOf(ip_txt[i])]
  BY Zenon DEF Addr2line, Proceed
<1>2. /\ ip_txt = raw /\ raw \in Seq(Pip \cup {Invalid}) /\ Len(raw) \in Nat
      /\ first_occ \in Nat /\ functions \in Seq(Symbol \cup {NullSymbol})
      /\ function_txt \in Seq(Piece) /\ final = <<>> /\ DOMAIN raw = 1..Len(raw)
  BY <1>1 DEF CInv, Files, Addresses, Joined, Inputs
<1>3. Range(functions) = Symbols /\ Ordered(functions) /\ Lined(Len(raw))
  BY <1>1 DEF CInv, FunctionTable, Lines
<1>4. filename_txt' = <<>> \/ filename_txt' = [i \in DOMAIN raw |-> LineOf(raw[i])]
  BY <1>1, <1>2, Zenon
<1>5. filename_txt' \in Seq(File \cup {Unknown})
  <2>1. \A i \in 1..Len(raw) : LineOf(raw[i]) \in File \cup {Unknown}
    <3> SUFFICES ASSUME NEW i \in 1..Len(raw) PROVE LineOf(raw[i]) \in File \cup {Unknown}
      OBVIOUS
    <3>1. raw[i] \in Pip \cup {Invalid}
      BY <1>2
    <3> QED BY <3>1, LineOfType, Zenon DEF CInv
  <2>2. CASE filename_txt' = [i \in DOMAIN raw |-> LineOf(raw[i])]
    BY <1>2, <2>1, <2>2
  <2>3. CASE filename_txt' = <<>>
    BY <2>3
  <2> QED BY <1>4, <2>2, <2>3, Zenon
<1>6. Files'
  BY <1>1, <1>2, <1>5 DEF Files
<1>7. Addresses'
  BY <1>i, <1>1, <1>2 DEF Addresses
<1>8. FunctionTable'
  BY <1>i, <1>1, <1>3 DEF FunctionTable, LookupInTable
<1>9. Lines'
  <2>1. Lined(Len(raw))'
    BY <1>i, <1>1, <1>3, ProfileKept, Zenon DEF CInv
  <2> QED BY <1>1, <2>1 DEF Lines
<1>10. Joined'
  <2>1. filename_txt' = <<>> \/ filename_txt' = [i \in DOMAIN raw |-> LineOf(raw[i])]'
    BY <1>i, <1>1, <1>4, ProfileKept, Zenon DEF CInv
  <2>2. Matches(line - 1)'
    <3>1. Range(final') = {} /\ DOMAIN final' = {} /\ 0..((line' - 1) - 1) = {}
      BY <1>1, <1>2 DEF Range
    <3> QED BY <3>1, Zenon DEF Matches
  <2>3. ProfileMatchesRecords'
    BY <1>1, <2>2, ProfileStages
  <2>4. line' <= Len(raw') + 1
    BY <1>i, <1>1, <1>2
  <2> QED BY <1>1, <2>1, <2>3, <2>4, Zenon DEF Joined
<1> QED BY <1>i, <1>6, <1>7, <1>8, <1>9, <1>10, Zenon DEF CInv

\* Combine writes the line of a record (convert.cc:358-380), or skips it.
LEMMA Joins ==
  ASSUME CInv, stage = "combine", UNCHANGED <<inputs, function_txt>>,
         filename_txt = [i \in DOMAIN raw |-> LineOf(raw[i])],
         line <= Len(raw), Matches(line - 1), NEW n, n = line,
         \/ filename_txt[line] = Unknown /\ final' = final
         \/ /\ filename_txt[line] # Unknown
            /\ function_txt[line].part # "head"
            /\ final' = Append(final, [index |-> Index, file |-> filename_txt[line],
                                       function |-> function_txt[line]])
  PROVE  final' \in Seq([index : Nat, file : File, function : Range(function_txt)])
         /\ Matches(n)'
<1>i. Inputs /\ UNCHANGED inputs /\ function_txt' = function_txt /\ raw' = raw
  BY InputsKept, Zenon DEF CInv
<1>k. /\ \A l : Describes(l)' <=> Describes(l)
      /\ \A m : PastLong(m)' <=> PastLong(m)
      /\ \A ip : LineOf(ip)' = LineOf(ip)
  BY <1>i, ProfileKept, Zenon
<1> DEFINE Entry == [index : Nat, file : File, function : Range(function_txt)]
<1>1. /\ line \in Nat \ {0} /\ raw \in Seq(Pip \cup {Invalid}) /\ Len(raw) \in Nat
      /\ final \in Seq(Entry) /\ Len(final) \in Nat /\ DOMAIN final = 1..Len(final)
      /\ function_txt \in Seq(Piece) /\ Lined(Len(raw)) /\ DOMAIN raw = 1..Len(raw)
  BY DEF CInv, Files, Inputs, Lines
<1>2. /\ line \in DOMAIN raw /\ raw[line] \in Pip \cup {Invalid}
      /\ filename_txt[line] = LineOf(raw[line])
  BY <1>1
<1>3. line \in DOMAIN function_txt /\ line \in 1..line
  <2>1. Len(function_txt) >= Len(raw)
    BY <1>1, Zenon DEF Lined
  <2> QED BY <1>1, <2>1
<1>4. \A m \in 1..(line - 1) : m \in 1..line
  BY <1>1
<1>5. \A i : i \in 0..(line - 1) <=> i \in 0..((line - 1) - 1) \/ i = line - 1
  BY <1>1
<1>6. PastLong(line - 1) => PastLong(line)
  BY <1>4, Zenon DEF PastLong
<1>7. (line - 1) + 1 = line
  BY <1>1
<1>8. CASE filename_txt[line] = Unknown /\ final' = final
  <2>1. final' \in Seq(Entry)
    BY <1>1, <1>8, Zenon
  <2>2. {i \in 0..(line - 1) : LineOf(raw[i + 1]) # Unknown} =
          {i \in 0..((line - 1) - 1) : LineOf(raw[i + 1]) # Unknown}
    BY <1>2, <1>5, <1>7, <1>8, Zenon
  <2>3. CASE PastLong(line)
    BY <1>k, <2>1, <2>3, Zenon DEF Matches
  <2>4. CASE ~PastLong(line)
    <3>1. /\ \A l \in Range(final) : Describes(l)
          /\ {l.index : l \in Range(final)} =
               {i \in 0..((line - 1) - 1) : LineOf(raw[i + 1]) # Unknown}
          /\ \A i, j \in DOMAIN final : i < j => final[i].index < final[j].index
      BY <1>6, <2>4, Zenon DEF Matches
    <3>2. {l.index : l \in Range(final)} = {i \in 0..(n - 1) : LineOf(raw[i + 1]) # Unknown}
      BY <2>2, <3>1, Zenon
    <3> QED BY <1>i, <1>k, <1>8, <2>1, <3>1, <3>2 DEF Matches
  <2> QED BY <2>3, <2>4, Zenon
<1>9. CASE /\ filename_txt[line] # Unknown
           /\ function_txt[line].part # "head"
           /\ final' = Append(final, [index |-> Index, file |-> filename_txt[line],
                                      function |-> function_txt[line]])
  <2> DEFINE e == [index |-> Index, file |-> filename_txt[line], function |-> function_txt[line]]
  <2>1. /\ e.index = line - 1 /\ e.file = LineOf(raw[line]) /\ e.function = function_txt[line]
        /\ raw[line] # Invalid /\ e.file = debug[raw[line]] /\ e.file \in File
        /\ e.index \in Nat
    <3>1. e.index = line - 1 /\ e.file = LineOf(raw[line]) /\ e.function = function_txt[line]
      BY <1>2 DEF Index
    <3>2. LineOf(raw[line]) # Unknown
      BY <1>2, <1>9, Zenon
    <3>3. line - 1 \in Nat
      BY <1>1
    <3> HIDE DEF e
    <3> QED BY <1>i, <1>2, <3>1, <3>2, <3>3, LineOfType, Zenon
  <2>2. e \in Entry
    <3>1. Index \in Nat
      BY <1>1 DEF Index
    <3>2. filename_txt[line] \in File
      BY <2>1
    <3>3. function_txt[line] \in Range(function_txt)
      BY <1>3, Zenon DEF Range
    <3> HIDE DEF Index
    <3> QED BY <3>1, <3>2, <3>3
  <2>3. final' = Append(final, e)
    BY <1>9, Zenon
  <2> HIDE DEF e, Entry
  <2>4. /\ final' \in Seq(Entry) /\ DOMAIN final' = 1..(Len(final) + 1)
        /\ \A i \in DOMAIN final : final'[i] = final[i]
        /\ final'[Len(final) + 1] = e
    <3>1. final \in Seq(Entry) /\ e \in Entry
      BY <1>1, <2>2, Zenon
    <3> QED BY <2>3, <3>1
  <2>5. Range(final') = Range(final) \cup {e}
    <3>1. \A i \in DOMAIN final : i \in DOMAIN final'
      BY <1>1, <2>4
    <3>2. Len(final) + 1 \in DOMAIN final'
      BY <1>1, <2>4
    <3>3. \A i \in DOMAIN final' : i \in DOMAIN final \/ i = Len(final) + 1
      BY <1>1, <2>4
    <3> QED BY <2>4, <3>1, <3>2, <3>3, Zenon DEF Range
  <2>6. CASE PastLong(line)
    BY <1>k, <2>4, <2>6, Zenon DEF Matches, Entry
  <2>7. CASE ~PastLong(line)
    <3>1. /\ \A l \in Range(final) : Describes(l)
          /\ {l.index : l \in Range(final)} =
               {i \in 0..((line - 1) - 1) : LineOf(raw[i + 1]) # Unknown}
          /\ \A i, j \in DOMAIN final : i < j => final[i].index < final[j].index
      BY <1>6, <2>7, Zenon DEF Matches
    <3>2. Describes(e)
      <4>1. NamesFunction(function_txt[line], raw[line])
        BY <1>1, <1>3, <2>7, Zenon DEF Lined
      <4> QED BY <1>7, <2>1, <4>1, Zenon DEF Describes, NamesFunction
    <3>3. \A l \in Range(final') : Describes(l)
      BY <2>5, <3>1, <3>2, Zenon
    <3>4. LineOf(raw[(line - 1) + 1]) # Unknown
      BY <1>2, <1>7, <1>9, Zenon
    <3>5. {l.index : l \in Range(final')} = {i \in 0..(n - 1) : LineOf(raw[i + 1]) # Unknown}
      <4>1. {l.index : l \in Range(final')} = {l.index : l \in Range(final)} \cup {line - 1}
        BY <2>1, <2>5, Zenon
      <4>2. {i \in 0..(line - 1) : LineOf(raw[i + 1]) # Unknown} =
              {i \in 0..((line - 1) - 1) : LineOf(raw[i + 1]) # Unknown} \cup {line - 1}
        BY <1>5, <3>4, Zenon
      <4> QED BY <3>1, <4>1, <4>2, Zenon
    <3>6. \A i, j \in DOMAIN final' : i < j => final'[i].index < final'[j].index
      <4> SUFFICES ASSUME NEW i \in DOMAIN final', NEW j \in DOMAIN final', i < j
                   PROVE  final'[i].index < final'[j].index
        BY Zenon
      <4>1. i \in DOMAIN final /\ (j \in DOMAIN final \/ j = Len(final) + 1)
        BY <1>1, <2>4
      <4>2. CASE j \in DOMAIN final
        BY <2>4, <3>1, <4>1, <4>2, Zenon
      <4>3. CASE j = Len(final) + 1
        <5>1. final[i].index \in {l.index : l \in Range(final)}
          BY <4>1, Zenon DEF Range
        <5>2. final[i].index \in 0..((line - 1) - 1)
          BY <3>1, <5>1, Zenon
        <5>3. final[i].index < line - 1
          BY <1>1, <5>2
        <5> QED BY <2>1, <2>4, <4>1, <4>3, <5>3, Zenon
      <4> QED BY <4>1, <4>2, <4>3, Zenon
    <3> QED BY <1>i, <1>k, <2>4, <3>3, <3>5, <3>6 DEF Matches, Entry
  <2> QED BY <2>6, <2>7, Zenon
<1> QED BY <1>8, <1>9, Zenon

\* A pair of lines, the end of one of the files, or the assert (convert.cc:358-380).
LEMMA CombineStep == CInv /\ Combine => CInv'
<1> SUFFICES ASSUME CInv, Combine PROVE CInv'
  OBVIOUS
<1>i. /\ Inputs' /\ Symbols' = Symbols /\ raw' = raw /\ sym' = sym /\ UNCHANGED inputs
      /\ Inputs
  BY InputsKept, Zenon DEF CInv, Combine
<1>1. /\ stage = "combine" /\ ip_txt' = ip_txt /\ first_occ' = first_occ
      /\ functions' = functions /\ function_txt' = function_txt /\ filename_txt' = filename_txt
  BY Zenon DEF Combine
<1>k. /\ \A l : Describes(l)' <=> Describes(l)
      /\ \A m : PastLong(m)' <=> PastLong(m)
      /\ \A m : Lined(m) => Lined(m)'
      /\ \A ip : LineOf(ip)' = LineOf(ip)
  BY <1>i, <1>1, ProfileKept, Zenon
<1> DEFINE Entry == [index : Nat, file : File, function : Range(function_txt)]
<1>2. /\ ip_txt = raw /\ raw \in Seq(Pip \cup {Invalid}) /\ Len(raw) \in Nat
      /\ first_occ \in Nat /\ functions \in Seq(Symbol \cup {NullSymbol})
      /\ function_txt \in Seq(Piece) /\ filename_txt \in Seq(File \cup {Unknown})
      /\ final \in Seq(Entry) /\ DOMAIN raw = 1..Len(raw)
      /\ line \in Nat \ {0} /\ line <= Len(raw) + 1
  BY <1>1 DEF CInv, Files, Addresses, Joined, Inputs
<1>3. Range(functions) = Symbols /\ Ordered(functions) /\ Lined(Len(raw))
  BY <1>1 DEF CInv, FunctionTable, Lines
<1>4. filename_txt = <<>> \/ filename_txt = [i \in DOMAIN raw |-> LineOf(raw[i])]
  BY <1>1 DEF CInv, Joined
<1>5. filename_txt # <<>> => Matches(line - 1)
  BY <1>1, ProfileStages, Zenon DEF CInv, Joined
<1>6. ASSUME stage' \in {"combine", "done", "assert"}, line' \in Nat \ {0}, final' \in Seq(Entry),
             stage' = "combine" => line' <= Len(raw) + 1, ProfileMatchesRecords'
      PROVE  CInv'
  <2>1. Files'
    BY <1>1, <1>2, <1>6 DEF Files
  <2>2. Addresses'
    <3>1. stage' # "raw"
      BY <1>6
    <3> QED BY <1>i, <1>1, <1>2, <3>1, Zenon DEF Addresses
  <2>3. FunctionTable'
    BY <1>i, <1>1, <1>3, <1>6 DEF FunctionTable, LookupInTable
  <2>4. Lines'
    <3>1. Lined(Len(raw))'
      BY <1>i, <1>3, <1>k, Zenon
    <3> QED BY <1>6, <3>1 DEF Lines
  <2>5. Joined'
    <3>1. filename_txt' = <<>> \/ filename_txt' = [i \in DOMAIN raw |-> LineOf(raw[i])]'
      BY <1>i, <1>1, <1>4, <1>k, Zenon
    <3> QED BY <1>i, <1>6, <3>1, Zenon DEF Joined
  <2> QED BY <1>i, <2>1, <2>2, <2>3, <2>4, <2>5, Zenon DEF CInv
<1>7. CASE line > Len(filename_txt) \/ line > Len(function_txt)
  <2>1. stage' = "done" /\ line' = 1 /\ final' = final
    BY <1>7, Zenon DEF Combine, Proceed
  <2>2. ASSUME filename_txt # <<>> PROVE Matches(Len(raw))'
    <3>1. filename_txt = [i \in DOMAIN raw |-> LineOf(raw[i])]
      BY <1>4, <2>2, Zenon
    <3>2. Len(filename_txt) = Len(raw)
      BY <1>2, <3>1
    <3>3. Len(function_txt) >= Len(raw) /\ Len(function_txt) \in Nat
      BY <1>2, <1>3 DEF Lined
    <3>4. line - 1 = Len(raw)
      BY <1>2, <1>7, <3>2, <3>3
    <3>5. Matches(Len(raw))
      BY <1>5, <2>2, <3>4, Zenon
    <3> QED BY <1>i, <1>k, <2>1, <3>5, Zenon DEF Matches
  <2>3. ProfileMatchesRecords'
    BY <1>1, <2>1, <2>2, ProfileStages
  <2>4. line' \in Nat \ {0}
    BY <2>1
  <2> QED BY <1>2, <1>6, <2>1, <2>3, <2>4
<1>8. CASE ~(line > Len(filename_txt) \/ line > Len(function_txt))
  <2>1. filename_txt # <<>>
    BY <1>2, <1>8
  <2>2. filename_txt = [i \in DOMAIN raw |-> LineOf(raw[i])] /\ Matches(line - 1)
    BY <1>4, <1>5, <2>1, Zenon
  <2>3. line <= Len(raw)
    <3>1. Len(filename_txt) = Len(raw)
      BY <1>2, <2>2
    <3> QED BY <1>2, <1>8, <3>1
  <2>4. CASE filename_txt[line] # Unknown /\ function_txt[line].part = "head"
    <3>1. stage' = "assert" /\ line' = 1 /\ final' = final
      BY <1>8, <2>4, Zenon DEF Combine, Proceed
    <3>2. ProfileMatchesRecords'
      BY <3>1, ProfileStages
    <3>3. line' \in Nat \ {0}
      BY <3>1
    <3> QED BY <1>2, <1>6, <3>1, <3>2, <3>3
  <2>5. CASE \/ filename_txt[line] = Unknown /\ final' = final
             \/ /\ filename_txt[line] # Unknown
                /\ function_txt[line].part # "head"
                /\ final' = Append(final, [index |-> Index, file |-> filename_txt[line],
                                           function |-> function_txt[line]])
    <3>1. stage' = "combine" /\ line' = line + 1
      BY <1>1, <1>8, <2>5, Zenon DEF Combine, NextLine
    <3>2. PICK n : n = line
      BY Zenon
    <3>3. final' \in Seq(Entry) /\ Matches(n)'
      BY <1>i, <1>1, <2>2, <2>3, <2>5, <3>2, Joins, Zenon
    <3>4. Matches(line - 1)'
      <4>1. line' - 1 = n
        BY <1>2, <3>1, <3>2
      <4> QED BY <3>3, <4>1, Zenon
    <3>5. ProfileMatchesRecords'
      BY <3>1, <3>4, ProfileStages
    <3>6. line' \in Nat \ {0} /\ line' <= Len(raw) + 1
      BY <1>2, <2>3, <3>1
    <3> QED BY <1>6, <3>1, <3>3, <3>5, <3>6, Zenon
  <2>6. \/ filename_txt[line] # Unknown /\ function_txt[line].part = "head"
        \/ filename_txt[line] = Unknown /\ final' = final
        \/ /\ filename_txt[line] # Unknown
           /\ function_txt[line].part # "head"
           /\ final' = Append(final, [index |-> Index, file |-> filename_txt[line],
                                      function |-> function_txt[line]])
    BY <1>8, Zenon DEF Combine
  <2> QED BY <2>4, <2>5, <2>6, Zenon
<1> QED BY <1>7, <1>8, Zenon

-----------------------------------------------------------------------------
(* The theorems *)

\* Each pass of main (convert.cc:423-471) finds what the one before has written: a line
\* per record in ip.txt and functions.txt, readelf's symbols in the table.
THEOREM ConvertInvariant == Spec => []CInv
<1>1. Init => CInv
  BY InitCInv
<1>2. CInv /\ [Next]_vars => CInv'
  <2> SUFFICES ASSUME CInv, [Next]_vars PROVE CInv'
    OBVIOUS
  <2>1. CASE Next
    BY <2>1, RawStep, SymStep, SortStep, ConvertStep, Addr2lineStep, CombineStep, Zenon DEF Next
  <2>2. CASE UNCHANGED vars
    <3>1. /\ UNCHANGED inputs /\ stage' = stage /\ line' = line /\ ip_txt' = ip_txt
          /\ first_occ' = first_occ /\ functions' = functions
          /\ function_txt' = function_txt /\ filename_txt' = filename_txt /\ final' = final
      BY <2>2, Zenon DEF vars
    <3>2. /\ Inputs' /\ Symbols' = Symbols /\ raw' = raw /\ sym' = sym /\ debug' = debug
      BY <3>1, InputsKept, Zenon DEF CInv
    <3>k. /\ \A l : Describes(l)' <=> Describes(l)
          /\ \A m : PastLong(m)' <=> PastLong(m)
          /\ \A m : Lined(m) => Lined(m)'
          /\ \A ip : LineOf(ip)' = LineOf(ip)
      BY <3>1, ProfileKept, Zenon DEF CInv
    <3>3. Files'
      BY <3>1, Zenon DEF CInv, Files
    <3>4. Addresses'
      BY <3>1, <3>2, Zenon DEF CInv, Addresses
    <3>5. FunctionTable'
      BY <3>1, <3>2, Zenon DEF CInv, FunctionTable, LookupInTable, SymbolsBefore
    <3>6. Lines'
      BY <3>1, <3>2, <3>k, Zenon DEF CInv, Lines
    <3>7. ProfileMatchesRecords'
      BY <3>1, <3>2, <3>k, Zenon DEF CInv, Joined, ProfileMatchesRecords
    <3>8. Joined'
      BY <3>1, <3>2, <3>k, <3>7, Zenon DEF CInv, Joined
    <3> QED BY <3>2, <3>3, <3>4, <3>5, <3>6, <3>8, Zenon DEF CInv
  <2> QED BY <2>1, <2>2, Zenon
<1> QED BY <1>1, <1>2, PTL DEF Spec

\* The files and tables of the converter hold what their names say.
THEOREM TypeCorrect == Spec => []TypeOK
<1>1. CInv => TypeOK
  <2> SUFFICES ASSUME CInv PROVE TypeOK
    OBVIOUS
  <2>1. Files
    BY Zenon DEF CInv
  <2>2. /\ Range(ip_txt) \subseteq Pip \cup {Invalid}
        /\ Range(functions) \subseteq Symbol \cup {NullSymbol}
        /\ Range(function_txt) \subseteq Piece
        /\ Range(filename_txt) \subseteq File \cup {Unknown}
        /\ Range(final) \subseteq [index : Nat, file : File, function : Range(function_txt)]
    <3>1. \A S : \A s \in Seq(S) : Range(s) \subseteq S
      BY DEF Range
    <3> QED BY <2>1, <3>1, Zenon DEF Files
  <2> QED BY <2>1, <2>2, Zenon DEF TypeOK, Files, Piece, NoName
<1> QED BY <1>1, ConvertInvariant, PTL

\* The lookup of convert.cc:328-331, whose assert is commented out, stays in the table for
\* every binary that has a symbol table.
THEOREM LookupStaysInTable == Spec => []LookupInTable
<1>1. CInv => LookupInTable
  BY Zenon DEF CInv, FunctionTable
<1> QED BY <1>1, ConvertInvariant, PTL

\* The profile of Combine (convert.cc:338-384) has a line for exactly the records with a
\* known source line, in order, each of the record of its index, until a long name.
THEOREM ProfileIsOfRecords == Spec => []ProfileMatchesRecords
<1>1. CInv => ProfileMatchesRecords
  BY Zenon DEF CInv, Joined
<1> QED BY <1>1, ConvertInvariant, PTL
=============================================================================
