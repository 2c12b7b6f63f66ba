------------------------------ MODULE Convert ------------------------------
(***************************************************************************)
(* The address converter, tools/convert.cc: it turns the raw records into  *)
(* ip.txt, reads the symbol table that readelf prints, names the function  *)
(* of every sampled instruction (functions.txt), lets addr2line name the   *)
(* source lines (filename.txt), and joins the two line by line into the    *)
(* profile of the instruction simulator.  The n-th line of each file       *)
(* stands for the n-th raw record; only the order of the lines says so.    *)
(*                                                                         *)
(* A text file is the sequence of its lines, functions.txt the sequence of *)
(* the pieces in which the fgets of Combine reads it.                      *)
(***************************************************************************)
EXTENDS Naturals, Sequences, Functions

CONSTANTS Pip,         \* sampled instruction addresses
          Name,        \* names of functions
          LongName,    \* names too long for the 200 bytes Combine reads
          File,        \* source lines addr2line knows
          Invalid,     \* the line of a record that is not a MEMORY_OP
          Unknown,     \* the line "??:0" of addr2line
          MaxRecords,  \* bound: records behind the unused slot 0
          MaxSymbols   \* bound: lines behind the null symbol

ASSUME NameAssumption == LongName \subseteq Name /\ Pip \subseteq Nat \ {0}
ASSUME LineAssumption == Invalid \notin Pip /\ Unknown \notin File

VARIABLES raw, sym, debug,    \* inputs: raw records, readelf's lines, line table
          strcmp_one,         \* strcmp returns 1, not a difference, when greater
          stage, line,        \* the loop of main that runs, and its next line
          ip_txt, first_occ, functions, function_txt, filename_txt, final

inputs == <<raw, sym, debug, strcmp_one>>
vars == <<inputs, stage, line, ip_txt, first_occ, functions, function_txt,
          filename_txt, final>>

Symbol == [kind : {"symbol"}, name : Name, offset : Pip]
NullSymbol == [kind |-> "symbol", name |-> "", offset |-> 0]
Other(kind) == [kind |-> kind, name |-> "", offset |-> 0]

UpTo(S, n) == UNION {[1..m -> S] : m \in 0..n}

\* StopBuffer writes the unused slot 0 first.
RawFiles == {<<Invalid>> \o s : s \in UpTo(Pip \cup {Invalid}, MaxRecords)}

\* readelf prints the dynamic symbols, then, unless the binary is stripped, the
\* .symtab line, the header and the null symbol before all others.
SymFiles ==
  {<<Other("dynsym")>>} \cup
  {<<Other("dynsym"), Other("symtab"), Other("header"), NullSymbol>> \o s :
     s \in UpTo(Symbol \cup {Other("malformed")}, MaxSymbols)}

Init ==
  /\ raw \in RawFiles
  /\ sym \in SymFiles
  /\ debug \in [Pip -> File \cup {Unknown}]
  /\ strcmp_one \in BOOLEAN
  /\ stage = "raw" /\ line = 1
  /\ ip_txt = <<>> /\ first_occ = 0 /\ functions = <<>>
  /\ function_txt = <<>> /\ filename_txt = <<>> /\ final = <<>>

\* The loop that runs ends, and main goes on with the next one.
Proceed(to) == stage' = to /\ line' = 1
NextLine == line' = line + 1 /\ UNCHANGED stage

-----------------------------------------------------------------------------
(* ReadRawFile and ReadSymFile *)

ReadRawFile ==
  /\ stage = "raw"
  /\ IF line <= Len(raw)
       THEN ip_txt' = Append(ip_txt, raw[line]) /\ NextLine
       ELSE Proceed("sym") /\ UNCHANGED ip_txt
  /\ UNCHANGED <<inputs, first_occ, functions, function_txt, filename_txt, final>>

\* Mutant: a third line is skipped behind the .symtab line.
SkippedThree(occ) == occ <= 3
Skipped(occ) == occ <= 2

\* Lines count from the .symtab line on; main ignores that a malformed line ends
\* the table early.
ReadSymFile ==
  /\ stage = "sym"
  /\ IF line > Len(sym) THEN Proceed("sort") /\ UNCHANGED <<first_occ, functions>>
     ELSE LET l == sym[line]
              occ == IF l.kind = "symtab" \/ first_occ > 0 THEN first_occ + 1 ELSE 0
          IN  /\ first_occ' = occ
              /\ IF Skipped(occ) THEN NextLine /\ UNCHANGED functions
                 ELSE IF l.kind = "malformed" THEN Proceed("sort") /\ UNCHANGED functions
                 ELSE NextLine /\ functions' = Append(functions, l)
  /\ UNCHANGED <<inputs, ip_txt, function_txt, filename_txt, final>>

-----------------------------------------------------------------------------
(* ConvertIP *)

Ordered(s) == \A i, j \in DOMAIN s : i < j => s[i].offset <= s[j].offset

\* std::sort leaves symbols of one offset in any order.
SortedTables ==
  LET D == DOMAIN functions
  IN  {s \in {[i \in D |-> functions[p[i]]] : p \in Bijection(D, D)} : Ordered(s)}

SortFunctions ==
  /\ stage = "sort"
  /\ functions' \in SortedTables
  /\ Proceed("convert")
  /\ UNCHANGED <<inputs, ip_txt, first_occ, function_txt, filename_txt, final>>

lower_bound(offset) ==
  CHOOSE i \in 1..(Len(functions) + 1) :
    /\ i <= Len(functions) => functions[i].offset >= offset
    /\ \A j \in 1..(i - 1) : functions[j].offset < offset

\* Mutant: low is moved back at the end of the table only.
LowAtEnd(offset) ==
  IF lower_bound(offset) > Len(functions) THEN lower_bound(offset) - 1 ELSE lower_bound(offset)

\* low: 0 stands for the place before begin().
Low(offset) ==
  LET low == lower_bound(offset)
  IN  IF low > Len(functions) \/ functions[low].offset # offset THEN low - 1 ELSE low

\* What fgets reads of a line "name offset": two pieces if it is too long.
Pieces(name, delta) ==
  IF name \in LongName
    THEN <<[name |-> name, part |-> "head"],
           [name |-> name, part |-> "tail", delta |-> delta]>>
    ELSE <<[name |-> name, part |-> "line", delta |-> delta]>>

\* strtoll makes 0 of "invalid", whose '\n' keeps it from being recognised where
\* strcmp returns a difference.
ConvertIP ==
  /\ stage = "convert"
  /\ IF line > Len(ip_txt) THEN Proceed("addr2line") /\ UNCHANGED function_txt
     ELSE IF ip_txt[line] = Invalid /\ strcmp_one
       THEN function_txt' = Append(function_txt, [name |-> Invalid, part |-> "line"]) /\ NextLine
     ELSE LET offset == IF ip_txt[line] = Invalid THEN 0 ELSE ip_txt[line]
              low == Low(offset)
          IN  IF low = 0 THEN Proceed("undefined") /\ UNCHANGED function_txt
              ELSE /\ function_txt' = function_txt \o
                        Pieces(functions[low].name, offset - functions[low].offset)
                   /\ NextLine
  /\ UNCHANGED <<inputs, ip_txt, first_occ, functions, filename_txt, final>>

-----------------------------------------------------------------------------
(* addr2line and Combine *)

LineOf(ip) == IF ip = Invalid THEN Unknown ELSE debug[ip]

\* One line per address, or none when addr2line cannot run: main goes on.
Addr2line ==
  /\ stage = "addr2line"
  /\ filename_txt' \in {<<>>, [i \in DOMAIN ip_txt |-> LineOf(ip_txt[i])]}
  /\ Proceed("combine")
  /\ UNCHANGED <<inputs, ip_txt, first_occ, functions, function_txt, final>>

\* Mutant: the index counts the lines written so far.
IndexOfWritten == Len(final)
Index == line - 1

\* The comparison with "invalid" is never equal, the line ends in '\n'.  A piece
\* without '\n' fails the assert unless "??:0" made Combine skip it before.
Combine ==
  /\ stage = "combine"
  /\ IF line > Len(filename_txt) \/ line > Len(function_txt)
       THEN Proceed("done") /\ UNCHANGED final
     ELSE IF filename_txt[line] = Unknown THEN NextLine /\ UNCHANGED final
     ELSE IF function_txt[line].part = "head" THEN Proceed("assert") /\ UNCHANGED final
     ELSE /\ final' = Append(final, [index |-> Index, file |-> filename_txt[line],
                                     function |-> function_txt[line]])
          /\ NextLine
  /\ UNCHANGED <<inputs, ip_txt, first_occ, functions, function_txt, filename_txt>>

Next == ReadRawFile \/ ReadSymFile \/ SortFunctions \/ ConvertIP \/ Addr2line \/ Combine

Spec == Init /\ [][Next]_vars

-----------------------------------------------------------------------------
(* Properties *)

\* The files and tables hold what their names say.
TypeOK ==
  /\ stage \in {"raw", "sym", "sort", "convert", "addr2line", "combine", "done",
                "assert", "undefined"}
  /\ line \in Nat \ {0} /\ first_occ \in Nat
  /\ Range(ip_txt) \subseteq Pip \cup {Invalid}
  /\ Range(functions) \subseteq Symbol \cup {NullSymbol}
  /\ Range(function_txt) \subseteq [name : Name \cup {""}, part : {"line", "tail"}, delta : Nat]
                                     \cup [name : Name \cup {Invalid}, part : {"line", "head"}]
  /\ Range(filename_txt) \subseteq File \cup {Unknown}
  /\ Range(final) \subseteq [index : Nat, file : File, function : Range(function_txt)]

\* The symbols of readelf's table up to its first malformed line.
Symbols == {sym[i] : i \in {i \in DOMAIN sym :
              /\ sym[i].kind = "symbol"
              /\ \A j \in 1..i : sym[j].kind # "malformed"}}

\* A symbol that starts at or before the address, none of the table nearer to it.
Contains(s, ip) ==
  /\ s.offset <= ip
  /\ \A u \in Symbols : u.offset <= ip => u.offset <= s.offset

\* The line says where the raw record of its index was sampled.
Describes(l) ==
  LET ip == raw[l.index + 1]
  IN  /\ ip # Invalid /\ l.file = debug[ip] /\ l.function.part = "line"
      /\ \E s \in Symbols : /\ Contains(s, ip)
                            /\ l.function.name = s.name
                            /\ l.function.delta = ip - s.offset

\* Combine went past the head of a long line, so that it is a line behind.
PastLong(n) == \E i \in 1..n : i \in DOMAIN function_txt /\ function_txt[i].part = "head"

\* "the mao phase will use this to as the index to binary data" (convert.cc:376): the
\* profile has a line for exactly the records with a known source line, in order,
\* and each describes the record of its index, until a long name is skipped.
ProfileMatchesRecords ==
  stage \in {"combine", "done"} /\ filename_txt # <<>> =>
    LET reached == IF stage = "done" THEN Len(raw) ELSE line - 1
    IN  \/ PastLong(reached)
        \/ /\ \A l \in Range(final) : Describes(l)
           /\ {l.index : l \in Range(final)} =
                {i \in 0..(reached - 1) : LineOf(raw[i + 1]) # Unknown}
           /\ \A i, j \in DOMAIN final : i < j => final[i].index < final[j].index

\* "assert(low != functions.begin())" is commented out (convert.cc:329) and low - 1 is
\* taken unchecked: it stays inside the table, since the null symbol starts at 0,
\* for every binary that has a symbol table.
LookupInTable == stage = "undefined" => Symbols = {}
=============================================================================
