------------------------------- MODULE CfgMap -------------------------------
(***************************************************************************)
(* The configuration map (cfgmap.c).  The parser goes through a file line  *)
(* by line and files each value under a symbol: the path of the values     *)
(* that opened the blocks around it, and the word the line begins with.    *)
(* An .include opens another file, and a block may begin in one file and   *)
(* end in another; a line that begins with @ replaces a value.             *)
(*                                                                         *)
(* A line is what the character loop and trim() leave of it: comments,     *)
(* escapes, quotes, characters that are not printable and blanks are gone  *)
(* and $CWD is put in.  Its fields:                                        *)
(*   kind   "pair", "replace", "include", "close", "broken"       *)
(*   sym    the symbol as a path: of one word in a pair, as it is written  *)
(*          in a replacement; the file of an include                       *)
(*   ndx    in a replacement, the index in brackets, or NoNdx              *)
(*   val    the rest, "" without one                                       *)
(*   end    "{" or "}" if it ends so: a { is cut off, a } is left in val   *)
(*          and closes a block before the rest of the line is looked at,   *)
(*          of an .include too; "}}" if the line also begins with a }      *)
(***************************************************************************)
EXTENDS Integers, Sequences, FiniteSets, SequencesExt, Functions, FiniteSetsExt

CONSTANTS Files,      \* what the files that can be included hold
          Main,       \* the configuration file that is read
          Deviant,    \* lines that may turn up anywhere in a file
          MaxOpen,    \* how many files fopen() opens
          Garbage,    \* what is read where a string was put in the place of a VALUE
          NULL        \* what is returned where there is no string

NoNdx == -1
Lines ==
  {l \in [kind : {"pair", "replace", "include", "close", "broken"}, sym : Seq(STRING),
           ndx : Nat \cup {NoNdx}, val : STRING, end : {"", "{", "}", "}}"}] :
     /\ l.kind = "pair" => Len(l.sym) = 1
     /\ l.end = "}}" => l.kind = "close"}

ASSUME FilesAssumption ==
  Main \in DOMAIN Files /\ \A f \in DOMAIN Files : Files[f] \in Seq(Lines)
ASSUME DeviantAssumption == Deviant \subseteq Lines
ASSUME OpenAssumption == MaxOpen \in Nat \ {0}
ASSUME GarbageAssumption == Garbage \in STRING /\ NULL \notin STRING

VARIABLES
  fhs,             \* the lines yet to be read of each open file, innermost last
  curlyBlock_lst,  \* the values that opened the blocks around the current line
  entry_map,       \* the values of each symbol, with their serial numbers
  serial_no_seq,   \* the last serial number given
  known,           \* CFGMAP_NTUPLES_KNOWN_FLG
  nTuples,         \* the number of values when they were counted
  looked           \* the symbols with nLookups > 0
VARIABLE
  doc              \* history, for the properties only: the lines read

cfgVars == <<fhs, curlyBlock_lst, entry_map, serial_no_seq, known, nTuples, looked, doc>>
readVars == <<curlyBlock_lst, entry_map, serial_no_seq>>
queryVars == <<known, nTuples, looked>>

\* A string in the place of a VALUE.
Wild == [str |-> Garbage, serial_no |-> 0]

CfgInit ==
  /\ fhs = <<Files[Main]>>
  /\ curlyBlock_lst = <<>> /\ entry_map = <<>> /\ serial_no_seq = 0
  /\ known = FALSE /\ nTuples = 0 /\ looked = {}
  /\ doc = <<>>

---------------------------------------------------------------------------
(* _CFGMAP_fh_read(): one action for each kind of line.  Each is given the *)
(* line and what then remains of the file; ok says how it went.            *)

Remains(rest) == fhs' = [fhs EXCEPT ![Len(fhs)] = rest]
Recorded(l) == doc' = Append(doc, l)

\* PTRVEC_remTail() n times.
Closed(n) == SubSeq(curlyBlock_lst, 1, Len(curlyBlock_lst) - n)

Ends(l) == CASE l.end = "}" -> 1 [] l.end = "}}" -> 2 [] OTHER -> 0

\* The entry of a symbol, which is made if there is none; CFGMAP_append() of a value.
Entry(m, path) == [p \in DOMAIN m \cup {path} |-> IF p \in DOMAIN m THEN m[p] ELSE <<>>]
AppendValue(m, path, v) == [Entry(m, path) EXCEPT ![path] = Append(@, v)]

\* CFGMAP_append(): a symbol without a value is an entry all the same.  The
\* release build takes an index here for nothing.
Pair(l, rest, ok) ==
  /\ l.kind = "pair"
  /\ ok = (Ends(l) <= Len(curlyBlock_lst))
  /\ IF ~ok THEN UNCHANGED <<readVars, known>>
     ELSE LET blocks == Closed(Ends(l))
              path   == blocks \o l.sym
          IN  /\ IF l.val = ""
                 THEN /\ entry_map' = Entry(entry_map, path)
                      /\ UNCHANGED <<serial_no_seq, known>>
                 ELSE /\ serial_no_seq' = serial_no_seq + 1
                      /\ known' = FALSE
                      /\ entry_map' = AppendValue(entry_map, path,
                                        [str |-> l.val, serial_no |-> serial_no_seq'])
              /\ curlyBlock_lst' = IF l.end = "{" THEN Append(blocks, l.val) ELSE blocks
  /\ Remains(rest) /\ Recorded(l)
  /\ UNCHANGED <<nTuples, looked>>

\* The VALUE is replaced in its place; without an index what is put there is the
\* string itself; to free that for a VALUE ends the run.  Within a block the symbol
\* is never found.
Replace(l, rest, ok) ==
  /\ l.kind = "replace"
  /\ LET vals == entry_map[l.sym]
     IN  /\ ok = /\ Ends(l) <= Len(curlyBlock_lst)
                 /\ Closed(Ends(l)) = <<>> /\ l.sym \in DOMAIN entry_map
                 /\ IF l.ndx = NoNdx THEN Len(vals) = 1
                    ELSE l.ndx < Len(vals) /\ vals[l.ndx + 1] # Wild
         /\ IF ~ok THEN UNCHANGED <<curlyBlock_lst, entry_map>>
            ELSE /\ curlyBlock_lst' = Closed(Ends(l))
                 /\ entry_map' = [entry_map EXCEPT ![l.sym] =
                      IF l.ndx = NoNdx THEN <<Wild>>
                      ELSE [vals EXCEPT ![l.ndx + 1].str = l.val]]
  /\ Remains(rest) /\ Recorded(l)
  /\ UNCHANGED <<serial_no_seq, queryVars>>

\* A } at the end of a line closes a block, and a line that begins with } another.
Close(l, rest, ok) ==
  /\ l.kind = "close"
  /\ ok = (Ends(l) <= Len(curlyBlock_lst))
  /\ curlyBlock_lst' = IF ok THEN Closed(Ends(l)) ELSE curlyBlock_lst
  /\ Remains(rest) /\ Recorded(l)
  /\ UNCHANGED <<entry_map, serial_no_seq, queryVars>>

\* .include, and .shell for the output of a command.  A } at the end closes a block
\* before the file is opened.  Mutant: it is taken for a part of the name.
Include_keeps(l, rest, ok) ==
  /\ l.kind = "include"
  /\ ok = (l.sym \in DOMAIN Files /\ Len(fhs) < MaxOpen)
  /\ fhs' = IF ok THEN Append([fhs EXCEPT ![Len(fhs)] = rest], Files[l.sym]) ELSE fhs
  /\ Recorded(l)
  /\ UNCHANGED <<readVars, queryVars>>
Include(l, rest, ok) ==
  /\ l.kind = "include"
  /\ ok = /\ Ends(l) <= Len(curlyBlock_lst)
          /\ l.sym \in DOMAIN Files /\ Len(fhs) < MaxOpen
  /\ curlyBlock_lst' = IF Ends(l) <= Len(curlyBlock_lst)
                       THEN Closed(Ends(l)) ELSE curlyBlock_lst
  /\ fhs' = IF ok THEN Append([fhs EXCEPT ![Len(fhs)] = rest], Files[l.sym]) ELSE fhs
  /\ Recorded(l)
  /\ UNCHANGED <<entry_map, serial_no_seq, queryVars>>

\* An unterminated string, or a line longer than the buffer.
Broken(l, ok) ==
  /\ l.kind = "broken" /\ ok = FALSE
  /\ UNCHANGED cfgVars

Line(l, rest, ok) ==
  Pair(l, rest, ok) \/ Replace(l, rest, ok) \/ Close(l, rest, ok)
    \/ Include(l, rest, ok) \/ Broken(l, ok)

\* At the end of the outermost file no block may be open.
EndOfFile(ok) ==
  /\ Last(fhs) = <<>>
  /\ fhs' = Front(fhs)
  /\ ok = (fhs' = <<>> => curlyBlock_lst = <<>>)
  /\ UNCHANGED <<readVars, queryVars, doc>>

---------------------------------------------------------------------------
(* Queries.                                                                *)

Vals(path) == IF path \in DOMAIN entry_map THEN entry_map[path] ELSE <<>>
Strs(path) == [i \in DOMAIN Vals(path) |-> Vals(path)[i].str]

\* CFGMAP_find_last_value().  Mutant: the first value.
LastValue_first(path) == IF Vals(path) = <<>> THEN NULL ELSE Vals(path)[1].str
LastValue(path) == IF Vals(path) = <<>> THEN NULL ELSE Last(Vals(path)).str

\* CFGMAP_find() counts lookups of the symbols it finds.  Mutant: of any symbol.
Looked_any(paths) == looked' = looked \cup paths
Looked(paths) == looked' = looked \cup (paths \cap DOMAIN entry_map)

\* CFGMAP_numTuples().
CountTuples == FoldFunction(LAMBDA vals, n : n + Len(vals), 0, entry_map)
Counted ==
  /\ known' = TRUE
  /\ nTuples' = IF known THEN nTuples ELSE nTuples + CountTuples

\* CFGMAP_print_unused_symbols() and CFGMAP_numUnused_symbols().
Unused == DOMAIN entry_map \ looked

---------------------------------------------------------------------------
(* The meaning of the lines read, and properties.                          *)

Pairs == {i \in DOMAIN doc : doc[i].kind = "pair"}
Opened(i) == i \in Pairs /\ doc[i].end = "{"
TupleLines == {i \in Pairs : doc[i].val # ""}

\* A set of lines, first to last.
InOrder(S) == [k \in 1 .. Cardinality(S) |->
                 CHOOSE i \in S : Cardinality({j \in S : j <= i}) = k]

\* How many blocks are open after line i.
Depth(i) ==
  Cardinality({j \in 1 .. i : Opened(j)})
    - (Cardinality({j \in 1 .. i : Ends(doc[j]) > 0})
         + Cardinality({j \in 1 .. i : Ends(doc[j]) = 2}))

\* The symbol of each line: a block is around all lines up to the one that closes
\* it, and a } at its end closes the block before the line is filed.
Paths ==
  LET depth == [i \in 0 .. Len(doc) |-> Depth(i)]
      Around(i) == InOrder({j \in 1 .. i - 1 :
                      Opened(j) /\ \A k \in j + 1 .. i :
                                      depth[k - 1] - Ends(doc[k]) >= depth[j]})
  IN  [i \in Pairs |-> LET around == Around(i)
                       IN  [k \in DOMAIN around |-> doc[around[k]].val] \o doc[i].sym]

\* The values of each symbol in the order and with the serial numbers of their
\* lines, and of several replacements of one the last.
Meaning ==
  LET paths == Paths
      LinesOf(path) == InOrder({i \in TupleLines : paths[i] = path})
      Replacements(i, k) ==
        {r \in DOMAIN doc : /\ doc[r].kind = "replace" /\ r > i /\ doc[r].sym = paths[i]
                            /\ doc[r].ndx \in {NoNdx, k - 1}}
      Given(i) == [str |-> doc[i].val, serial_no |-> Cardinality(TupleLines \cap 1 .. i)]
      Value(i, k) ==
        IF Replacements(i, k) = {} THEN Given(i)
        ELSE LET last == doc[Max(Replacements(i, k))]
             IN  IF last.ndx = NoNdx THEN Wild ELSE [Given(i) EXCEPT !.str = last.val]
  IN  [path \in Range(paths) |->
         [k \in DOMAIN LinesOf(path) |-> Value(LinesOf(path)[k], k)]]

\* The map holds each value under the blocks that were open where it stands, in
\* the order and with the serial numbers of the lines, replacements in place.
FiledWhereWritten == entry_map = Meaning

CfgTypeOK ==
  /\ fhs \in Seq(Seq(Lines)) /\ Len(fhs) <= MaxOpen /\ doc \in Seq(Lines)
  /\ curlyBlock_lst \in Seq(STRING)
  /\ \A path \in DOMAIN entry_map :
       path \in Seq(STRING)
         /\ entry_map[path] \in Seq([str : STRING, serial_no : 0 .. serial_no_seq])
  /\ serial_no_seq \in 0 .. Len(doc)
  /\ known \in BOOLEAN /\ nTuples \in Nat
  /\ looked \subseteq DOMAIN entry_map
=============================================================================
