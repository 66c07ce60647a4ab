------------------------------ MODULE Startup -------------------------------
(***************************************************************************)
(* A run of ban2fail from its command line to the point where it knows its *)
(* log types and how many offenses each address is allowed: main() takes   *)
(* the options, the configuration file is parsed (CfgMap), configure()     *)
(* walks the map from block to block and calls MAXOFF_init() and           *)
(* LOGTYPE_init() for them, and the cache directories no log type claims   *)
(* are removed.  What a run does with the logs and with the rules is in    *)
(* LogCache and BlockRun.                                                  *)
(***************************************************************************)
EXTENDS CfgMap, MaxOff, FiniteSetsExt

CONSTANTS Options,        \* what there may be on the command line
          MaxDeviations,  \* bounds options and deviant, or missing, lines together
          BadRegexes,     \* regular expressions that do not compile
          OldNames        \* log types that have cache directories already

ASSUME DeviationsAssumption == MaxDeviations \in Nat

VARIABLES
  pc,           \* where main() is
  argv,         \* the options
  optind,       \* how many have been looked at
  flags,        \* G.flags
  dir,          \* G.cache.dir: of the production cache, or of the test
  deviations,   \* how far this run differs from a plain one
  todo,         \* what configure() and its recursive calls have to do yet
  addr_map, cntry_map,  \* allowances by address and by country
  logType_map,  \* the log types, in the order they were added
  cacheDirs,    \* the cache directories of production and test
  found         \* history, for the properties only: cacheDirs at the start

mainVars == <<pc, argv, optind, flags, dir, deviations, todo>>
confVars == <<addr_map, cntry_map, logType_map, cacheDirs>>
vars == <<cfgVars, mainVars, confVars, found>>

CacheKinds == {"production", "test"}

\* "-t:" is a -t without its argument, which it can only be at the end.
WellPlaced(opts) == \A i \in DOMAIN opts : opts[i] = "-t:" => i = Len(opts)

Init ==
  /\ CfgInit
  /\ pc = "options" /\ argv \in {opts \in SeqOf(Options, MaxDeviations) : WellPlaced(opts)}
  /\ optind = 0 /\ flags = {} /\ dir = "production"
  /\ deviations = Len(argv) /\ todo = <<>>
  /\ addr_map = <<>> /\ cntry_map = <<>> /\ logType_map = <<>>
  /\ cacheDirs = [k \in CacheKinds |-> OldNames] /\ found = cacheDirs

Goto(s) == pc' = s

---------------------------------------------------------------------------
(* The command line.                                                       *)

\* Every option but -F and -v makes a run that changes no rules; of a -t without its
\* argument getopt() says ':', and the switch has no case for it.
OnlyReports(opt) == opt \notin {"-F", "-v", "-t:"}

\* The flags an option sets; what is no option is an address to report on.
Sets(opt) ==
  (IF OnlyReports(opt) THEN {"DONT_IPTABLE"} ELSE {})
    \cup CASE opt \in {"-a", "-a+", "-a-"} -> {"LIST_ADDR"}
           [] opt = "-c"                   -> {"LIST_CNTRY"}
           [] opt = "-s"                   -> {"LIST_SUMMARY"}
           [] opt = "-F"                   -> {"FLUSH_CACHE"}
           [] opt = "-v"                   -> {"VERBOSE"}
           [] opt = "--print-lfn"          -> {"PRINT_LOGFILE_NAMES"}
           [] OTHER                        -> {}

\* The usage is printed at the end of the options, the version at once.
IsWrong(opt) == opt \in {"--help", "-ax", "-?"}

GetOption ==
  /\ pc = "options" /\ optind < Len(argv)
  /\ optind' = optind + 1
  /\ LET opt == argv[optind']
     IN  /\ Goto(IF opt = "--version" THEN "stopped" ELSE "options")
         /\ flags' = flags \cup (IF IsWrong(opt) THEN {"errflg"} ELSE Sets(opt))
         /\ dir' = IF opt = "-t" THEN "test" ELSE dir
  /\ UNCHANGED <<cfgVars, argv, deviations, todo, confVars, found>>

OptionsDone ==
  /\ pc = "options" /\ optind = Len(argv)
  /\ Goto(IF "errflg" \in flags THEN "failed" ELSE "parse")
  /\ UNCHANGED <<cfgVars, argv, optind, flags, dir, deviations, todo, confVars, found>>

---------------------------------------------------------------------------
(* The file.  A line of it, or in its place, or before it, another.        *)

Current == Last(fhs)

\* The line that is read, what remains of the file, and what it costs.
NextLines ==
  (IF Current = <<>> THEN {} ELSE {<<Head(Current), Tail(Current), 0>>})
    \cup {<<l, Current, 1>> : l \in Deviant}

ReadLine ==
  /\ pc = "parse"
  /\ \E next \in NextLines, ok \in BOOLEAN :
       /\ deviations + next[3] <= MaxDeviations /\ deviations' = deviations + next[3]
       /\ Line(next[1], next[2], ok)
       /\ Goto(IF ok THEN "parse" ELSE "failed")
  /\ UNCHANGED <<argv, optind, flags, dir, todo, confVars, found>>

\* A line is missing, or has been made a comment.
SkipLine ==
  /\ pc = "parse" /\ Current # <<>>
  /\ deviations < MaxDeviations /\ deviations' = deviations + 1
  /\ Remains(Tail(Current)) /\ UNCHANGED <<readVars, queryVars, doc>>
  /\ UNCHANGED <<pc, argv, optind, flags, dir, todo, confVars, found>>

\* After the last file the lock is taken, -F removes the cache, and the directory
\* of the cache is made if there is none.
Sections(path) ==
  << [step |-> "section", sym |-> "MAX_OFFENSES", path |-> path],
     [step |-> "section", sym |-> "LOGTYPE", path |-> path] >>

FileEnds ==
  /\ pc = "parse"
  /\ \E ok \in BOOLEAN :
       /\ EndOfFile(ok)
       /\ Goto(IF ~ok THEN "failed" ELSE IF fhs' = <<>> THEN "configure" ELSE "parse")
  /\ IF fhs' = <<>> /\ pc' = "configure"
     THEN /\ todo' = Sections(<<>>)
          /\ cacheDirs' = IF "FLUSH_CACHE" \in flags
                          THEN [cacheDirs EXCEPT ![dir] = {}] ELSE cacheDirs
     ELSE UNCHANGED <<todo, cacheDirs>>
  /\ UNCHANGED <<argv, optind, flags, dir, deviations, addr_map, cntry_map, logType_map, found>>

---------------------------------------------------------------------------
(* configure().                                                            *)

Item == Head(todo)
Doing(step, sym) ==
  pc = "configure" /\ todo # <<>> /\ Item.step = step /\ Item.sym = sym

\* A string that is no VALUE: to read it may be the end.
Misread(paths) == \E p \in paths : \E i \in DOMAIN Vals(p) : Vals(p)[i] = Wild
Crashes(paths) == Misread(paths) /\ Goto("crashed") /\ UNCHANGED <<todo, queryVars, confVars>>

\* Each value of the symbol names a block: it is initialised, then walked itself.
Steps(sym, block) == <<[step |-> "init", sym |-> sym, path |-> block]>> \o Sections(block)
WalkSection(sym) ==
  /\ Doing("section", sym)
  /\ LET p == Append(Item.path, sym)
     IN  \/ Crashes({p})
         \/ /\ todo' = FlattenSeq([i \in DOMAIN Strs(p) |->
                                    Steps(sym, Append(Item.path, Strs(p)[i]))]) \o Tail(todo)
            /\ Looked({p})
            /\ UNCHANGED <<pc, known, nTuples, confVars>>

\* Fails on a name that is no number, and on the first value that is refused.
InitMaxOff ==
  /\ Doing("init", "MAX_OFFENSES")
  /\ LET ips == Append(Item.path, "IP")
         cntrys == Append(Item.path, "COUNTRY")
         vals == ToSet(Strs(ips))
         name == Last(Item.path)
     IN  \/ Crashes({ips, cntrys})
         \/ /\ IF name \notin DOMAIN Numbers \/ \E val \in vals : IsRefused(val)
               THEN Goto("failed") /\ UNCHANGED <<todo, addr_map, cntry_map>>
               ELSE /\ \E shifts \in BOOLEAN :
                         addr_map' = AddKeys(addr_map,
                           UNION {Listed(IpSpecs[val], shifts) : val \in vals}, Numbers[name])
                    /\ cntry_map' = AddKeys(cntry_map, ToSet(Strs(cntrys)), Numbers[name])
                    /\ todo' = Tail(todo) /\ UNCHANGED pc
            /\ Counted /\ Looked({ips, cntrys})
            /\ UNCHANGED <<logType_map, cacheDirs>>

\* What TS_init() and Target_init() take from the map.
TsOf(path) == [regex    |-> LastValue(Append(path, "REGEX")),
               strptime |-> LastValue(Append(path, "STRPTIME")),
               flags    |-> LastValue(Append(path, "FLAGS"))]
TargetOf(path) == [severity |-> LastValue(Append(path, "SEVERITY")),
                   regexes  |-> Strs(Append(path, "REGEX"))]

\* A log type is known by DIR, PREFIX and the checksum of its patterns.
LogTypeOf(path) ==
  LET ts == LastValue(Append(path, "TIMESTAMP"))
      targets == Strs(Append(path, "TARGET"))
  IN  [dir  |-> LastValue(Append(path, "DIR")),
       pfix |-> LastValue(Append(path, "PREFIX")),
       ts   |-> IF ts = NULL THEN <<>> ELSE <<TsOf(Append(path, ts))>>,
       targets |-> [i \in DOMAIN targets |-> TargetOf(Append(path, targets[i]))]]

\* regex_compile(), str2bits() of the one flag there is, sscanf() of an unsigned.
RegexFails(regex) == regex \in BadRegexes
FlagsFail(str) == str \notin {NULL, "", "GUESS_YEAR"}
UintFails(str) == str # NULL /\ str \notin DOMAIN Numbers
TsFails(t) == t.regex = NULL \/ RegexFails(t.regex) \/ t.strptime = NULL \/ FlagsFail(t.flags)
TargetFails(t) == UintFails(t.severity) \/ \E i \in DOMAIN t.regexes : RegexFails(t.regexes[i])
LogTypeFails(t) == \/ t.dir = NULL \/ t.pfix = NULL
                   \/ t.ts # <<>> /\ TsFails(t.ts[1])
                   \/ \E i \in DOMAIN t.targets : TargetFails(t.targets[i])

\* The symbols looked up on the way.  Mutant: TIMESTAMP is taken for a path itself.
Under(p, syms) == {Append(p, s) : s \in syms}
LogTypeSymbols_unprefixed(path) ==
  LET ts == LastValue(Append(path, "TIMESTAMP"))
  IN  Under(path, {"DIR", "PREFIX", "TIMESTAMP", "TARGET"})
        \cup (IF ts = NULL THEN {} ELSE Under(<<ts>>, {"REGEX", "STRPTIME", "FLAGS"}))
        \cup UNION {Under(Append(path, t), {"SEVERITY", "REGEX"}) :
                      t \in ToSet(Strs(Append(path, "TARGET")))}
LogTypeSymbols(path) ==
  LET ts == LastValue(Append(path, "TIMESTAMP"))
  IN  Under(path, {"DIR", "PREFIX", "TIMESTAMP", "TARGET"})
        \cup (IF ts = NULL THEN {} ELSE Under(Append(path, ts), {"REGEX", "STRPTIME", "FLAGS"}))
        \cup UNION {Under(Append(path, t), {"SEVERITY", "REGEX"}) :
                      t \in ToSet(Strs(Append(path, "TARGET")))}

\* Only to print the name of the log, nothing is scanned and nothing kept.
InitLogType ==
  /\ Doing("init", "LOGTYPE")
  /\ LET t == LogTypeOf(Item.path)
     IN  \/ Crashes(LogTypeSymbols(Item.path))
         \/ /\ IF LogTypeFails(t)
               THEN Goto("failed") /\ UNCHANGED <<todo, logType_map, cacheDirs>>
               ELSE /\ todo' = Tail(todo) /\ UNCHANGED pc
                    /\ IF "PRINT_LOGFILE_NAMES" \in flags
                       THEN UNCHANGED <<logType_map, cacheDirs>>
                       ELSE /\ logType_map' = Append(logType_map, t)
                            /\ cacheDirs' = [cacheDirs EXCEPT ![dir] = @ \cup {t}]
            /\ Counted /\ Looked(LogTypeSymbols(Item.path))
            /\ UNCHANGED <<addr_map, cntry_map>>

\* A directory that cannot be opened, or a cache that cannot be written, ends the
\* run, before the cache directory of the log type is made, or after it.
LogTypeUnopened ==
  /\ Doing("init", "LOGTYPE")
  /\ LET t == LogTypeOf(Item.path)
     IN  /\ ~LogTypeFails(t) /\ "PRINT_LOGFILE_NAMES" \notin flags
         /\ cacheDirs' \in {cacheDirs, [cacheDirs EXCEPT ![dir] = @ \cup {t}]}
  /\ Goto("failed") /\ Counted /\ Looked(LogTypeSymbols(Item.path))
  /\ UNCHANGED <<todo, logType_map, addr_map, cntry_map>>

Configure ==
  /\ \/ WalkSection("MAX_OFFENSES") \/ WalkSection("LOGTYPE")
     \/ InitMaxOff \/ InitLogType \/ LogTypeUnopened
  /\ UNCHANGED <<fhs, readVars, doc, argv, optind, flags, dir, deviations, found>>

---------------------------------------------------------------------------
(* The rest.                                                               *)

\* Mutant: --print-lfn goes on like any other run.
MayPrune_always == TRUE
MayPrune == "PRINT_LOGFILE_NAMES" \notin flags

\* -v prints the unused symbols; then the cache directories that belong to no log
\* type are removed, and what is left to do is to report, or to block.
Configured ==
  /\ pc = "configure" /\ todo = <<>>
  /\ IF MayPrune
     THEN /\ cacheDirs' = [cacheDirs EXCEPT ![dir] = @ \cap ToSet(logType_map)]
          /\ Goto(IF "DONT_IPTABLE" \in flags THEN "report" ELSE "block")
     ELSE /\ Goto("stopped") /\ UNCHANGED cacheDirs
  /\ UNCHANGED <<cfgVars, argv, optind, flags, dir, deviations, todo,
                 addr_map, cntry_map, logType_map, found>>

Next ==
  \/ GetOption \/ OptionsDone
  \/ ReadLine \/ SkipLine \/ FileEnds
  \/ Configure \/ Configured

Spec == Init /\ [][Next]_vars

---------------------------------------------------------------------------
(* What the map, which holds what the lines mean, means for the run.       *)

\* How often configure() comes to the block of a path: once for each line that
\* names it in a section, as often as it comes to the block around that.
NamedBy(path, sym) ==
  LET vals == Strs(Append(Front(path), sym))
  IN  Cardinality({i \in DOMAIN vals : vals[i] = Last(path)})
Visits(path) ==
  LET visits[n \in 0 .. Len(path)] ==
        IF n = 0 THEN 1
        ELSE LET block == SubSeq(path, 1, n)
             IN  visits[n - 1] * (NamedBy(block, "MAX_OFFENSES") + NamedBy(block, "LOGTYPE"))
  IN  visits[Len(path)]
SectionVisits(path, sym) ==
  IF path = <<>> THEN 0 ELSE Visits(Front(path)) * NamedBy(path, sym)

Blocks(sym) ==
  UNION {{Append(Front(p), v) : v \in Range(Strs(p))} :
           p \in {q \in DOMAIN entry_map : Last(q) = sym /\ Visits(Front(q)) > 0}}

\* The numbers of the blocks that list an address, or a country.
Covers(val, addr) ==
  LET spec == IpSpecs[val]
  IN  \/ IsAddress(spec) /\ spec.addr = addr
      \/ IsCidr(spec) /\ \E i \in Net(spec) .. Net(spec) + Pow2[Width - spec.bits] - 2 :
                           Quads[i + 1] = addr
NumbersBy(sym, Matches(_)) ==
  {Numbers[Last(b)] : b \in {c \in Blocks("MAX_OFFENSES") :
                               \E val \in Range(Strs(Append(c, sym))) : Matches(val)}}

\* A log type has the patterns of all targets its block names, and of no others.
IsOf(t, block) ==
  LET names == Range(Strs(Append(block, "TARGET")))
  IN  /\ IsSuffix(<<t.dir>>, Strs(Append(block, "DIR")))
      /\ IsSuffix(<<t.pfix>>, Strs(Append(block, "PREFIX")))
      /\ UNION {Range(t.targets[i].regexes) : i \in DOMAIN t.targets}
           = UNION {Range(Strs(block \o <<n, "REGEX">>)) : n \in names}

\* A symbol main() has a use for, where it stands.
Recognised(path) ==
  LET block == Front(path)
      word  == Last(path)
      In(sym) == SectionVisits(block, sym) > 0
      InPart(sym) == /\ Len(block) > 1 /\ SectionVisits(Front(block), "LOGTYPE") > 0
                     /\ Last(block) \in Range(Strs(Append(Front(block), sym)))
  IN  CASE word \in {"MAX_OFFENSES", "LOGTYPE"} -> Visits(block) > 0
        [] word \in {"IP", "COUNTRY"} -> In("MAX_OFFENSES")
        [] word \in {"DIR", "PREFIX", "TIMESTAMP", "TARGET"} -> In("LOGTYPE")
        [] word \in {"STRPTIME", "FLAGS", "SEVERITY", "REGEX"} ->
             \/ /\ word # "SEVERITY" /\ InPart("TIMESTAMP")
                /\ IsSuffix(<<Last(block)>>, Strs(Append(Front(block), "TIMESTAMP")))
             \/ word \in {"SEVERITY", "REGEX"} /\ InPart("TARGET")
        [] OTHER -> FALSE

---------------------------------------------------------------------------
(* Properties.                                                             *)

\* CfgTypeOK, and the state of main().
TypeOK ==
  /\ CfgTypeOK
  /\ pc \in {"options", "parse", "configure", "report", "block", "stopped", "failed", "crashed"}
  /\ optind \in 0 .. Len(argv) /\ deviations \in 0 .. MaxDeviations
  /\ dir \in CacheKinds
  /\ todo \in Seq([step : {"section", "init"}, sym : {"MAX_OFFENSES", "LOGTYPE"},
                    path : Seq(STRING)])
  /\ \A a \in DOMAIN addr_map : a \in DOMAIN CountryOf /\ addr_map[a] \in Int
  /\ \A c \in DOMAIN cntry_map : cntry_map[c] \in Int
  /\ DOMAIN cacheDirs = CacheKinds

\* However blocks nest, across whatever files, and whatever is replaced: once the
\* last file has ended, the map holds what the lines mean.
MapIsTheText == pc = "configure" /\ todo = Sections(<<>>) => FiledWhereWritten

Done == pc \in {"report", "block"}
\* No prefix is as long as an address, or longer.
NoHostPrefix ==
  \A p \in DOMAIN entry_map : Last(p) = "IP" =>
    \A val \in Range(Strs(p)) \cap DOMAIN IpSpecs :
      IsCidr(IpSpecs[val]) => IpSpecs[val].bits < Width

\* What an address is allowed comes from a block: it is the number of one that lists
\* it, by itself or as any but the last address of a CIDR block; and only if there is
\* none, or one says 0, that of a block that lists its country, or 0.
AllowanceFromBlocks ==
  Done /\ NoHostPrefix =>
    \A a \in DOMAIN CountryOf :
      LET byAddr  == NumbersBy("IP", LAMBDA val : Covers(val, a))
          byCntry == NumbersBy("COUNTRY", LAMBDA val : val = CountryOf[a])
      IN  Allowed(addr_map, cntry_map, a)
            \in (byAddr \ {0}) \cup (IF byAddr \subseteq {0} \/ 0 \in byAddr
                                     THEN IF byCntry = {} THEN {0} ELSE byCntry
                                     ELSE {})

\* There is a log type for each time a LOGTYPE block is named, with the directory
\* and the prefix given last and the patterns of all blocks of that name: named
\* twice, its logs are read twice.
LogTypesAsWritten ==
  Done => /\ Len(logType_map) = MapThenSumSet(LAMBDA b : SectionVisits(b, "LOGTYPE"),
                                             Blocks("LOGTYPE"))
          /\ \A b \in Blocks("LOGTYPE") : \E i \in DOMAIN logType_map : IsOf(logType_map[i], b)

\* What -v prints is what the program has no use for, and all of it.
UnrecognisedReported ==
  Done => Unused = {p \in DOMAIN entry_map : ~Recognised(p)}

\* Who asks for a report, a test of a file or the names of the logs changes no
\* rules; unless it is flushed the cache keeps what its log types need, a test does
\* not touch the cache of production, and to print names touches neither.  A -t without
\* its file (-t:) asks for nothing, as ban2fail.c:199-255 has it.
OnlyProductionActs ==
  LET Given(opts) == \E i \in DOMAIN argv : argv[i] \in opts
  IN  /\ pc = "block" => ~ \E i \in DOMAIN argv : argv[i] \notin {"-F", "-v", "-t:"}
      /\ ~Given({"-F"}) =>
           /\ Done => found[dir] \cap ToSet(logType_map) \subseteq cacheDirs[dir]
           /\ Given({"-t"}) /\ pc # "options" => cacheDirs["production"] = found["production"]
           /\ Given({"--print-lfn"}) => cacheDirs = found

---------------------------------------------------------------------------
(* What the repository says of the program, and the program does not do.   *)

\* maxoff.c:64 "by-address spec trumps by-country spec": where a block lists an
\* address, a number of such a block is what it is allowed.
AddressTrumps ==
  Done /\ NoHostPrefix =>
    \A a \in DOMAIN CountryOf :
      LET byAddr == NumbersBy("IP", LAMBDA val : Covers(val, a))
      IN  byAddr # {} => Allowed(addr_map, cntry_map, a) \in byAddr
=============================================================================
