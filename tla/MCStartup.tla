----------------------------- MODULE MCStartup ------------------------------
EXTENDS Startup

\* A line of the configuration file.
PairLine(word, val, end) ==
  [kind |-> "pair", sym |-> <<word>>, ndx |-> NoNdx, val |-> val, end |-> end]
Set(word, val) == PairLine(word, val, "")
Block(word, val) == PairLine(word, val, "{")
CloseLine(end) == [kind |-> "close", sym |-> <<>>, ndx |-> NoNdx, val |-> "", end |-> end]
IncludeLine(file, end) ==
  [kind |-> "include", sym |-> file, ndx |-> NoNdx, val |-> "", end |-> end]
ReplaceLine(path, ndx, val) ==
  [kind |-> "replace", sym |-> path, ndx |-> ndx, val |-> val, end |-> ""]
BrokenLine == [kind |-> "broken", sym |-> <<>>, ndx |-> NoNdx, val |-> "", end |-> ""]

\* After src/ban2fail.cfg, with a file of trusted addresses on its own.
MCFiles ==
  (<<"main">> :>
     << Block("MAX_OFFENSES", "-1"), Set("IP", "a0"), CloseLine("}"),
        Block("MAX_OFFENSES", "2"), IncludeLine(<<"trusted">>, ""), Set("COUNTRY", "US"),
        CloseLine("}"),
        Block("LOGTYPE", "auth"), Set("DIR", "d1"), Set("PREFIX", "p1"),
        Block("TIMESTAMP", "ts"), Set("REGEX", "r1"), Set("STRPTIME", "f1"), CloseLine("}"),
        Block("TARGET", "ssh"), Set("SEVERITY", "2"), Set("REGEX", "r2"), CloseLine("}"),
        CloseLine("}") >>)
  @@ (<<"trusted">> :> << Set("IP", "a4/1"), Set("IP", "a1") >>)

MCMain == <<"main">>

MCDeviant ==
  { Block("LOGTYPE", "auth"), Block("MAX_OFFENSES", "0"), Block("", ""),
    Set("IP", "a0"), PairLine("IP", "a1 }", "}"), Set("IP", "a2/3"), Set("IP", "v6/2"),
    Set("DIR", "d2"), Set("TARGET", "ts"),
    CloseLine("}"), CloseLine("}}"), BrokenLine,
    IncludeLine(<<"trusted">>, ""), IncludeLine(<<"trusted">>, "}"), IncludeLine(<<"main">>, ""),
    ReplaceLine(<<"2", "IP">>, 1, "a0"), ReplaceLine(<<"-1", "IP">>, NoNdx, "a1"),
    ReplaceLine(<<"auth", "TIMESTAMP">>, 0, "") }

MCQuads == <<"a0", "a1", "a2", "a3", "a4", "a5", "a6", "a7">>
Address(a) == [kind |-> "address", addr |-> a]
Cidr(base, bits) == [kind |-> "cidr", base |-> base, bits |-> bits]
MCIpSpecs ==
  "a0" :> Address("a0") @@ "a1" :> Address("a1") @@ "a1 }" :> Address("a1")
  @@ "a4/1" :> Cidr(4, 1) @@ "a2/3" :> Cidr(2, 3)

MCNumbers == "-1" :> -1 @@ "0" :> 0 @@ "2" :> 2
MCCountryOf == [a \in ToSet(MCQuads) \cup {"v6"} |-> IF a \in {"a0", "a5"} THEN "US" ELSE "unknown"]

Name(severity) ==
  [dir |-> "d1", pfix |-> "p1",
   ts |-> <<[regex |-> "r1", strptime |-> "f1", flags |-> NULL]>>,
   targets |-> <<[severity |-> severity, regexes |-> <<"r2">>]>>]
MCOldNames == {Name("2"), Name(NULL)}
=============================================================================
