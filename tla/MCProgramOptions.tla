-------------------------- MODULE MCProgramOptions --------------------------
(* Three names, two of them with the same first letter, offered with equal *)
(* and with different short forms and every kind of argument; words that   *)
(* give, combine, abbreviate and misuse them, and clusters with an unknown *)
(* letter before one that requires an argument, which getopt keeps.        *)
EXTENDS ProgramOptions, TLC

CONSTANTS help, host, count, letterH, letterC, letterU

MCNames == {help, host, count}
MCLetters == {letterH, letterC, letterU}
MCFirstLetter == [n \in MCNames |-> IF n = count THEN letterC ELSE letterH]

Offer(n, short, kind) == [name |-> n, shortOption |-> short, hasArg |-> kind]

MCOffered ==
    { Offer(help, AutoShort, "none"),
      Offer(host, letterC, "required"),
      Offer(host, NoShort, "required"),
      Offer(count, AutoShort, "optional"),
      Offer(count, letterH, "required"),
      Offer(BadName, NoShort, "none") }

MCWords ==
    { Cluster(<<letterH>>), Cluster(<<letterH, letterU, letterC, letterH>>),
      Cluster(<<letterH, letterC>>),
      Long(host, NoArg), Long(host, "full"), Long(count, "empty"), Long(help, "full"),
      Text("full"), Text("empty"), Dashes }
=============================================================================
